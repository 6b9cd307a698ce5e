------------------------ MODULE TerminalSession_proofs ------------------------
(***************************************************************************)
(* Proofs about a browser terminal session (TerminalSession), for any      *)
(* connections, output streams, history and queue sizes: the ring keeps    *)
(* the newest frames and replays them oldest first; delivery is in order;  *)
(* no live frame is lost silently; a session nobody uses is timed.         *)
(***************************************************************************)
EXTENDS TerminalSession, WellFoundedInduction, TLAPS

-----------------------------------------------------------------------------
(* Arithmetic and sequences *)

\* Go's ring.Next and ring.Move wrap around: one turn past either end of the
\* ring is all the code needs.
LEMMA Wrap ==
  ASSUME NEW x \in -HistorySize .. HistorySize
  PROVE  x % HistorySize = IF x < 0 THEN x + HistorySize ELSE IF x = HistorySize THEN 0 ELSE x
<1>1. HistorySize \in Nat \ {0}
  BY TerminalAssumption, Zenon
<1>2. CASE x \in -HistorySize .. -1
  BY <1>1, <1>2
<1>3. CASE x \in 0 .. HistorySize - 1
  BY <1>1, <1>3
<1>4. CASE x = HistorySize
  BY <1>1, <1>4
<1> QED  BY <1>1, <1>2, <1>3, <1>4

\* A set of naturals that is not empty has a least element.
LEMMA LeastNatural ==
  ASSUME NEW T, T \subseteq Nat, T # {}
  PROVE  \E x \in T : \A y \in T : x <= y
<1> DEFINE R == OpToRel(<, Nat)
<1>1. IsWellFoundedOn(R, Nat)
  BY NatLessThanWellFounded, Zenon
<1>2. R = {ss \in Nat \X Nat : ss[1] < ss[2]}
  BY Zenon DEF OpToRel
<1> HIDE DEF R
<1>3. \E x \in T : \A y \in T : ~ (<<y, x>> \in R)
  BY <1>1, WFMin, Zenon
<1>4. \A x, y \in Nat : y < x => <<y, x>> \in R
  BY <1>2, Zenon
<1>5. \A x, y \in Nat : ~ (y < x) => x <= y
  OBVIOUS
<1> QED  BY <1>3, <1>4, <1>5, Zenon

\* The elements of a sequence.
LEMMA ElementOfSeq ==
  ASSUME NEW S, NEW s \in Seq(S), NEW i \in 1 .. Len(s)
  PROVE  s[i] \in S
  OBVIOUS

\* Two sequences with the same elements are equal.
LEMMA SeqEqual ==
  ASSUME NEW S, NEW s \in Seq(S), NEW t \in Seq(S),
         Len(s) = Len(t), \A i \in 1 .. Len(s) : s[i] = t[i]
  PROVE  s = t
  OBVIOUS

\* The first element of a sequence and the rest.
LEMMA HeadAndTail ==
  ASSUME NEW S, NEW s \in Seq(S), s # <<>>
  PROVE  /\ Len(s) \in Nat /\ Len(s) > 0 /\ Head(s) = s[1] /\ Head(s) \in S
         /\ Tail(s) \in Seq(S) /\ Len(Tail(s)) = Len(s) - 1
         /\ \A k \in 1 .. Len(s) - 1 : Tail(s)[k] = s[k + 1]
<1>1. Len(s) \in Nat /\ Len(s) > 0
  OBVIOUS
<1>2. Head(s) = s[1] /\ Head(s) \in S
  BY <1>1
<1>3. Tail(s) \in Seq(S) /\ Len(Tail(s)) = Len(s) - 1
  BY <1>1
<1>4. \A k \in 1 .. Len(s) - 1 : Tail(s)[k] = s[k + 1]
  BY <1>1, <1>3
<1> QED  BY <1>1, <1>2, <1>3, <1>4, Zenon

-----------------------------------------------------------------------------
(* The history ring *)

\* The frames first + 1 .. last in a row.
Run(first, last) == [k \in 1 .. (IF last > first THEN last - first ELSE 0) |-> first + k]

\* One frame more at the end of such a row.
LEMMA RunGrows ==
  ASSUME NEW first \in Nat, NEW last \in Nat, first <= last
  PROVE  Append(Run(first, last), last + 1) = Run(first, last + 1)
<1> DEFINE r == Run(first, last)
<1>1. r \in Seq(Nat) /\ Len(r) = last - first /\ \A k \in 1 .. last - first : r[k] = first + k
  BY DEF Run
<1>2. Append(r, last + 1) \in Seq(Nat) /\ Len(Append(r, last + 1)) = last - first + 1
  BY <1>1
<1>3. Run(first, last + 1) \in Seq(Nat) /\ Len(Run(first, last + 1)) = last - first + 1
  BY DEF Run
<1>4. ASSUME NEW k \in 1 .. last - first + 1
      PROVE  Append(r, last + 1)[k] = Run(first, last + 1)[k]
  <2>1. Run(first, last + 1)[k] = first + k
    BY DEF Run
  <2>2. CASE k <= last - first
    <3>1. k \in 1 .. Len(r)
      BY <1>1, <2>2
    <3>2. Append(r, last + 1)[k] = r[k]
      <4> HIDE DEF r
      <4> QED  BY <1>1, <3>1
    <3> QED  BY <1>1, <2>1, <2>2, <3>2
  <2>3. CASE k = last - first + 1
    <3> HIDE DEF r
    <3> QED  BY <1>1, <2>1, <2>3, SMTT(20), Zenon
  <2>4. k <= last - first \/ k = last - first + 1
    OBVIOUS
  <2> QED  BY <2>2, <2>3, <2>4, Zenon
<1> DEFINE s == Append(r, last + 1)
           t == Run(first, last + 1)
<1>5. s \in Seq(Nat) /\ t \in Seq(Nat) /\ Len(s) = Len(t) /\ \A k \in 1 .. Len(s) : s[k] = t[k]
  BY <1>2, <1>3, <1>4, Zenon
<1> HIDE DEF s, t
<1>6. s = t
  BY <1>5, SeqEqual, Zenon
<1> QED  BY <1>6, Zenon DEF s, t

\* The equation the loop of snapshotFramesAfter satisfies.
Loop(after, f) ==
  [i \in 0 .. historyLen |->
     IF i = 0 THEN <<>>
     ELSE LET seq == ring[(pos - historyLen + i - 1) % HistorySize]
          IN  IF seq > after THEN Append(f[i - 1], seq) ELSE f[i - 1]]

\* What turn i reads: the ring holds the newest frames, oldest first from
\* position pos - historyLen on.
LEMMA TurnReads ==
  ASSUME TypeOK, HistoryIsTheNewest, NEW i \in 1 .. historyLen
  PROVE  /\ nextSeq \in Nat /\ historyLen \in Nat /\ historyLen <= nextSeq
         /\ ring[(pos - historyLen + i - 1) % HistorySize] = nextSeq - historyLen + i
<1>1. nextSeq \in Nat /\ HistorySize \in Nat \ {0} /\ pos \in 0 .. HistorySize - 1
  BY TerminalAssumption DEF TypeOK, nextSeq
<1>2. historyLen \in Nat /\ historyLen <= nextSeq /\ historyLen <= HistorySize
  BY <1>1 DEF historyLen
<1> DEFINE k == historyLen - i + 1
           x == pos - historyLen + i - 1
<1>3. k \in 1 .. historyLen /\ x = pos - k /\ x \in -HistorySize .. HistorySize /\ x # HistorySize
  BY <1>1, <1>2
<1>4. x % HistorySize = Back(k)
  <2>1. x % HistorySize = IF x < 0 THEN x + HistorySize ELSE x
    BY <1>3, Wrap, Zenon
  <2> QED  BY <1>1, <1>2, <1>3, <2>1 DEF Back
<1>5. ring[Back(k)] = nextSeq - k + 1
  BY <1>3, Zenon DEF HistoryIsTheNewest
<1> QED  BY <1>1, <1>2, <1>4, <1>5

\* snapshotFramesAfter returns the frames in the ring that are newer than
\* after, oldest first and without a gap.
LEMMA SnapshotIsARun ==
  ASSUME TypeOK, HistoryIsTheNewest, NEW after \in Nat
  PROVE  snapshotFramesAfter(after) =
           Run(IF after > nextSeq - historyLen THEN after ELSE nextSeq - historyLen, nextSeq)
<1> DEFINE base == nextSeq - historyLen
           first == IF after > base THEN after ELSE base
           g == [i \in 0 .. historyLen |-> Run(first, base + i)]
           kept == CHOOSE f : f = Loop(after, f)
<1>1. /\ nextSeq \in Nat /\ historyLen \in Nat /\ base \in Nat
      /\ first \in Nat /\ first >= base
  <2>1. nextSeq \in Nat /\ HistorySize \in Nat \ {0}
    BY TerminalAssumption DEF TypeOK, nextSeq
  <2>2. historyLen \in Nat /\ historyLen <= nextSeq
    BY <2>1 DEF historyLen
  <2> QED  BY <2>1, <2>2
<1>2. ASSUME NEW f, NEW i \in 0 .. historyLen,
             i > 0 => f[i - 1] = Run(first, base + (i - 1))
      PROVE  Loop(after, f)[i] = Run(first, base + i)
  <2>1. CASE i = 0
    <3>1. Loop(after, f)[i] = <<>>
      BY <2>1, Zenon DEF Loop
    <3>2. Run(first, base + i) = <<>>
      <4>1. base + i = base /\ ~ (base > first)
        BY <1>1, <2>1
      <4> HIDE DEF first, base
      <4> QED  BY <4>1 DEF Run
    <3> QED  BY <3>1, <3>2, Zenon
  <2>2. CASE i > 0
    <3>1. i \in 1 .. historyLen
      BY <1>1, <2>2
    <3>2. ring[(pos - historyLen + i - 1) % HistorySize] = base + i
      BY <3>1, TurnReads, Zenon
    <3>3. Loop(after, f)[i] = IF base + i > after THEN Append(f[i - 1], base + i) ELSE f[i - 1]
      BY <2>2, <3>2 DEF Loop
    <3>4. CASE base + i > after
      <4>1. first <= base + (i - 1) /\ base + (i - 1) \in Nat /\ base + (i - 1) + 1 = base + i
        BY <1>1, <3>1, <3>4
      <4>2. Append(Run(first, base + (i - 1)), base + i) = Run(first, base + i)
        BY <1>1, <4>1, RunGrows, Zenon
      <4> QED  BY <1>2, <2>2, <3>3, <3>4, <4>2, Zenon
    <3>5. CASE ~ (base + i > after)
      <4>1. Run(first, base + (i - 1)) = Run(first, base + i)
        BY <1>1, <3>1, <3>5 DEF Run
      <4> QED  BY <1>2, <2>2, <3>3, <3>5, <4>1, Zenon
    <3> QED  BY <3>4, <3>5, Zenon
  <2> QED  BY <1>1, <2>1, <2>2
<1>3. g = Loop(after, g)
  <2>1. ASSUME NEW i \in 0 .. historyLen
        PROVE  g[i] = Loop(after, g)[i]
    <3>1. i > 0 => i - 1 \in 0 .. historyLen
      BY <1>1
    <3>2. i > 0 => g[i - 1] = Run(first, base + (i - 1))
      BY <3>1, Zenon
    <3>3. Loop(after, g)[i] = Run(first, base + i)
      BY <1>2, <3>2, Zenon
    <3> QED  BY <3>3, Zenon
  <2> QED  BY <2>1, Zenon DEF Loop
<1>4. kept = Loop(after, kept)
  <2> HIDE DEF g
  <2> QED  BY <1>3, Zenon
<1>5. snapshotFramesAfter(after) = kept[historyLen]
  BY Zenon DEF snapshotFramesAfter, Loop
<1>6. \A i \in 0 .. historyLen : kept[i] = Run(first, base + i)
  <2> HIDE DEF kept, g, first, base
  <2> DEFINE T == {i \in 0 .. historyLen : kept[i] # Run(first, base + i)}
  <2>1. SUFFICES ASSUME T # {} PROVE FALSE
    BY Zenon
  <2>2. T \subseteq Nat
    BY <1>1
  <2>3. PICK i \in T : \A j \in T : i <= j
    <3> HIDE DEF T
    <3> QED  BY <2>1, <2>2, LeastNatural, Zenon
  <2>4. i > 0 => kept[i - 1] = Run(first, base + (i - 1))
    <3>1. i > 0 => i - 1 \in 0 .. historyLen /\ ~ (i <= i - 1)
      BY <1>1
    <3> QED  BY <2>3, <3>1, Zenon
  <2>5. kept[i] = Run(first, base + i)
    <3>1. Loop(after, kept)[i] = Run(first, base + i)
      BY <1>2, <2>4, Zenon
    <3> QED  BY <1>4, <3>1, Zenon
  <2> QED  BY <2>5, Zenon
<1>7. kept[historyLen] = Run(first, base + historyLen) /\ base + historyLen = nextSeq
  <2> HIDE DEF kept, first
  <2> QED  BY <1>1, <1>6
<1> QED  BY <1>5, <1>7, Zenon

\* What a snapshot returns is new, published and ascending.
LEMMA SnapshotFacts ==
  ASSUME TypeOK, HistoryIsTheNewest, NEW after \in Nat,
         NEW frames, frames = snapshotFramesAfter(after)
  PROVE  /\ frames \in Seq(1 .. MaxFrames)
         /\ \A k \in 1 .. Len(frames) : frames[k] > after /\ frames[k] <= nextSeq
         /\ \A k \in 1 .. Len(frames) : \A l \in 1 .. k - 1 : frames[l] < frames[k]
<1>1. nextSeq \in Nat /\ nextSeq <= MaxFrames /\ MaxFrames \in Nat
  BY TerminalAssumption DEF TypeOK, nextSeq
<1>2. historyLen \in Nat /\ historyLen <= nextSeq
  BY <1>1, TerminalAssumption DEF historyLen
<1>3. PICK first \in Nat : first >= after /\ frames = Run(first, nextSeq)
  <2> DEFINE first == IF after > nextSeq - historyLen THEN after ELSE nextSeq - historyLen
  <2>1. first \in Nat /\ first >= after
    BY <1>1, <1>2
  <2>2. frames = Run(first, nextSeq)
    BY SnapshotIsARun, Zenon
  <2> HIDE DEF first
  <2> QED  BY <2>1, <2>2, Zenon
<1> DEFINE n == IF nextSeq > first THEN nextSeq - first ELSE 0
<1>4. n \in Nat /\ \A k \in 1 .. n : first + k \in 1 .. MaxFrames /\ first + k <= nextSeq /\ first + k > after
  BY <1>1, <1>3
<1>5. frames = [k \in 1 .. n |-> first + k]
  BY <1>3, Zenon DEF Run
<1> HIDE DEF n
<1>6. frames \in Seq(1 .. MaxFrames) /\ Len(frames) = n /\ \A k \in 1 .. n : frames[k] = first + k
  BY <1>4, <1>5
<1>7. \A k \in 1 .. n : \A l \in 1 .. k - 1 : l \in 1 .. n /\ first + l < first + k
  BY <1>3, <1>4
<1> QED  BY <1>4, <1>6, <1>7, Zenon

\* Every round of a replay reads the frames after the last one that the ring
\* still holds, oldest first.
LEMMA RingGivesTail ==
  ASSUME TypeOK, HistoryIsTheNewest
  PROVE  ReplayIsTheTail
<1>1. nextSeq \in Nat /\ HistorySize \in Nat \ {0}
  BY TerminalAssumption DEF TypeOK, nextSeq
<1> SUFFICES ASSUME NEW after \in 0 .. nextSeq
             PROVE  LET first == IF nextSeq - HistorySize > after THEN nextSeq - HistorySize ELSE after
                    IN  snapshotFramesAfter(after) = [i \in 1 .. nextSeq - first |-> first + i]
  BY Zenon DEF ReplayIsTheTail
<1> DEFINE first == IF nextSeq - HistorySize > after THEN nextSeq - HistorySize ELSE after
<1>2. /\ (IF after > nextSeq - historyLen THEN after ELSE nextSeq - historyLen) = first
      /\ after \in Nat /\ first \in Nat
      /\ (IF nextSeq > first THEN nextSeq - first ELSE 0) = nextSeq - first
  BY <1>1 DEF historyLen
<1>3. snapshotFramesAfter(after) = Run(IF after > nextSeq - historyLen THEN after ELSE nextSeq - historyLen, nextSeq)
  BY <1>2, SnapshotIsARun, Zenon
<1>4. snapshotFramesAfter(after) = Run(first, nextSeq)
  <2> HIDE DEF first
  <2> QED  BY <1>2, <1>3, Zenon
<1>5. Run(first, nextSeq) = [k \in 1 .. nextSeq - first |-> first + k]
  <2> HIDE DEF first
  <2> QED  BY <1>2, Zenon DEF Run
<1> QED  BY <1>4, <1>5, Zenon

\* appendFrameLocked overwrites the oldest frame, or a free position, and the
\* ring holds the newest frames again.
LEMMA AppendKeepsHistory ==
  ASSUME TypeOK, HistoryIsTheNewest, NEW o \in Streams, nextSeq < MaxFrames, appendFrameLocked(o)
  PROVE  /\ by' \in Seq(Streams) /\ Len(by') = nextSeq + 1 /\ by'[nextSeq + 1] = o
         /\ \A i \in 1 .. nextSeq : by'[i] = by[i]
         /\ ring' \in [0 .. HistorySize - 1 -> 0 .. MaxFrames]
         /\ pos' \in 0 .. HistorySize - 1
         /\ HistoryIsTheNewest'
<1>1. /\ nextSeq \in Nat /\ HistorySize \in Nat \ {0} /\ pos \in 0 .. HistorySize - 1
      /\ MaxFrames \in Nat
  BY TerminalAssumption DEF TypeOK, nextSeq
<1>2. by' \in Seq(Streams) /\ Len(by') = nextSeq + 1 /\ by'[nextSeq + 1] = o
      /\ \A i \in 1 .. nextSeq : by'[i] = by[i]
  BY DEF TypeOK, appendFrameLocked, nextSeq
<1>3. pos' = IF pos + 1 = HistorySize THEN 0 ELSE pos + 1
  <2>1. pos + 1 \in -HistorySize .. HistorySize /\ ~ (pos + 1 < 0)
    BY <1>1
  <2>2. (pos + 1) % HistorySize = IF pos + 1 = HistorySize THEN 0 ELSE pos + 1
    BY <2>1, Wrap, Zenon
  <2> QED  BY <2>2, Zenon DEF appendFrameLocked
<1>4. ring' \in [0 .. HistorySize - 1 -> 0 .. MaxFrames]
  <2>1. nextSeq + 1 \in 0 .. MaxFrames
    BY <1>1
  <2>2. ring' = [ring EXCEPT ![pos] = nextSeq + 1] /\ ring \in [0 .. HistorySize - 1 -> 0 .. MaxFrames]
    BY Zenon DEF TypeOK, appendFrameLocked
  <2> QED  BY <1>1, <2>1, <2>2, Zenon
<1>5. ring'[pos] = nextSeq + 1 /\ \A i \in 0 .. HistorySize - 1 : i # pos => ring'[i] = ring[i]
  BY <1>1, Zenon DEF TypeOK, appendFrameLocked
<1>6. nextSeq' = nextSeq + 1
  BY <1>2, Zenon DEF nextSeq
<1>7. ASSUME NEW k \in 1 .. historyLen'
      PROVE  ring'[Back(k)'] = nextSeq' - k + 1
  <2>1. k \in 1 .. HistorySize /\ k <= nextSeq + 1
    BY <1>1, <1>6 DEF historyLen
  <2>2. CASE k = 1
    <3>1. Back(k)' = pos
      BY <1>1, <1>3, <2>2 DEF Back
    <3> QED  BY <1>1, <1>5, <1>6, <2>2, <3>1
  <2>3. CASE k > 1
    <3>1. k - 1 \in 1 .. historyLen
      BY <1>1, <2>1, <2>3 DEF historyLen
    <3>2. Back(k)' = Back(k - 1) /\ Back(k - 1) \in 0 .. HistorySize - 1 /\ Back(k - 1) # pos
      BY <1>1, <1>3, <2>1, <2>3 DEF Back
    <3>3. ring[Back(k - 1)] = nextSeq - (k - 1) + 1
      BY <3>1, Zenon DEF HistoryIsTheNewest
    <3> QED  BY <1>1, <1>5, <1>6, <2>1, <3>2, <3>3
  <2> QED  BY <2>1, <2>2, <2>3
<1>8. HistoryIsTheNewest'
  BY <1>7, Zenon DEF HistoryIsTheNewest
<1> QED  BY <1>1, <1>2, <1>3, <1>4, <1>8

-----------------------------------------------------------------------------
(* The invariant holds initially *)

\* A new session has no frame, no attachment and no timer, and nobody has
\* called Attach.
LEMMA InitTerminalInv == Init => TerminalInv
<1> SUFFICES ASSUME Init PROVE TerminalInv
  BY Zenon
<1>1. by = <<>> /\ by \in Seq(Streams) /\ nextSeq = 0 /\ MaxFrames \in Nat /\ HistorySize \in Nat \ {0} /\ QueueSize \in Nat \ {0}
  BY TerminalAssumption DEF Init, nextSeq
<1>2. historyLen = 0
  BY <1>1 DEF historyLen
<1>3. \A c \in Conns : sent[c] = <<>> /\ batch[c] = <<>> /\ drained[c] = 0 /\ replayed[c] = 0 /\ pc[c] = "idle"
  BY Zenon DEF Init
<1>4. \A o \in Streams : pub[o] = NoFrame /\ pub[o].to = None /\ pub[o].failed = "no" /\ pub[o].seq = 0
  BY Zenon DEF Init, NoFrame
<1>5. TypeOK
  <2>1. ring \in [0 .. HistorySize - 1 -> 0 .. MaxFrames] /\ pos \in 0 .. HistorySize - 1
    BY <1>1 DEF Init
  <2>2. /\ attachment \in Conns \cup {None} /\ armed \in BOOLEAN /\ closing \in Closings
        /\ victim \in Conns \cup {None} /\ inMap \in BOOLEAN /\ lock \in Conns \cup {None}
        /\ pc \in [Conns -> PCs] /\ old \in [Conns -> Conns \cup {None}] /\ dead \in SUBSET Conns
    BY Zenon DEF Init, Closings, PCs
  <2>3. /\ batch \in [Conns -> Seq(1 .. MaxFrames)] /\ sent \in [Conns -> Seq(0 .. MaxFrames)]
        /\ replayed \in [Conns -> 0 .. MaxFrames] /\ since \in [Conns -> 0 .. MaxFrames]
        /\ drained \in [Conns -> Nat]
    BY <1>1 DEF Init
  <2>4. \A c \in Conns : Len(sent[c]) - drained[c] \in 0 .. QueueSize
    BY <1>1, <1>3
  <2>5. pub \in [Streams -> [seq : 0 .. MaxFrames, to : Conns \cup {None}, failed : {"no", "clear", "close"}]]
    BY <1>1 DEF Init, NoFrame
  <2>6. Len(by) <= MaxFrames
    BY <1>1 DEF nextSeq
  <2> QED  BY <1>1, <2>1, <2>2, <2>3, <2>4, <2>5, <2>6, Zenon DEF TypeOK
<1>6. HistoryIsTheNewest
  BY <1>2 DEF HistoryIsTheNewest
<1>7. AttachesAreSerial
  BY <1>3, Zenon DEF AttachesAreSerial, Holding
<1>8. TargetsAreAttached /\ EvictionsInOrder /\ ReplacedAreClosed
  BY <1>3, <1>4, Zenon DEF TargetsAreAttached, EvictionsInOrder, ReplacedAreClosed, Init
<1>9. ReplaysAscend
  BY <1>1, <1>3 DEF ReplaysAscend
<1>10. LiveFramesAscend
  BY <1>1, <1>3, <1>4 DEF LiveFramesAscend
<1>11. DeliveredInOrder /\ LiveFramesArrive /\ DetachedSessionsAreTimed
  BY <1>3 DEF DeliveredInOrder, LiveFramesArrive, DetachedSessionsAreTimed
<1> QED
  BY <1>5, <1>6, <1>7, <1>8, <1>9, <1>10, <1>11, Zenon DEF TerminalInv

-----------------------------------------------------------------------------
(* Types *)

\* What the types say about one connection.
LEMMA ConnTypes ==
  ASSUME TypeOK, NEW c \in Conns
  PROVE  /\ pc[c] \in PCs /\ old[c] \in Conns \cup {None}
         /\ batch[c] \in Seq(1 .. MaxFrames) /\ Len(batch[c]) \in Nat
         /\ sent[c] \in Seq(0 .. MaxFrames) /\ Len(sent[c]) \in Nat
         /\ \A i \in 1 .. Len(sent[c]) : sent[c][i] \in Nat
         /\ \A k \in 1 .. Len(batch[c]) : batch[c][k] \in Nat /\ batch[c][k] > 0
         /\ replayed[c] \in Nat /\ since[c] \in Nat /\ nextSeq \in Nat
         /\ drained[c] \in Nat /\ Len(sent[c]) - drained[c] \in 0 .. QueueSize
<1>1. pc[c] \in PCs /\ old[c] \in Conns \cup {None}
  BY Zenon DEF TypeOK
<1>2. batch[c] \in Seq(1 .. MaxFrames) /\ sent[c] \in Seq(0 .. MaxFrames) /\ by \in Seq(Streams)
  BY Zenon DEF TypeOK
<1>3. replayed[c] \in 0 .. MaxFrames /\ since[c] \in 0 .. MaxFrames
  BY Zenon DEF TypeOK
<1>4. drained[c] \in Nat /\ Len(sent[c]) - drained[c] \in 0 .. QueueSize
  BY Zenon DEF TypeOK
<1>5. Len(batch[c]) \in Nat /\ Len(sent[c]) \in Nat /\ nextSeq \in Nat
  BY <1>2 DEF nextSeq
<1>6. \A i \in 1 .. Len(sent[c]) : sent[c][i] \in 0 .. MaxFrames
  BY <1>2, ElementOfSeq, Zenon
<1>7. \A k \in 1 .. Len(batch[c]) : batch[c][k] \in 1 .. MaxFrames
  BY <1>2, ElementOfSeq, Zenon
<1>8. MaxFrames \in Nat
  BY TerminalAssumption, Zenon
<1>9. \A i \in 1 .. Len(sent[c]) : sent[c][i] \in Nat
  BY <1>6, <1>8
<1>10. \A k \in 1 .. Len(batch[c]) : batch[c][k] \in Nat /\ batch[c][k] > 0
  BY <1>7, <1>8
<1>11. replayed[c] \in Nat /\ since[c] \in Nat
  BY <1>3, <1>8
<1> QED  BY <1>1, <1>2, <1>4, <1>5, <1>9, <1>10, <1>11, Zenon

\* A queue with room keeps its bound when a message is put in.
LEMMA SendKeepsBound ==
  ASSUME TypeOK, NEW c \in Conns, NEW frame \in 0 .. MaxFrames, send(c, frame), drained' = drained
  PROVE  /\ sent' \in [Conns -> Seq(0 .. MaxFrames)]
         /\ \A d \in Conns : Len(sent'[d]) - drained'[d] \in 0 .. QueueSize
         /\ \A d \in Conns : d # c => sent'[d] = sent[d]
         /\ Len(sent'[c]) = Len(sent[c]) + 1 /\ sent'[c][Len(sent[c]) + 1] = frame
         /\ \A i \in 1 .. Len(sent[c]) : sent'[c][i] = sent[c][i]
<1>1. /\ sent \in [Conns -> Seq(0 .. MaxFrames)] /\ drained \in [Conns -> Nat]
      /\ \A d \in Conns : Len(sent[d]) - drained[d] \in 0 .. QueueSize
      /\ QueueSize \in Nat
  BY TerminalAssumption, Zenon DEF TypeOK
<1>2. sent' = [sent EXCEPT ![c] = Append(sent[c], frame)] /\ Len(sent[c]) - drained[c] < QueueSize
  BY Zenon DEF send, Queues
<1>3. sent[c] \in Seq(0 .. MaxFrames) /\ Append(sent[c], frame) \in Seq(0 .. MaxFrames)
  BY <1>1
<1>4. sent'[c] = Append(sent[c], frame) /\ \A d \in Conns : d # c => sent'[d] = sent[d]
  BY <1>1, <1>2, Zenon
<1>5. /\ Len(sent'[c]) = Len(sent[c]) + 1 /\ sent'[c][Len(sent[c]) + 1] = frame
      /\ \A i \in 1 .. Len(sent[c]) : sent'[c][i] = sent[c][i]
  BY <1>3, <1>4
<1>6. sent' \in [Conns -> Seq(0 .. MaxFrames)]
  BY <1>1, <1>2, <1>3, Zenon
<1>7. ASSUME NEW d \in Conns PROVE Len(sent'[d]) - drained'[d] \in 0 .. QueueSize
  <2>1. CASE d = c
    <3>1. Len(sent[c]) \in Nat /\ drained[c] \in Nat /\ Len(sent[c]) - drained[c] \in 0 .. QueueSize
      BY <1>1, <1>3
    <3> QED  BY <1>1, <1>2, <1>5, <2>1, <3>1
  <2>2. CASE d # c
    BY <1>1, <1>4, <2>2, Zenon
  <2> QED  BY <2>1, <2>2, Zenon
<1> QED  BY <1>4, <1>5, <1>6, <1>7, Zenon

\* Every step of an Attach call, its reader and its writer keeps the types.
LEMMA ConnKeepsTypes ==
  ASSUME TypeOK, HistoryIsTheNewest, AttachesAreSerial, NEW c \in Conns,
         Get(c) \/ Attach(c) \/ ReadEnds(c) \/ Write(c) \/ WriterCancelled(c) \/ WriteFails(c)
  PROVE  TypeOK'
<1> USE DEF TypeOK, histvars, connvars
<1>1. CASE Get(c)
  BY <1>1, Zenon DEF Get, PCs
<1>2. CASE AttachLock(c)
  BY <1>2, Zenon DEF AttachLock, PCs
<1>3. CASE stopIdleTimer(c)
  BY <1>3, Zenon DEF stopIdleTimer, PCs
<1>4. CASE currentAttachment(c)
  BY <1>4, Zenon DEF currentAttachment, PCs
<1>5. CASE Evict(c)
  <2>1. old[c] \in Conns
    <3> HIDE DEF TypeOK
    <3>1. old[c] # None
      BY <1>5, Zenon DEF Evict, AttachesAreSerial
    <3> QED  BY <3>1, ConnTypes, Zenon
  <2> QED  BY <1>5, <2>1, Zenon DEF Evict, PCs
<1>6. CASE removeAttachment(c)
  BY <1>6, Zenon DEF removeAttachment, PCs
<1>7. CASE Greet(c)
  <2>1. Control \in 0 .. MaxFrames
    BY TerminalAssumption DEF Control
  <2>2. /\ sent' \in [Conns -> Seq(0 .. MaxFrames)]
        /\ \A d \in Conns : Len(sent'[d]) - drained'[d] \in 0 .. QueueSize
    BY <1>7, <2>1, SendKeepsBound, Zenon DEF Greet
  <2> QED  BY <1>7, <2>2, Zenon DEF Greet, PCs
<1>8. CASE Snapshot(c)
  <2> DEFINE frames == snapshotFramesAfter(replayed[c])
  <2>1. replayed[c] \in Nat /\ nextSeq \in 0 .. MaxFrames
    BY TerminalAssumption DEF nextSeq
  <2>2. frames \in Seq(1 .. MaxFrames)
    BY <2>1, SnapshotFacts, Zenon
  <2>3. /\ batch' = [batch EXCEPT ![c] = frames] /\ replayed' = [replayed EXCEPT ![c] = nextSeq]
        /\ \E p \in PCs : pc' = [pc EXCEPT ![c] = p]
        /\ UNCHANGED <<histvars, attachment, armed, closing, victim, inMap, lock, old, since, sent, drained, dead, pub>>
    BY <1>8, Zenon DEF Snapshot, PCs
  <2> HIDE DEF frames
  <2> QED  BY <2>1, <2>2, <2>3, Zenon
<1>9. CASE Replay(c)
  <2>1. batch[c] \in Seq(1 .. MaxFrames) /\ batch[c] # <<>>
    BY <1>9, Zenon DEF Replay
  <2>2. Head(batch[c]) \in 1 .. MaxFrames /\ Tail(batch[c]) \in Seq(1 .. MaxFrames)
    <3> HIDE DEF TypeOK
    <3> QED  BY <2>1, HeadAndTail, Zenon
  <2>3. Head(batch[c]) \in 0 .. MaxFrames
    BY <2>2, TerminalAssumption, SMTT(20), Zenon
  <2>4. /\ sent' \in [Conns -> Seq(0 .. MaxFrames)]
        /\ \A d \in Conns : Len(sent'[d]) - drained'[d] \in 0 .. QueueSize
    BY <1>9, <2>3, SendKeepsBound, Zenon DEF Replay
  <2> QED  BY <1>9, <2>2, <2>4, Zenon DEF Replay
<1>10. CASE AttachFails(c)
  <2>1. <<>> \in Seq(1 .. MaxFrames) /\ 0 \in 0 .. MaxFrames
    BY TerminalAssumption
  <2> QED  BY <1>10, <2>1, Zenon DEF AttachFails, PCs
<1>11. CASE setAttachment(c)
  <2>1. nextSeq \in 0 .. MaxFrames /\ 0 \in 0 .. MaxFrames
    BY TerminalAssumption DEF nextSeq
  <2> QED  BY <1>11, <2>1, Zenon DEF setAttachment, PCs
<1>12. CASE clearAttachment(c)
  BY <1>12, Zenon DEF clearAttachment, ClearLocked, Scheduled, PCs
<1>13. CASE AttachReturns(c)
  BY <1>13, Zenon DEF AttachReturns, PCs
<1>14. CASE ReadEnds(c)
  <2>1. 0 \in 0 .. MaxFrames
    BY TerminalAssumption
  <2> QED  BY <1>14, <2>1, Zenon DEF ReadEnds, PCs
<1>15. CASE Write(c)
  <2>1. /\ drained[c] < Len(sent[c]) /\ drained[c] \in Nat /\ Len(sent[c]) \in Nat
        /\ drained' = [drained EXCEPT ![c] = drained[c] + 1] /\ sent' = sent
    BY <1>15 DEF Write
  <2>2. ASSUME NEW d \in Conns PROVE Len(sent'[d]) - drained'[d] \in 0 .. QueueSize
    <3>1. drained'[d] = IF d = c THEN drained[d] + 1 ELSE drained[d]
      BY <2>1, Zenon
    <3> HIDE DEF TypeOK
    <3>2. Len(sent[d]) \in Nat /\ drained[d] \in Nat /\ Len(sent[d]) - drained[d] \in 0 .. QueueSize
      BY ConnTypes, Zenon
    <3> QED  BY <2>1, <3>1, <3>2, TerminalAssumption
  <2>3. drained' \in [Conns -> Nat]
    <3>1. drained \in [Conns -> Nat]
      BY Zenon
    <3> HIDE DEF TypeOK
    <3>2. drained[c] + 1 \in Nat
      BY <2>1
    <3> QED  BY <2>1, <3>1, <3>2, Zenon
  <2> QED  BY <1>15, <2>2, <2>3, Zenon DEF Write
<1>16. CASE WriterStops(c)
  BY <1>16, Zenon DEF WriterStops
<1>17. WriterCancelled(c) \/ WriteFails(c) => WriterStops(c)
  BY Zenon DEF WriterCancelled, WriteFails
<1> QED
  BY <1>1, <1>2, <1>3, <1>4, <1>5, <1>6, <1>7, <1>8, <1>9, <1>10, <1>11, <1>12, <1>13, <1>14,
     <1>15, <1>16, <1>17, Zenon DEF Attach

\* Every step of an output goroutine and of close keeps the types.
LEMMA SessionKeepsTypes ==
  ASSUME TypeOK, HistoryIsTheNewest, TargetsAreAttached,
         \/ \E o \in Streams : publishBinary(o) \/ Publish(o)
         \/ Expire \/ CloseCancel \/ CloseMark \/ CloseRelease
  PROVE  TypeOK'
<1> USE DEF TypeOK, histvars, connvars
<1>1. ASSUME NEW o \in Streams, publishBinary(o) PROVE TypeOK'
  <2>1. nextSeq \in Nat /\ MaxFrames \in Nat /\ nextSeq < MaxFrames
    BY <1>1, TerminalAssumption DEF publishBinary, nextSeq
  <2>2. /\ by' \in Seq(Streams) /\ Len(by') = nextSeq + 1
        /\ ring' \in [0 .. HistorySize - 1 -> 0 .. MaxFrames]
        /\ pos' \in 0 .. HistorySize - 1
    BY <1>1, AppendKeepsHistory, Zenon DEF publishBinary
  <2>3. Len(by') <= MaxFrames
    BY <2>1, <2>2
  <2>4. pub' \in [Streams -> [seq : 0 .. MaxFrames, to : Conns \cup {None}, failed : {"no", "clear", "close"}]]
    BY <1>1, <2>1 DEF publishBinary, NoFrame
  <2> QED  BY <1>1, <2>2, <2>3, <2>4, Zenon DEF publishBinary
<1>2. ASSUME NEW o \in Streams, PublishSend(o) PROVE TypeOK'
  <2>1. pub[o].to \in Conns /\ pub[o].seq \in 0 .. MaxFrames
    BY <1>2, Zenon DEF PublishSend
  <2>2. /\ sent' \in [Conns -> Seq(0 .. MaxFrames)]
        /\ \A d \in Conns : Len(sent'[d]) - drained'[d] \in 0 .. QueueSize
    BY <1>2, <2>1, SendKeepsBound, Zenon DEF PublishSend
  <2>3. NoFrame \in [seq : 0 .. MaxFrames, to : Conns \cup {None}, failed : {"no", "clear", "close"}]
    BY TerminalAssumption DEF NoFrame
  <2> QED  BY <1>2, <2>2, <2>3, Zenon DEF PublishSend
<1>3. ASSUME NEW o \in Streams, PublishRefused(o) PROVE TypeOK'
  BY <1>3, Zenon DEF PublishRefused
<1>4. ASSUME NEW o \in Streams, PublishClears(o) PROVE TypeOK'
  BY <1>4, Zenon DEF PublishClears, ClearLocked, Scheduled
<1>5. ASSUME NEW o \in Streams, PublishCloses(o) PROVE TypeOK'
  <2>1. pub[o].to \in Conns
    BY <1>5, Zenon DEF PublishCloses, TargetsAreAttached
  <2>2. NoFrame \in [seq : 0 .. MaxFrames, to : Conns \cup {None}, failed : {"no", "clear", "close"}]
    BY TerminalAssumption DEF NoFrame
  <2> QED  BY <1>5, <2>1, <2>2, Zenon DEF PublishCloses
<1>6. CASE Expire
  BY <1>6, Zenon DEF Expire, Closings
<1>7. CASE CloseCancel
  BY <1>7, Zenon DEF CloseCancel, Closings
<1>8. CASE CloseMark
  BY <1>8, Zenon DEF CloseMark, Closings
<1>9. CASE CloseRelease
  <2>1. /\ sent' \in [Conns -> Seq(0 .. MaxFrames)]
        /\ \A d \in Conns : Len(sent'[d]) - drained'[d] \in 0 .. QueueSize
    <3>1. CASE sent' = sent
      BY <1>9, <3>1, Zenon DEF CloseRelease
    <3>2. ASSUME NEW d \in Conns, Queues(d), sent' = [sent EXCEPT ![d] = Append(@, Control)]
          PROVE  <2>1!1 /\ <2>1!2
      <4>1. Control \in 0 .. MaxFrames /\ send(d, Control) /\ drained' = drained
        BY <1>9, <3>2, TerminalAssumption DEF Control, send, CloseRelease
      <4> QED  BY <4>1, SendKeepsBound, Zenon
    <3>3. \/ sent' = sent
          \/ \E d \in Conns : Queues(d) /\ sent' = [sent EXCEPT ![d] = Append(@, Control)]
      BY <1>9, Zenon DEF CloseRelease
    <3> QED  BY <3>1, <3>2, <3>3, Zenon
  <2> QED  BY <1>9, <2>1, Zenon DEF CloseRelease, Closings
<1> QED
  BY <1>1, <1>2, <1>3, <1>4, <1>5, <1>6, <1>7, <1>8, <1>9, Zenon DEF Publish

-----------------------------------------------------------------------------
(* Who holds attachMu, whom live frames go to, and the idle timer *)

\* What the control state of a session is made of.
SessionControl == AttachesAreSerial /\ TargetsAreAttached /\ DetachedSessionsAreTimed

\* The types the control state needs.
LEMMA ControlTypes ==
  ASSUME TypeOK
  PROVE  /\ attachment \in Conns \cup {None} /\ lock \in Conns \cup {None} /\ None \notin Conns
         /\ pc \in [Conns -> PCs] /\ old \in [Conns -> Conns \cup {None}]
         /\ pub \in [Streams -> [seq : 0 .. MaxFrames, to : Conns \cup {None}, failed : {"no", "clear", "close"}]]
  BY TerminalAssumption, Zenon DEF TypeOK

\* The steps of an Attach call and of its reader.
LEMMA AttachKeepsControl ==
  ASSUME TypeOK, SessionControl, NEW c \in Conns, Get(c) \/ Attach(c) \/ ReadEnds(c)
  PROVE  SessionControl'
<1>0. /\ attachment \in Conns \cup {None} /\ lock \in Conns \cup {None} /\ None \notin Conns
      /\ pc \in [Conns -> PCs] /\ old \in [Conns -> Conns \cup {None}]
  BY ControlTypes, Zenon
<1> USE <1>0 DEF SessionControl, AttachesAreSerial, TargetsAreAttached, DetachedSessionsAreTimed, Holding, Attached
<1>1. CASE Get(c)
  BY <1>1 DEF Get, connvars
<1>2. CASE AttachLock(c)
  <2>1. /\ pc[c] = "found" /\ lock = None
        /\ UNCHANGED <<attachment, armed, closing, old, pub>>
    BY <1>2, Zenon DEF AttachLock, connvars
  <2>2. CASE closed
    <3>1. pc' = [pc EXCEPT ![c] = "over"] /\ lock' = lock /\ closing # "no"
      BY <1>2, <2>2, Zenon DEF AttachLock, closed
    <3> QED  BY <2>1, <3>1
  <2>3. CASE ~ closed
    <3>1. pc' = [pc EXCEPT ![c] = "locked"] /\ lock' = c
      BY <1>2, <2>3, Zenon DEF AttachLock
    <3> QED  BY <2>1, <3>1
  <2> QED  BY <2>2, <2>3, Zenon
<1>3. CASE stopIdleTimer(c)
  BY <1>3 DEF stopIdleTimer
<1>4. CASE currentAttachment(c)
  BY <1>4 DEF currentAttachment
<1>5. CASE Evict(c)
  BY <1>5 DEF Evict, connvars
<1>6. CASE removeAttachment(c)
  BY <1>6 DEF removeAttachment
<1>7. CASE Greet(c)
  BY <1>7 DEF Greet, connvars
<1>8. CASE Snapshot(c)
  <2>1. /\ pc[c] = "replaying"
        /\ \E p \in {"setting", "replaying"} : pc' = [pc EXCEPT ![c] = p]
        /\ UNCHANGED <<attachment, armed, closing, lock, old, pub>>
    BY <1>8, Zenon DEF Snapshot
  <2> QED  BY <2>1
<1>9. CASE Replay(c)
  BY <1>9, Zenon DEF Replay
<1>10. CASE AttachFails(c)
  BY <1>10 DEF AttachFails
<1>11. CASE setAttachment(c)
  BY <1>11, SMTT(20), Zenon DEF setAttachment
<1>12. CASE clearAttachment(c)
  BY <1>12 DEF clearAttachment, ClearLocked, Scheduled, closed, connvars
<1>13. CASE AttachReturns(c)
  BY <1>13 DEF AttachReturns, connvars
<1>14. CASE ReadEnds(c)
  BY <1>14 DEF ReadEnds
<1> QED
  BY <1>1, <1>2, <1>3, <1>4, <1>5, <1>6, <1>7, <1>8, <1>9, <1>10, <1>11, <1>12, <1>13, <1>14, Zenon
  DEF Attach

\* The steps of the writers, the output goroutines, the timer and close.
LEMMA OthersKeepControl ==
  ASSUME TypeOK, SessionControl,
         \/ \E c \in Conns : Write(c) \/ WriterCancelled(c) \/ WriteFails(c)
         \/ \E o \in Streams : publishBinary(o) \/ Publish(o)
         \/ Expire \/ CloseCancel \/ CloseMark \/ CloseRelease
  PROVE  SessionControl'
<1>0. /\ attachment \in Conns \cup {None} /\ lock \in Conns \cup {None} /\ None \notin Conns
      /\ pc \in [Conns -> PCs] /\ old \in [Conns -> Conns \cup {None}]
      /\ pub \in [Streams -> [seq : 0 .. MaxFrames, to : Conns \cup {None}, failed : {"no", "clear", "close"}]]
  BY ControlTypes, Zenon
<1> USE <1>0 DEF SessionControl, AttachesAreSerial, TargetsAreAttached, DetachedSessionsAreTimed, Holding, Attached
<1>1. ASSUME NEW c \in Conns, Write(c) \/ WriterStops(c) PROVE SessionControl'
  BY <1>1, Zenon DEF Write, WriterStops, connvars
<1>2. ASSUME NEW o \in Streams, publishBinary(o) PROVE SessionControl'
  BY <1>2, Zenon DEF publishBinary, NoFrame, connvars
<1>3. ASSUME NEW o \in Streams, PublishSend(o) PROVE SessionControl'
  BY <1>3, Zenon DEF PublishSend, NoFrame, connvars
<1>4. ASSUME NEW o \in Streams, PublishRefused(o) PROVE SessionControl'
  BY <1>4, Zenon DEF PublishRefused, connvars
<1>5. ASSUME NEW o \in Streams, PublishClears(o) PROVE SessionControl'
  BY <1>5, Zenon DEF PublishClears, ClearLocked, Scheduled, closed, connvars
<1>6. ASSUME NEW o \in Streams, PublishCloses(o) PROVE SessionControl'
  BY <1>6, Zenon DEF PublishCloses, NoFrame, connvars
<1>7. CASE Expire
  BY <1>7, Zenon DEF Expire, connvars
<1>8. CASE CloseCancel
  BY <1>8, Zenon DEF CloseCancel, connvars
<1>9. CASE CloseMark
  BY <1>9, Zenon DEF CloseMark, connvars
<1>10. CASE CloseRelease
  BY <1>10, Zenon DEF CloseRelease, connvars
<1>11. \A c \in Conns : WriterCancelled(c) \/ WriteFails(c) => WriterStops(c)
  BY Zenon DEF WriterCancelled, WriteFails
<1> QED
  BY <1>1, <1>2, <1>3, <1>4, <1>5, <1>6, <1>7, <1>8, <1>9, <1>10, <1>11, Zenon DEF Publish

\* What is known about attachments that are being replaced.
Eviction == EvictionsInOrder /\ ReplacedAreClosed

\* A step that changes neither the attachment nor who is being replaced, brings
\* nobody to a place where the attachment matters, and keeps what is about to be
\* closed or closes it.
LEMMA QuietKeepsEviction ==
  ASSUME Eviction, attachment' = attachment, old' = old, dead \subseteq dead', cancelled => cancelled',
         \A d \in Conns : pc'[d] # pc[d] =>
           pc'[d] \notin {"evicting", "removing", "greeting", "replaying", "setting", "reading"},
         \A o \in Streams : pub[o].failed = "close" => pub'[o] = pub[o] \/ pub[o].to \in dead'
  PROVE  Eviction'
<1>1. EvictionsInOrder'
  <2> SUFFICES ASSUME NEW d \in Conns,
                      pc'[d] \in {"evicting", "removing", "greeting", "replaying", "setting"}
               PROVE  /\ pc'[d] \in {"evicting", "removing"} => attachment' \in {old'[d], None}
                      /\ pc'[d] = "removing" => old'[d] \in dead'
                      /\ pc'[d] \in {"greeting", "replaying", "setting"} => attachment' = None
    BY Zenon DEF EvictionsInOrder
  <2>1. pc'[d] = pc[d]
    BY Zenon
  <2> QED  BY <2>1, Zenon DEF Eviction, EvictionsInOrder
<1>2. ReplacedAreClosed'
  <2> SUFFICES ASSUME NEW d \in Conns, pc'[d] = "reading", attachment' # d, d \notin dead', ~ cancelled'
               PROVE  \E o \in Streams : pub'[o].to = d /\ pub'[o].failed = "close"
    BY Zenon DEF ReplacedAreClosed
  <2>1. pc[d] = "reading" /\ d \notin dead /\ ~ cancelled
    BY Zenon
  <2>2. PICK o \in Streams : pub[o].to = d /\ pub[o].failed = "close"
    BY <2>1, Zenon DEF Eviction, ReplacedAreClosed
  <2>3. pub'[o] = pub[o]
    BY <2>2, Zenon
  <2> QED  BY <2>2, <2>3, Zenon
<1> QED  BY <1>1, <1>2, Zenon DEF Eviction

\* The steps of an Attach call and of its reader: the attachment it replaces is
\* closed before it is removed, and nobody sets another one meanwhile.
LEMMA AttachKeepsEviction ==
  ASSUME TypeOK, AttachesAreSerial, Eviction, NEW c \in Conns, Get(c) \/ Attach(c) \/ ReadEnds(c)
  PROVE  Eviction'
<1>0. /\ attachment \in Conns \cup {None} /\ lock \in Conns \cup {None} /\ None \notin Conns
      /\ pc \in [Conns -> PCs] /\ old \in [Conns -> Conns \cup {None}]
      /\ \A d \in Conns : pc[c] \in Holding /\ pc[d] \in Holding => c = d
  BY ControlTypes, Zenon DEF AttachesAreSerial
<1> USE <1>0 DEF Eviction, EvictionsInOrder, ReplacedAreClosed, Holding, cancelled
<1>1. CASE Get(c) \/ AttachLock(c) \/ stopIdleTimer(c) \/ AttachFails(c) \/ AttachReturns(c) \/ ReadEnds(c)
  <2>1. UNCHANGED <<attachment, old, closing, pub>> /\ dead \subseteq dead'
    BY <1>1, Zenon DEF Get, AttachLock, stopIdleTimer, AttachFails, AttachReturns, ReadEnds, connvars
  <2>2. \E p \in {"found", "locked", "over", "stopped", "failed", "leaving"} : pc' = [pc EXCEPT ![c] = p]
    BY <1>1, Zenon DEF Get, AttachLock, stopIdleTimer, AttachFails, AttachReturns, ReadEnds
  <2>3. \A d \in Conns : pc'[d] # pc[d] => pc'[d] \in {"found", "locked", "over", "stopped", "failed", "leaving"}
    BY <1>0, <2>2, Zenon
  <2> QED  BY <2>1, <2>3, QuietKeepsEviction, Zenon DEF cancelled
<1>2. CASE currentAttachment(c)
  BY <1>2 DEF currentAttachment
<1>3. CASE Evict(c)
  BY <1>3, Zenon DEF Evict, connvars
<1>4. CASE removeAttachment(c)
  BY <1>4 DEF removeAttachment
<1>5. CASE Greet(c)
  BY <1>5 DEF Greet, connvars
<1>6. CASE Snapshot(c)
  <2>1. /\ pc[c] = "replaying"
        /\ \E p \in {"setting", "replaying"} : pc' = [pc EXCEPT ![c] = p]
        /\ UNCHANGED <<attachment, closing, old, dead, pub>>
    BY <1>6, Zenon DEF Snapshot
  <2> QED  BY <2>1
<1>7. CASE Replay(c)
  BY <1>7 DEF Replay
<1>8. CASE setAttachment(c)
  BY <1>8 DEF setAttachment
<1>9. CASE clearAttachment(c)
  BY <1>9 DEF clearAttachment, ClearLocked, connvars
<1> QED
  BY <1>1, <1>2, <1>3, <1>4, <1>5, <1>6, <1>7, <1>8, <1>9, Zenon DEF Attach

\* The other steps: an output goroutine that clears an attachment is about to
\* close it, and close leaves the rest to the writers.
LEMMA OthersKeepEviction ==
  ASSUME TypeOK, TargetsAreAttached, Eviction,
         \/ \E c \in Conns : Write(c) \/ WriterCancelled(c) \/ WriteFails(c)
         \/ \E o \in Streams : publishBinary(o) \/ Publish(o)
         \/ Expire \/ CloseCancel \/ CloseMark \/ CloseRelease
  PROVE  Eviction'
<1>0. /\ attachment \in Conns \cup {None} /\ None \notin Conns
      /\ pub \in [Streams -> [seq : 0 .. MaxFrames, to : Conns \cup {None}, failed : {"no", "clear", "close"}]]
  BY ControlTypes, Zenon
<1>1. ASSUME NEW c \in Conns, Write(c) \/ WriterStops(c) PROVE Eviction'
  <2>1. UNCHANGED <<attachment, old, closing, pc, pub>> /\ dead \subseteq dead'
    BY <1>1, Zenon DEF Write, WriterStops, connvars
  <2> QED  BY <2>1, QuietKeepsEviction, Zenon DEF cancelled
<1>2. ASSUME NEW o \in Streams, publishBinary(o) \/ PublishSend(o) \/ PublishRefused(o) PROVE Eviction'
  <2>1. /\ UNCHANGED <<attachment, old, closing, pc, dead>>
        /\ pub[o].failed = "no" \/ pub[o] = NoFrame
    BY <1>2, Zenon DEF publishBinary, PublishSend, PublishRefused, connvars
  <2>2. \A q \in Streams : q # o => pub'[q] = pub[q]
    BY <1>0, <1>2, Zenon DEF publishBinary, PublishSend, PublishRefused
  <2>3. pub[o].failed # "close"
    BY <2>1 DEF NoFrame
  <2> QED  BY <2>1, <2>2, <2>3, QuietKeepsEviction, Zenon DEF cancelled
<1>3. ASSUME NEW o \in Streams, PublishClears(o) PROVE Eviction'
  <2>1. /\ pub'[o].to = pub[o].to /\ pub'[o].failed = "close"
        /\ \A q \in Streams : q # o => pub'[q] = pub[q]
    BY <1>0, <1>3, Zenon DEF PublishClears
  <2>2. /\ pub[o].failed = "clear" /\ UNCHANGED <<pc, old, dead, closing>>
        /\ attachment' = IF attachment = pub[o].to THEN None ELSE attachment
    BY <1>3, Zenon DEF PublishClears, ClearLocked, connvars
  <2>3. EvictionsInOrder'
    BY <1>0, <2>2, Zenon DEF Eviction, EvictionsInOrder
  <2>4. ReplacedAreClosed'
    <3> SUFFICES ASSUME NEW d \in Conns, pc[d] = "reading", attachment' # d, d \notin dead, ~ cancelled
                 PROVE  \E q \in Streams : pub'[q].to = d /\ pub'[q].failed = "close"
      BY <2>2, Zenon DEF ReplacedAreClosed, cancelled
    <3>1. CASE attachment = d
      BY <2>1, <2>2, <3>1, Zenon
    <3>2. CASE attachment # d
      <4>1. PICK q \in Streams : pub[q].to = d /\ pub[q].failed = "close"
        BY <3>2, Zenon DEF Eviction, ReplacedAreClosed
      <4>2. q # o
        BY <2>2, <4>1, Zenon
      <4> QED  BY <2>1, <4>1, <4>2, Zenon
    <3> QED  BY <3>1, <3>2, Zenon
  <2> QED  BY <2>3, <2>4, Zenon DEF Eviction
<1>4. ASSUME NEW o \in Streams, PublishCloses(o) PROVE Eviction'
  <2>1. UNCHANGED <<attachment, old, closing, pc>> /\ dead' = dead \cup {pub[o].to}
    BY <1>4, Zenon DEF PublishCloses, connvars
  <2>2. \A q \in Streams : q # o => pub'[q] = pub[q]
    BY <1>0, <1>4, Zenon DEF PublishCloses
  <2> QED  BY <2>1, <2>2, QuietKeepsEviction, Zenon DEF cancelled
<1>5. CASE Expire \/ CloseCancel \/ CloseRelease
  <2>1. /\ UNCHANGED <<attachment, old, pc, pub>> /\ dead \subseteq dead'
        /\ cancelled => cancelled'
    BY <1>5, Zenon DEF Expire, CloseCancel, CloseRelease, cancelled, connvars
  <2> QED  BY <2>1, QuietKeepsEviction, Zenon
<1>6. CASE CloseMark
  BY <1>6, Zenon DEF CloseMark, connvars, Eviction, EvictionsInOrder, ReplacedAreClosed, cancelled
<1>7. \A c \in Conns : WriterCancelled(c) \/ WriteFails(c) => WriterStops(c)
  BY Zenon DEF WriterCancelled, WriteFails
<1> QED
  BY <1>1, <1>2, <1>3, <1>4, <1>5, <1>6, <1>7, Zenon DEF Publish

-----------------------------------------------------------------------------
(* The order in which frames are delivered *)

Early == {"idle", "found"} \cup Holding

\* What is known about the order of delivery.
Delivery == ReplaysAscend /\ LiveFramesAscend /\ DeliveredInOrder

\* A step that queues nothing, prints nothing and starts no replay, and after
\* which no frame is on its way that was not before.
LEMMA QuietKeepsDelivery ==
  ASSUME TypeOK, Delivery, by' = by, sent' = sent,
         \A c \in Conns : pc'[c] \in Early =>
           pc[c] \in Early /\ batch'[c] = batch[c] /\ replayed'[c] = replayed[c],
         \A o \in Streams : pub'[o].to # None => pub'[o].to = pub[o].to /\ pub'[o].seq = pub[o].seq
  PROVE  Delivery'
<1>1. nextSeq' = nextSeq
  BY Zenon DEF nextSeq
<1>2. ReplaysAscend'
  <2> SUFFICES ASSUME NEW c \in Conns, pc'[c] \in Early
               PROVE  /\ replayed'[c] <= nextSeq'
                      /\ \A i \in 1 .. Len(sent'[c]) : sent'[c][i] <= replayed'[c]
                      /\ \A k \in 1 .. Len(batch'[c]) :
                           /\ batch'[c][k] <= replayed'[c]
                           /\ \A i \in 1 .. Len(sent'[c]) : sent'[c][i] < batch'[c][k]
                           /\ \A l \in 1 .. k - 1 : batch'[c][l] < batch'[c][k]
    BY Zenon DEF ReplaysAscend, Early
  <2>1. pc[c] \in Early /\ batch'[c] = batch[c] /\ replayed'[c] = replayed[c]
    BY Zenon
  <2> QED  BY <1>1, <2>1, Zenon DEF Delivery, ReplaysAscend, Early
<1>3. LiveFramesAscend'
  <2>1. \A c \in Conns : \A i \in 1 .. Len(sent'[c]) : sent'[c][i] <= nextSeq'
    BY <1>1, Zenon DEF Delivery, LiveFramesAscend
  <2>2. ASSUME NEW o \in Streams, pub'[o].to # None
        PROVE  /\ pub'[o].seq \in 1 .. nextSeq'
               /\ by'[pub'[o].seq] = o
               /\ \A i \in 1 .. Len(sent'[pub'[o].to]) :
                    LET seq == sent'[pub'[o].to][i]
                    IN  seq # Control /\ by'[seq] = o => seq < pub'[o].seq
    <3>1. pub'[o].to = pub[o].to /\ pub'[o].seq = pub[o].seq
      BY <2>2, Zenon
    <3> QED  BY <1>1, <2>2, <3>1, Zenon DEF Delivery, LiveFramesAscend
  <2> QED  BY <2>1, <2>2, Zenon DEF LiveFramesAscend
<1>4. DeliveredInOrder'
  BY DEF Delivery, DeliveredInOrder
<1> QED  BY <1>2, <1>3, <1>4, Zenon DEF Delivery

\* A control message, or a frame newer than all its stream has sent there and
\* different from all frames sent there, keeps the order.
LEMMA SendInOrder ==
  ASSUME TypeOK, DeliveredInOrder, NEW c \in Conns, NEW frame \in 0 .. MaxFrames,
         send(c, frame), drained' = drained, by' = by,
         frame # Control => \A i \in 1 .. Len(sent[c]) : sent[c][i] # Control =>
           sent[c][i] # frame /\ (by[sent[c][i]] = by[frame] => sent[c][i] < frame)
  PROVE  DeliveredInOrder'
<1>1. /\ \A d \in Conns : d # c => sent'[d] = sent[d]
      /\ Len(sent'[c]) = Len(sent[c]) + 1 /\ sent'[c][Len(sent[c]) + 1] = frame
      /\ \A i \in 1 .. Len(sent[c]) : sent'[c][i] = sent[c][i]
  BY SendKeepsBound, Zenon
<1>2. Len(sent[c]) \in Nat
  BY ConnTypes, Zenon
<1> SUFFICES ASSUME NEW d \in Conns, NEW i \in 1 .. Len(sent'[d]), NEW j \in 1 .. Len(sent'[d]),
                    i < j, sent'[d][i] # Control, sent'[d][j] # Control
             PROVE  /\ sent'[d][i] # sent'[d][j]
                    /\ by[sent'[d][i]] = by[sent'[d][j]] => sent'[d][i] < sent'[d][j]
  BY DEF DeliveredInOrder
<1>3. CASE d # c
  BY <1>1, <1>3 DEF DeliveredInOrder
<1>4. CASE d = c
  <2>1. i \in 1 .. Len(sent[c])
    BY <1>1, <1>2, <1>4
  <2>2. CASE j = Len(sent[c]) + 1
    BY <1>1, <1>4, <2>1, <2>2, Zenon
  <2>3. CASE j \in 1 .. Len(sent[c])
    <3>1. sent'[d][i] = sent[c][i] /\ sent'[d][j] = sent[c][j]
      BY <1>1, <1>4, <2>1, <2>3, Zenon
    <3> QED  BY <2>1, <2>3, <3>1 DEF DeliveredInOrder
  <2> QED  BY <1>1, <1>2, <1>4, <2>2, <2>3
<1> QED  BY <1>3, <1>4, Zenon

\* A published frame that is queued for c leaves the frames on their way newer
\* than all of their stream, unless one for c is of the same stream.
LEMMA SendAscends ==
  ASSUME TypeOK, LiveFramesAscend, NEW c \in Conns, NEW frame \in 0 .. MaxFrames,
         send(c, frame), drained' = drained, by' = by, frame <= nextSeq,
         \A o \in Streams : pub'[o].to # None => pub'[o].to = pub[o].to /\ pub'[o].seq = pub[o].seq,
         \A o \in Streams : pub'[o].to = c => frame = Control \/ by[frame] # o
  PROVE  LiveFramesAscend'
<1>1. /\ \A d \in Conns : d # c => sent'[d] = sent[d]
      /\ Len(sent'[c]) = Len(sent[c]) + 1 /\ sent'[c][Len(sent[c]) + 1] = frame
      /\ \A i \in 1 .. Len(sent[c]) : sent'[c][i] = sent[c][i]
  BY SendKeepsBound, Zenon
<1>2. Len(sent[c]) \in Nat /\ nextSeq' = nextSeq
  BY ConnTypes, Zenon DEF nextSeq
<1>3. \A i \in 1 .. Len(sent'[c]) : i \in 1 .. Len(sent[c]) \/ i = Len(sent[c]) + 1
  BY <1>1, <1>2
<1>4. ASSUME NEW d \in Conns, NEW i \in 1 .. Len(sent'[d]) PROVE sent'[d][i] <= nextSeq'
  <2>1. CASE d # c
    BY <1>1, <1>2, <2>1, Zenon DEF LiveFramesAscend
  <2>2. CASE d = c
    BY <1>1, <1>2, <1>3, <2>2, Zenon DEF LiveFramesAscend
  <2> QED  BY <2>1, <2>2, Zenon
<1>5. ASSUME NEW o \in Streams, pub'[o].to # None
      PROVE  /\ pub'[o].seq \in 1 .. nextSeq'
             /\ by'[pub'[o].seq] = o
             /\ \A i \in 1 .. Len(sent'[pub'[o].to]) :
                  LET seq == sent'[pub'[o].to][i]
                  IN  seq # Control /\ by'[seq] = o => seq < pub'[o].seq
  <2>1. pub'[o].to = pub[o].to /\ pub'[o].seq = pub[o].seq /\ pub[o].to # None
    BY <1>5, Zenon
  <2>2. pub[o].to \in Conns
    BY <2>1, ControlTypes, Zenon
  <2>3. /\ pub[o].seq \in 1 .. nextSeq /\ by[pub[o].seq] = o
        /\ \A i \in 1 .. Len(sent[pub[o].to]) :
             sent[pub[o].to][i] # Control /\ by[sent[pub[o].to][i]] = o => sent[pub[o].to][i] < pub[o].seq
    BY <2>1, Zenon DEF LiveFramesAscend
  <2>4. ASSUME NEW i \in 1 .. Len(sent'[pub[o].to]), sent'[pub[o].to][i] # Control, by[sent'[pub[o].to][i]] = o
        PROVE  sent'[pub[o].to][i] < pub[o].seq
    <3>1. CASE pub[o].to # c
      BY <1>1, <2>2, <2>3, <2>4, <3>1, Zenon
    <3>2. CASE pub[o].to = c
      BY <1>1, <1>3, <2>1, <2>3, <2>4, <3>2, Zenon
    <3> QED  BY <3>1, <3>2, Zenon
  <2> QED  BY <1>2, <2>1, <2>3, <2>4, Zenon
<1> QED  BY <1>4, <1>5, Zenon DEF LiveFramesAscend

\* A control message ("ready" or "error") is queued.
LEMMA ControlKeepsDelivery ==
  ASSUME TypeOK, Delivery, NEW c \in Conns, send(c, Control),
         by' = by, drained' = drained, batch' = batch, replayed' = replayed, pub' = pub,
         \A d \in Conns : pc'[d] \in Early => pc[d] \in Early
  PROVE  Delivery'
<1>1. Control \in 0 .. MaxFrames /\ nextSeq' = nextSeq /\ nextSeq \in Nat /\ Control = 0 /\ Control <= nextSeq
  BY ConnTypes, TerminalAssumption DEF Control, nextSeq
<1>2. /\ \A d \in Conns : d # c => sent'[d] = sent[d]
      /\ Len(sent'[c]) = Len(sent[c]) + 1 /\ sent'[c][Len(sent[c]) + 1] = Control
      /\ \A i \in 1 .. Len(sent[c]) : sent'[c][i] = sent[c][i]
  BY <1>1, SendKeepsBound, Zenon
<1>3. ReplaysAscend'
  <2> SUFFICES ASSUME NEW d \in Conns, pc'[d] \in Early
               PROVE  /\ replayed[d] <= nextSeq
                      /\ \A i \in 1 .. Len(sent'[d]) : sent'[d][i] <= replayed[d]
                      /\ \A k \in 1 .. Len(batch[d]) :
                           /\ batch[d][k] <= replayed[d]
                           /\ \A i \in 1 .. Len(sent'[d]) : sent'[d][i] < batch[d][k]
                           /\ \A l \in 1 .. k - 1 : batch[d][l] < batch[d][k]
    BY <1>1, Zenon DEF ReplaysAscend, Early
  <2>1. pc[d] \in Early
    BY Zenon
  <2>2. /\ replayed[d] <= nextSeq
        /\ \A i \in 1 .. Len(sent[d]) : sent[d][i] <= replayed[d]
        /\ \A k \in 1 .. Len(batch[d]) :
             /\ batch[d][k] <= replayed[d]
             /\ \A i \in 1 .. Len(sent[d]) : sent[d][i] < batch[d][k]
             /\ \A l \in 1 .. k - 1 : batch[d][l] < batch[d][k]
    BY <2>1, Zenon DEF Delivery, ReplaysAscend, Early
  <2>3. CASE d # c
    BY <1>2, <2>2, <2>3, Zenon
  <2>4. CASE d = c
    <3>1. /\ Len(sent[c]) \in Nat /\ replayed[c] \in Nat
          /\ \A k \in 1 .. Len(batch[c]) : batch[c][k] \in Nat /\ batch[c][k] > 0
      BY ConnTypes, Zenon
    <3>2. \A i \in 1 .. Len(sent'[c]) : i \in 1 .. Len(sent[c]) \/ i = Len(sent[c]) + 1
      BY <1>2, <3>1
    <3>3. \A i \in 1 .. Len(sent'[c]) : sent'[c][i] = 0 \/ \E j \in 1 .. Len(sent[c]) : sent'[c][i] = sent[c][j]
      BY <1>1, <1>2, <3>2, Zenon
    <3>4. \A i \in 1 .. Len(sent'[c]) : sent'[c][i] <= replayed[c]
      BY <2>2, <2>4, <3>1, <3>3
    <3>5. \A k \in 1 .. Len(batch[c]) : \A i \in 1 .. Len(sent'[c]) : sent'[c][i] < batch[c][k]
      BY <2>2, <2>4, <3>1, <3>3, Zenon
    <3> QED  BY <2>2, <2>4, <3>4, <3>5, Zenon
  <2> QED  BY <2>3, <2>4, Zenon
<1>4. LiveFramesAscend'
  BY <1>1, SendAscends, Zenon DEF Delivery
<1>5. DeliveredInOrder'
  BY <1>1, SendInOrder, Zenon DEF Delivery
<1> QED  BY <1>3, <1>4, <1>5, Zenon DEF Delivery

\* A snapshot is newer than what the call has sent, and covers all frames.
LEMMA SnapshotKeepsDelivery ==
  ASSUME TypeOK, HistoryIsTheNewest, Delivery, NEW c \in Conns, Snapshot(c)
  PROVE  Delivery'
<1> DEFINE frames == snapshotFramesAfter(replayed[c])
<1>1. /\ pc[c] = "replaying" /\ \E p \in {"setting", "replaying"} : pc' = [pc EXCEPT ![c] = p]
      /\ by' = by /\ sent' = sent /\ pub' = pub
      /\ batch' = [batch EXCEPT ![c] = frames] /\ replayed' = [replayed EXCEPT ![c] = nextSeq]
  BY Zenon DEF Snapshot, histvars
<1>2. /\ \A k \in 1 .. Len(frames) : frames[k] > replayed[c] /\ frames[k] <= nextSeq
      /\ \A k \in 1 .. Len(frames) : \A l \in 1 .. k - 1 : frames[l] < frames[k]
      /\ \A k \in 1 .. Len(frames) : frames[k] \in Nat
  <2>1. replayed[c] \in Nat /\ MaxFrames \in Nat
    BY ConnTypes, TerminalAssumption, Zenon
  <2>2. frames \in Seq(1 .. MaxFrames)
    BY <2>1, SnapshotFacts, Zenon
  <2>3. \A k \in 1 .. Len(frames) : frames[k] \in 1 .. MaxFrames
    <3> HIDE DEF frames
    <3> QED  BY <2>2, ElementOfSeq, Zenon
  <2>4. \A k \in 1 .. Len(frames) : frames[k] \in Nat
    <3> HIDE DEF frames
    <3> QED  BY <2>1, <2>3
  <2> QED  BY <2>1, <2>4, SnapshotFacts, Zenon
<1> HIDE DEF frames
<1>3. nextSeq' = nextSeq /\ nextSeq \in Nat
  BY <1>1, ConnTypes, Zenon DEF nextSeq
<1>4. /\ \A d \in Conns : d # c => batch'[d] = batch[d] /\ replayed'[d] = replayed[d] /\ pc'[d] = pc[d]
      /\ batch'[c] = frames /\ replayed'[c] = nextSeq
  BY <1>1, Zenon DEF TypeOK
<1>5. ReplaysAscend'
  <2> SUFFICES ASSUME NEW d \in Conns, pc'[d] \in Early
               PROVE  /\ replayed'[d] <= nextSeq
                      /\ \A i \in 1 .. Len(sent[d]) : sent[d][i] <= replayed'[d]
                      /\ \A k \in 1 .. Len(batch'[d]) :
                           /\ batch'[d][k] <= replayed'[d]
                           /\ \A i \in 1 .. Len(sent[d]) : sent[d][i] < batch'[d][k]
                           /\ \A l \in 1 .. k - 1 : batch'[d][l] < batch'[d][k]
    BY <1>1, <1>3, Zenon DEF ReplaysAscend, Early
  <2>1. CASE d # c
    BY <1>4, <2>1, Zenon DEF Delivery, ReplaysAscend, Early
  <2>2. CASE d = c
    <3>1. \A i \in 1 .. Len(sent[c]) : sent[c][i] \in Nat /\ sent[c][i] <= nextSeq /\ sent[c][i] <= replayed[c]
      <4>1. pc[c] \in Early
        BY <1>1, Zenon DEF Early, Holding
      <4>2. \A i \in 1 .. Len(sent[c]) : sent[c][i] <= replayed[c]
        BY <4>1, Zenon DEF Delivery, ReplaysAscend, Early
      <4>3. \A i \in 1 .. Len(sent[c]) : sent[c][i] <= nextSeq
        BY Zenon DEF Delivery, LiveFramesAscend
      <4> QED  BY <4>2, <4>3, ConnTypes, Zenon
    <3>2. replayed[c] \in Nat
      BY ConnTypes, Zenon
    <3>3. \A k \in 1 .. Len(frames) : \A i \in 1 .. Len(sent[c]) : sent[c][i] < frames[k]
      BY <1>2, <3>1, <3>2, SMTT(20), Zenon
    <3> QED  BY <1>2, <1>3, <1>4, <2>2, <3>1, <3>3, SMTT(20), Zenon
  <2> QED  BY <2>1, <2>2, Zenon
<1>6. LiveFramesAscend'
  BY <1>1, <1>3, Zenon DEF Delivery, LiveFramesAscend
<1>7. DeliveredInOrder'
  BY <1>1, SMTT(20), Zenon DEF Delivery, DeliveredInOrder
<1> QED  BY <1>5, <1>6, <1>7, Zenon DEF Delivery

\* The next frame of a replay is newer than all the call has sent, and older
\* than what it has still to send; nobody else sends to it.
LEMMA ReplayKeepsDelivery ==
  ASSUME TypeOK, TargetsAreAttached, Delivery, NEW c \in Conns, Replay(c)
  PROVE  Delivery'
<1> DEFINE frame == Head(batch[c])
<1>1. /\ pc[c] = "replaying" /\ batch[c] # <<>> /\ send(c, frame)
      /\ batch' = [batch EXCEPT ![c] = Tail(batch[c])]
      /\ by' = by /\ drained' = drained /\ replayed' = replayed /\ pub' = pub /\ pc' = pc
  BY Zenon DEF Replay, histvars
<1>2. /\ batch[c] \in Seq(1 .. MaxFrames) /\ MaxFrames \in Nat /\ nextSeq' = nextSeq /\ nextSeq \in Nat
      /\ replayed[c] \in Nat /\ Len(sent[c]) \in Nat /\ Len(batch[c]) \in Nat
      /\ \A i \in 1 .. Len(sent[c]) : sent[c][i] \in Nat
      /\ \A k \in 1 .. Len(batch[c]) : batch[c][k] \in Nat /\ batch[c][k] > 0
  BY <1>1, ConnTypes, TerminalAssumption, Zenon DEF nextSeq
<1>3. /\ Len(batch[c]) > 0 /\ frame = batch[c][1] /\ frame \in 1 .. MaxFrames
      /\ Len(Tail(batch[c])) = Len(batch[c]) - 1
      /\ \A k \in 1 .. Len(batch[c]) - 1 : Tail(batch[c])[k] = batch[c][k + 1]
  BY <1>1, <1>2, HeadAndTail, Zenon
<1> HIDE DEF frame
<1>4. pc[c] \in Early
  BY <1>1, Zenon DEF Early, Holding
<1>5. /\ replayed[c] <= nextSeq
      /\ \A i \in 1 .. Len(sent[c]) : sent[c][i] <= replayed[c]
      /\ \A k \in 1 .. Len(batch[c]) :
           /\ batch[c][k] <= replayed[c]
           /\ \A i \in 1 .. Len(sent[c]) : sent[c][i] < batch[c][k]
           /\ \A l \in 1 .. k - 1 : batch[c][l] < batch[c][k]
  BY <1>4, Zenon DEF Delivery, ReplaysAscend, Early
<1>6. /\ frame \in 0 .. MaxFrames /\ frame <= replayed[c] /\ frame <= nextSeq
      /\ \A i \in 1 .. Len(sent[c]) : sent[c][i] < frame /\ sent[c][i] # frame
  <2>1. 1 \in 1 .. Len(batch[c])
    BY <1>2, <1>3
  <2>2. frame <= replayed[c] /\ \A i \in 1 .. Len(sent[c]) : sent[c][i] < frame
    BY <1>3, <1>5, <2>1, Zenon
  <2> QED  BY <1>2, <1>3, <1>5, <2>2
<1>7. /\ \A d \in Conns : d # c => sent'[d] = sent[d]
      /\ Len(sent'[c]) = Len(sent[c]) + 1 /\ sent'[c][Len(sent[c]) + 1] = frame
      /\ \A i \in 1 .. Len(sent[c]) : sent'[c][i] = sent[c][i]
  BY <1>1, <1>6, SendKeepsBound, Zenon
<1>8. \A d \in Conns : d # c => batch'[d] = batch[d]
  BY <1>1, Zenon DEF TypeOK
<1>9. batch'[c] = Tail(batch[c])
  BY <1>1, Zenon DEF TypeOK
<1>10. ReplaysAscend'
  <2> SUFFICES ASSUME NEW d \in Conns, pc[d] \in Early
               PROVE  /\ replayed[d] <= nextSeq
                      /\ \A i \in 1 .. Len(sent'[d]) : sent'[d][i] <= replayed[d]
                      /\ \A k \in 1 .. Len(batch'[d]) :
                           /\ batch'[d][k] <= replayed[d]
                           /\ \A i \in 1 .. Len(sent'[d]) : sent'[d][i] < batch'[d][k]
                           /\ \A l \in 1 .. k - 1 : batch'[d][l] < batch'[d][k]
    BY <1>1, <1>2, Zenon DEF ReplaysAscend, Early
  <2>1. CASE d # c
    BY <1>7, <1>8, <2>1, Zenon DEF Delivery, ReplaysAscend, Early
  <2>2. CASE d = c
    <3>1. \A i \in 1 .. Len(sent'[c]) :
            sent'[c][i] = frame \/ \E j \in 1 .. Len(sent[c]) : sent'[c][i] = sent[c][j]
      <4>1. \A i \in 1 .. Len(sent'[c]) : i \in 1 .. Len(sent[c]) \/ i = Len(sent[c]) + 1
        BY <1>2, <1>7
      <4> QED  BY <1>7, <4>1, Zenon
    <3>2. \A i \in 1 .. Len(sent'[c]) : sent'[c][i] <= replayed[c]
      BY <1>5, <1>6, <3>1, Zenon
    <3>3. ASSUME NEW k \in 1 .. Len(batch'[c])
          PROVE  /\ batch'[c][k] <= replayed[c]
                 /\ \A i \in 1 .. Len(sent'[c]) : sent'[c][i] < batch'[c][k]
                 /\ \A l \in 1 .. k - 1 : batch'[c][l] < batch'[c][k]
      <4>1. /\ k \in 1 .. Len(batch[c]) - 1 /\ k + 1 \in 1 .. Len(batch[c]) /\ 1 \in 1 .. (k + 1) - 1
            /\ \A l \in 1 .. k - 1 : l \in 1 .. Len(batch[c]) - 1 /\ l + 1 \in 1 .. (k + 1) - 1
        BY <1>2, <1>3, <1>9
      <4>2. batch'[c][k] = batch[c][k + 1]
        BY <1>3, <1>9, <4>1, Zenon
      <4>3. frame < batch[c][k + 1]
        BY <1>3, <1>5, <4>1, Zenon
      <4>4. \A i \in 1 .. Len(sent'[c]) : sent'[c][i] < batch[c][k + 1]
        BY <1>5, <3>1, <4>1, <4>3, Zenon
      <4>5. \A l \in 1 .. k - 1 : batch'[c][l] < batch[c][k + 1]
        BY <1>3, <1>5, <1>9, <4>1, Zenon
      <4> QED  BY <1>5, <4>1, <4>2, <4>4, <4>5, Zenon
    <3> QED  BY <1>5, <2>2, <3>2, <3>3, Zenon
  <2> QED  BY <2>1, <2>2, Zenon
<1>11. LiveFramesAscend'
  <2>1. \A o \in Streams : pub[o].to # c
    BY <1>1, TerminalAssumption, Zenon DEF TargetsAreAttached, Attached
  <2> QED  BY <1>1, <1>6, <2>1, SendAscends, Zenon DEF Delivery
<1>12. DeliveredInOrder'
  BY <1>1, <1>6, SendInOrder, Zenon DEF Delivery
<1> QED  BY <1>10, <1>11, <1>12, Zenon DEF Delivery

\* A frame that is printed is newer than all that was sent anywhere.
LEMMA PublishKeepsDelivery ==
  ASSUME TypeOK, HistoryIsTheNewest, Delivery, NEW o \in Streams, publishBinary(o)
  PROVE  Delivery'
<1>1. /\ appendFrameLocked(o) /\ nextSeq < MaxFrames
      /\ pub' = [pub EXCEPT ![o] = IF attachment = None THEN NoFrame
                                   ELSE [seq |-> nextSeq + 1, to |-> attachment, failed |-> "no"]]
      /\ sent' = sent /\ batch' = batch /\ replayed' = replayed /\ pc' = pc
  BY Zenon DEF publishBinary, connvars
<1>2. /\ Len(by') = nextSeq + 1 /\ by'[nextSeq + 1] = o
      /\ \A i \in 1 .. nextSeq : by'[i] = by[i]
  BY <1>1, AppendKeepsHistory, Zenon
<1>3. nextSeq' = nextSeq + 1 /\ nextSeq \in Nat
  BY <1>2, SMTT(20), Zenon DEF nextSeq, TypeOK
<1>4. \A c \in Conns : \A i \in 1 .. Len(sent[c]) :
        sent[c][i] \in Nat /\ sent[c][i] <= nextSeq /\ (sent[c][i] # Control => by'[sent[c][i]] = by[sent[c][i]])
  <2>1. \A c \in Conns : \A i \in 1 .. Len(sent[c]) : sent[c][i] \in Nat /\ sent[c][i] <= nextSeq
    BY ConnTypes, Zenon DEF Delivery, LiveFramesAscend
  <2>2. \A n \in Nat : n <= nextSeq /\ n # Control => n \in 1 .. nextSeq
    BY <1>3 DEF Control
  <2> QED  BY <1>2, <2>1, <2>2, Zenon
<1>5. ReplaysAscend'
  <2>1. \A c \in Conns : replayed[c] \in Nat
    BY ConnTypes, Zenon
  <2>2. \A n \in Nat : n <= nextSeq => n <= nextSeq'
    BY <1>3, SMTT(20), Zenon
  <2> QED  BY <1>1, <2>1, <2>2, Zenon DEF Delivery, ReplaysAscend
<1>6. LiveFramesAscend'
  <2>1. \A c \in Conns : \A i \in 1 .. Len(sent'[c]) : sent'[c][i] <= nextSeq'
    <3>1. \A n \in Nat : n <= nextSeq => n <= nextSeq'
      BY <1>3, SMTT(20), Zenon
    <3> QED  BY <1>1, <1>4, <3>1, Zenon
  <2>2. ASSUME NEW p \in Streams, pub'[p].to # None
        PROVE  /\ pub'[p].seq \in 1 .. nextSeq'
               /\ by'[pub'[p].seq] = p
               /\ \A i \in 1 .. Len(sent'[pub'[p].to]) :
                    LET seq == sent'[pub'[p].to][i]
                    IN  seq # Control /\ by'[seq] = p => seq < pub'[p].seq
    <3>1. CASE p = o
      <4>1. attachment \in Conns /\ pub'[o].to = attachment /\ pub'[o].seq = nextSeq + 1
        BY <1>1, <2>2, <3>1, ControlTypes, Zenon DEF NoFrame
      <4>2. \A i \in 1 .. Len(sent[attachment]) : sent[attachment][i] < nextSeq + 1
        BY <1>3, <1>4, <4>1
      <4>3. nextSeq + 1 \in 1 .. nextSeq'
        BY <1>3, SMTT(20), Zenon
      <4> QED  BY <1>1, <1>2, <3>1, <4>1, <4>2, <4>3, Zenon
    <3>2. CASE p # o
      <4>1. pub'[p] = pub[p]
        BY <1>1, <3>2, ControlTypes, Zenon
      <4>2. pub[p].to \in Conns
        BY <2>2, <4>1, ControlTypes, Zenon
      <4>3. /\ pub[p].seq \in 1 .. nextSeq /\ by[pub[p].seq] = p
            /\ \A i \in 1 .. Len(sent[pub[p].to]) :
                 sent[pub[p].to][i] # Control /\ by[sent[pub[p].to][i]] = p => sent[pub[p].to][i] < pub[p].seq
        BY <2>2, <4>1, Zenon DEF Delivery, LiveFramesAscend
      <4>4. pub[p].seq \in 1 .. nextSeq' /\ by'[pub[p].seq] = p
        BY <1>2, <1>3, <4>3, SMTT(20), Zenon
      <4>5. \A i \in 1 .. Len(sent[pub[p].to]) :
              sent[pub[p].to][i] # Control /\ by'[sent[pub[p].to][i]] = p => sent[pub[p].to][i] < pub[p].seq
        BY <1>4, <4>2, <4>3, Zenon
      <4> QED  BY <1>1, <4>1, <4>4, <4>5, Zenon
    <3> QED  BY <3>1, <3>2, Zenon
  <2> QED  BY <2>1, <2>2, Zenon DEF LiveFramesAscend
<1>7. DeliveredInOrder'
  <2> SUFFICES ASSUME NEW c \in Conns, NEW i \in 1 .. Len(sent[c]), NEW j \in 1 .. Len(sent[c]),
                      i < j, sent[c][i] # Control, sent[c][j] # Control
               PROVE  /\ sent[c][i] # sent[c][j]
                      /\ by'[sent[c][i]] = by'[sent[c][j]] => sent[c][i] < sent[c][j]
    BY <1>1 DEF DeliveredInOrder
  <2>1. by'[sent[c][i]] = by[sent[c][i]] /\ by'[sent[c][j]] = by[sent[c][j]]
    BY <1>4, Zenon
  <2> QED  BY <2>1, Zenon DEF Delivery, DeliveredInOrder
<1> QED  BY <1>5, <1>6, <1>7, Zenon DEF Delivery

\* A live frame is queued behind older frames of its stream only.
LEMMA SendKeepsDelivery ==
  ASSUME TypeOK, TargetsAreAttached, Delivery, NEW o \in Streams, PublishSend(o)
  PROVE  Delivery'
<1> DEFINE c == pub[o].to
           frame == pub[o].seq
<1>1. /\ c \in Conns /\ frame \in 0 .. MaxFrames /\ send(c, frame)
      /\ pub' = [pub EXCEPT ![o] = NoFrame]
      /\ by' = by /\ drained' = drained /\ batch' = batch /\ replayed' = replayed /\ pc' = pc
  BY ControlTypes, Zenon DEF PublishSend, histvars, connvars
<1>2. pub'[o].to = None /\ \A p \in Streams : p # o => pub'[p] = pub[p]
  <2> HIDE DEF c, frame
  <2>1. pub'[o] = NoFrame /\ \A p \in Streams : p # o => pub'[p] = pub[p]
    BY <1>1, ControlTypes, Zenon
  <2> QED  BY <2>1 DEF NoFrame
<1>3. /\ frame \in 1 .. nextSeq /\ by[frame] = o
      /\ \A i \in 1 .. Len(sent[c]) : sent[c][i] # Control /\ by[sent[c][i]] = o => sent[c][i] < frame
  BY Zenon DEF PublishSend, Delivery, LiveFramesAscend
<1> HIDE DEF c, frame
<1>4. nextSeq' = nextSeq /\ nextSeq \in Nat /\ frame <= nextSeq
  <2>1. nextSeq' = nextSeq
    BY <1>1, Zenon DEF nextSeq
  <2>2. nextSeq \in Nat
    BY <1>1, ConnTypes, Zenon
  <2> QED  BY <1>3, <2>1, <2>2
<1>5. ReplaysAscend'
  <2>1. pc[c] \notin Early
    BY Zenon DEF c, PublishSend, TargetsAreAttached, Attached, Early, Holding
  <2>2. \A d \in Conns : d # c => sent'[d] = sent[d]
    BY <1>1, SendKeepsBound, Zenon
  <2>3. \A d \in Conns : pc[d] \in Early => sent'[d] = sent[d]
    BY <2>1, <2>2, Zenon
  <2> QED  BY <1>1, <1>4, <2>3, Zenon DEF Delivery, ReplaysAscend, Early
<1>6. LiveFramesAscend'
  <2>1. \A p \in Streams : pub'[p].to # None => pub'[p].to = pub[p].to /\ pub'[p].seq = pub[p].seq
    BY <1>2, Zenon
  <2>2. \A p \in Streams : pub'[p].to = c => by[frame] # p
    BY <1>1, <1>2, <1>3, TerminalAssumption, Zenon
  <2> QED  BY <1>1, <1>4, <2>1, <2>2, SendAscends DEF Delivery
<1>7. DeliveredInOrder'
  <2>1. \A i \in 1 .. Len(sent[c]) : sent[c][i] # Control =>
          sent[c][i] # frame /\ (by[sent[c][i]] = by[frame] => sent[c][i] < frame)
    <3>1. \A i \in 1 .. Len(sent[c]) : sent[c][i] \in Nat
      BY <1>1, ConnTypes, Zenon
    <3>2. ~ (frame < frame)
      BY <1>3, <1>4
    <3> QED  BY <1>3, <3>1, <3>2, Zenon
  <2> QED  BY <1>1, <2>1, SendInOrder, Zenon DEF Delivery
<1> QED  BY <1>5, <1>6, <1>7, Zenon DEF Delivery

\* Every step keeps the order of delivery.
LEMMA StepKeepsDelivery ==
  ASSUME TypeOK, HistoryIsTheNewest, TargetsAreAttached, Delivery, Next
  PROVE  Delivery'
<1>0. pc \in [Conns -> PCs] /\ pub \in [Streams -> [seq : 0 .. MaxFrames, to : Conns \cup {None}, failed : {"no", "clear", "close"}]]
  BY ControlTypes, Zenon
<1>1. ASSUME NEW c \in Conns,
             \/ Get(c) \/ AttachLock(c) \/ stopIdleTimer(c) \/ currentAttachment(c) \/ Evict(c)
             \/ removeAttachment(c) \/ AttachFails(c) \/ setAttachment(c) \/ clearAttachment(c)
             \/ AttachReturns(c) \/ ReadEnds(c) \/ Write(c) \/ WriterStops(c)
      PROVE  Delivery'
  <2> DEFINE Quiet == /\ by' = by /\ sent' = sent /\ pub' = pub
                      /\ \A d \in Conns : pc'[d] \in Early =>
                           pc[d] \in Early /\ batch'[d] = batch[d] /\ replayed'[d] = replayed[d]
  <2> USE <1>0 DEF Early, Holding, histvars, connvars
  <2>1. CASE Get(c)
    <3>1. Quiet
      BY <2>1, Zenon DEF Get
    <3> QED  BY <3>1, QuietKeepsDelivery, Zenon
  <2>2. CASE AttachLock(c)
    <3>1. Quiet
      BY <2>2, Zenon DEF AttachLock
    <3> QED  BY <3>1, QuietKeepsDelivery, Zenon
  <2>3. CASE stopIdleTimer(c)
    <3>1. Quiet
      BY <2>3, Zenon DEF stopIdleTimer
    <3> QED  BY <3>1, QuietKeepsDelivery, Zenon
  <2>4. CASE currentAttachment(c)
    <3>1. Quiet
      BY <2>4, Zenon DEF currentAttachment
    <3> QED  BY <3>1, QuietKeepsDelivery, Zenon
  <2>5. CASE Evict(c) \/ removeAttachment(c)
    <3>1. Quiet
      BY <2>5, Zenon DEF Evict, removeAttachment
    <3> QED  BY <3>1, QuietKeepsDelivery, Zenon
  <2>6. CASE AttachFails(c)
    <3>1. Quiet
      BY <2>6, Zenon DEF AttachFails, TypeOK
    <3> QED  BY <3>1, QuietKeepsDelivery, Zenon
  <2>7. CASE setAttachment(c)
    <3>1. Quiet
      BY <2>7, Zenon DEF setAttachment, TypeOK
    <3> QED  BY <3>1, QuietKeepsDelivery, Zenon
  <2>8. CASE clearAttachment(c) \/ AttachReturns(c) \/ ReadEnds(c)
    <3>1. Quiet
      BY <2>8, Zenon DEF clearAttachment, AttachReturns, ReadEnds
    <3> QED  BY <3>1, QuietKeepsDelivery, Zenon
  <2>9. CASE Write(c) \/ WriterStops(c)
    <3>1. Quiet
      BY <2>9, Zenon DEF Write, WriterStops
    <3> QED  BY <3>1, QuietKeepsDelivery, Zenon
  <2> HIDE DEF Quiet
  <2> QED  BY <1>1, <2>1, <2>2, <2>3, <2>4, <2>5, <2>6, <2>7, <2>8, <2>9, Zenon
<1>2. ASSUME NEW c \in Conns, Greet(c) PROVE Delivery'
  <2>1. /\ send(c, Control)
        /\ by' = by /\ drained' = drained /\ batch' = batch /\ replayed' = replayed /\ pub' = pub
    BY <1>2, Zenon DEF Greet, histvars, connvars
  <2>2. \A d \in Conns : pc'[d] \in Early => pc[d] \in Early
    BY <1>0, <1>2, Zenon DEF Greet, Early, Holding
  <2> QED  BY <2>1, <2>2, ControlKeepsDelivery, Zenon
<1>3. ASSUME NEW c \in Conns, Snapshot(c) PROVE Delivery'
  BY <1>3, SnapshotKeepsDelivery, Zenon
<1>4. ASSUME NEW c \in Conns, Replay(c) PROVE Delivery'
  BY <1>4, ReplayKeepsDelivery, Zenon
<1>5. ASSUME NEW o \in Streams, publishBinary(o) PROVE Delivery'
  BY <1>5, PublishKeepsDelivery, Zenon
<1>6. ASSUME NEW o \in Streams, PublishSend(o) PROVE Delivery'
  BY <1>6, SendKeepsDelivery, Zenon
<1>7. ASSUME NEW o \in Streams, PublishRefused(o) \/ PublishClears(o) \/ PublishCloses(o) PROVE Delivery'
  <2>1. by' = by /\ sent' = sent /\ pc' = pc /\ batch' = batch /\ replayed' = replayed
    BY <1>7, Zenon DEF PublishRefused, PublishClears, PublishCloses, histvars, connvars
  <2>2. \A p \in Streams : pub'[p].to # None => pub'[p].to = pub[p].to /\ pub'[p].seq = pub[p].seq
    BY <1>0, <1>7 DEF PublishRefused, PublishClears, PublishCloses, NoFrame
  <2> QED  BY <2>1, <2>2, QuietKeepsDelivery, Zenon
<1>8. CASE Expire \/ CloseCancel \/ CloseMark
  <2>1. by' = by /\ sent' = sent /\ pc' = pc /\ batch' = batch /\ replayed' = replayed /\ pub' = pub
    BY <1>8, Zenon DEF Expire, CloseCancel, CloseMark, histvars, connvars
  <2> QED  BY <2>1, QuietKeepsDelivery, Zenon
<1>9. CASE CloseRelease
  <2>1. by' = by /\ pc' = pc /\ batch' = batch /\ replayed' = replayed /\ pub' = pub /\ drained' = drained
    BY <1>9, Zenon DEF CloseRelease, histvars, connvars
  <2>2. sent' = sent \/ \E d \in Conns : send(d, Control)
    BY <1>9, Zenon DEF CloseRelease, send
  <2>3. CASE sent' = sent
    BY <2>1, <2>3, QuietKeepsDelivery, Zenon
  <2>4. ASSUME NEW d \in Conns, send(d, Control) PROVE Delivery'
    BY <2>1, <2>4, ControlKeepsDelivery, Zenon
  <2> QED  BY <2>2, <2>3, <2>4, Zenon
<1>10. \A c \in Conns : WriterCancelled(c) \/ WriteFails(c) => WriterStops(c)
  BY Zenon DEF WriterCancelled, WriteFails
<1> QED
  BY <1>1, <1>2, <1>3, <1>4, <1>5, <1>6, <1>7, <1>8, <1>9, <1>10, Zenon DEF Next, Attach, Publish

-----------------------------------------------------------------------------
(* Live frames are not lost *)

\* The attachments that live frames are promised to.
Live(c) == pc[c] = "reading" /\ c \notin dead /\ attachment = c

\* Where a live frame may be.
Arrives(c, seq) ==
  \/ \E i \in 1 .. Len(sent[c]) : sent[c][i] = seq
  \/ \E o \in Streams : pub[o].to = c /\ (pub[o].seq = seq \/ pub[o].failed # "no")

\* What is queued stays queued, whatever is put behind it.
LEMMA QueuedStays ==
  ASSUME TypeOK, drained' = drained,
         sent' = sent \/ \E c \in Conns, frame \in 0 .. MaxFrames : send(c, frame),
         NEW d \in Conns
  PROVE  \A i \in 1 .. Len(sent[d]) : i \in 1 .. Len(sent'[d]) /\ sent'[d][i] = sent[d][i]
<1>1. CASE sent' = sent
  BY <1>1, Zenon
<1>2. ASSUME NEW c \in Conns, NEW frame \in 0 .. MaxFrames, send(c, frame)
      PROVE  \A i \in 1 .. Len(sent[d]) : i \in 1 .. Len(sent'[d]) /\ sent'[d][i] = sent[d][i]
  <2>1. /\ d # c => sent'[d] = sent[d]
        /\ Len(sent'[c]) = Len(sent[c]) + 1
        /\ \A i \in 1 .. Len(sent[c]) : sent'[c][i] = sent[c][i]
    BY <1>2, SendKeepsBound, Zenon
  <2>2. Len(sent[c]) \in Nat
    BY ConnTypes, Zenon
  <2>3. CASE d # c
    BY <2>1, <2>3, Zenon
  <2>4. CASE d = c
    BY <2>1, <2>2, <2>4
  <2> QED  BY <2>3, <2>4, Zenon
<1> QED  BY <1>1, <1>2, Zenon

\* A step that prints nothing and attaches nobody, and takes no frame off its
\* way to an attachment that stays the session's.
LEMMA QuietKeepsArrivals ==
  ASSUME TypeOK, LiveFramesArrive, by' = by,
         \A c \in Conns : Live(c)' => Live(c) /\ since'[c] = since[c],
         \A c \in Conns : \A i \in 1 .. Len(sent[c]) : i \in 1 .. Len(sent'[c]) /\ sent'[c][i] = sent[c][i],
         \A c \in Conns, o \in Streams : Live(c)' /\ pub[o].to = c =>
           \/ /\ pub'[o].to = c /\ pub'[o].seq = pub[o].seq
              /\ pub[o].failed # "no" => pub'[o].failed # "no"
           \/ pub[o].failed = "no" /\ \E i \in 1 .. Len(sent'[c]) : sent'[c][i] = pub[o].seq
  PROVE  LiveFramesArrive'
<1>1. nextSeq' = nextSeq
  BY Zenon DEF nextSeq
<1> SUFFICES ASSUME NEW c \in Conns, Live(c)', NEW seq \in since'[c] + 1 .. nextSeq'
             PROVE  Arrives(c, seq)'
  BY Zenon DEF LiveFramesArrive, Live, Arrives
<1>2. Live(c) /\ since'[c] = since[c]
  BY Zenon
<1>3. Arrives(c, seq)
  <2>1. seq \in since[c] + 1 .. nextSeq
    BY <1>1, <1>2, Zenon
  <2> QED  BY <1>2, <2>1, Zenon DEF LiveFramesArrive, Live, Arrives
<1>4. ASSUME NEW i \in 1 .. Len(sent[c]), sent[c][i] = seq PROVE Arrives(c, seq)'
  BY <1>4, Zenon DEF Arrives
<1>5. ASSUME NEW o \in Streams, pub[o].to = c, pub[o].seq = seq \/ pub[o].failed # "no"
      PROVE  Arrives(c, seq)'
  BY <1>5 DEF Arrives
<1> QED  BY <1>3, <1>4, <1>5, Zenon DEF Arrives

\* Every step of an Attach call, its reader and its writer keeps the promise.
LEMMA ConnKeepsArrivals ==
  ASSUME TypeOK, LiveFramesArrive, NEW c \in Conns,
         Get(c) \/ Attach(c) \/ ReadEnds(c) \/ Write(c) \/ WriterStops(c)
  PROVE  LiveFramesArrive'
<1>0. pc \in [Conns -> PCs] /\ since \in [Conns -> 0 .. MaxFrames] /\ attachment \in Conns \cup {None} /\ None \notin Conns
  BY TerminalAssumption, Zenon DEF TypeOK
<1> DEFINE Kept == /\ by' = by /\ pub' = pub
                   /\ \A d \in Conns : Live(d)' => Live(d) /\ since'[d] = since[d]
<1>1. ASSUME Kept, sent' = sent PROVE LiveFramesArrive'
  BY <1>1, QuietKeepsArrivals, Zenon
<1>2. ASSUME Kept, drained' = drained, NEW frame \in 0 .. MaxFrames, send(c, frame) PROVE LiveFramesArrive'
  <2>1. \A d \in Conns : \A i \in 1 .. Len(sent[d]) : i \in 1 .. Len(sent'[d]) /\ sent'[d][i] = sent[d][i]
    BY <1>2, QueuedStays, Zenon
  <2> QED  BY <1>2, <2>1, QuietKeepsArrivals, Zenon
<1>3. CASE Get(c) \/ AttachLock(c) \/ stopIdleTimer(c) \/ currentAttachment(c)
  <2>1. Kept /\ sent' = sent
    BY <1>0, <1>3, Zenon DEF Live, Get, AttachLock, stopIdleTimer, currentAttachment, histvars, connvars
  <2> QED  BY <1>1, <2>1, Zenon
<1>4. CASE Evict(c) \/ removeAttachment(c) \/ AttachFails(c)
  <2>1. Kept /\ sent' = sent
    BY <1>0, <1>4, Zenon DEF Live, Evict, removeAttachment, AttachFails, histvars, connvars
  <2> QED  BY <1>1, <2>1, Zenon
<1>5. CASE Greet(c)
  <2>1. Kept /\ drained' = drained /\ send(c, Control)
    BY <1>0, <1>5, Zenon DEF Live, Greet, histvars, connvars
  <2>2. Control \in 0 .. MaxFrames
    BY TerminalAssumption DEF Control
  <2> QED  BY <1>2, <2>1, <2>2, Zenon
<1>6. CASE Snapshot(c)
  <2>1. /\ \E p \in {"setting", "replaying"} : pc' = [pc EXCEPT ![c] = p]
        /\ by' = by /\ pub' = pub /\ sent' = sent /\ attachment' = attachment /\ dead' = dead /\ since' = since
    BY <1>6, Zenon DEF Snapshot, histvars
  <2>2. Kept
    BY <1>0, <2>1, Zenon DEF Live
  <2> QED  BY <1>1, <2>1, <2>2, Zenon
<1>7. CASE Replay(c)
  <2>1. Kept /\ drained' = drained /\ send(c, Head(batch[c])) /\ batch[c] # <<>>
    BY <1>0, <1>7, Zenon DEF Live, Replay, histvars
  <2>2. Head(batch[c]) \in 1 .. MaxFrames
    BY <2>1, ConnTypes, HeadAndTail, Zenon
  <2>3. Head(batch[c]) \in 0 .. MaxFrames
    BY <2>2, TerminalAssumption
  <2> QED  BY <1>2, <2>1, <2>3, Zenon
<1>8. CASE setAttachment(c)
  <2>1. /\ attachment' = c /\ since'[c] = nextSeq /\ by' = by
    BY <1>0, <1>8, Zenon DEF setAttachment, histvars
  <2>2. nextSeq' = nextSeq /\ nextSeq \in Nat
    BY <2>1, ConnTypes, Zenon DEF nextSeq
  <2>3. since'[c] + 1 .. nextSeq' = {}
    BY <2>1, <2>2, SMTT(20), Zenon
  <2> QED  BY <2>1, <2>3, Zenon DEF LiveFramesArrive
<1>9. CASE clearAttachment(c) \/ AttachReturns(c) \/ ReadEnds(c)
  <2>1. Kept /\ sent' = sent
    BY <1>0, <1>9, Zenon DEF Live, clearAttachment, ClearLocked, AttachReturns, ReadEnds, histvars, connvars
  <2> QED  BY <1>1, <2>1, Zenon
<1>10. CASE Write(c) \/ WriterStops(c)
  <2>1. Kept /\ sent' = sent
    BY <1>0, <1>10, Zenon DEF Live, Write, WriterStops, histvars, connvars
  <2> QED  BY <1>1, <2>1, Zenon
<1> HIDE DEF Kept
<1> QED
  BY <1>3, <1>4, <1>5, <1>6, <1>7, <1>8, <1>9, <1>10, Zenon DEF Attach

\* Every step of an output goroutine and of close keeps the promise: a frame
\* that is refused stays on its way until its attachment is cleared.
LEMMA SessionKeepsArrivals ==
  ASSUME TypeOK, HistoryIsTheNewest, LiveFramesArrive,
         \/ \E o \in Streams : publishBinary(o) \/ Publish(o)
         \/ Expire \/ CloseCancel \/ CloseMark \/ CloseRelease
  PROVE  LiveFramesArrive'
<1>0. /\ attachment \in Conns \cup {None} /\ None \notin Conns
      /\ pub \in [Streams -> [seq : 0 .. MaxFrames, to : Conns \cup {None}, failed : {"no", "clear", "close"}]]
  BY ControlTypes, Zenon
<1>1. ASSUME NEW o \in Streams, publishBinary(o) PROVE LiveFramesArrive'
  <2>1. /\ appendFrameLocked(o) /\ nextSeq < MaxFrames /\ pub[o] = NoFrame
        /\ pub' = [pub EXCEPT ![o] = IF attachment = None THEN NoFrame
                                     ELSE [seq |-> nextSeq + 1, to |-> attachment, failed |-> "no"]]
        /\ sent' = sent /\ pc' = pc /\ dead' = dead /\ attachment' = attachment /\ since' = since
    BY <1>1, Zenon DEF publishBinary, connvars
  <2>2. nextSeq' = nextSeq + 1 /\ nextSeq \in Nat
    <3>1. Len(by') = nextSeq + 1
      BY <2>1, AppendKeepsHistory, Zenon
    <3> QED  BY <3>1 DEF nextSeq, TypeOK
  <2> SUFFICES ASSUME NEW c \in Conns, Live(c)', NEW seq \in since'[c] + 1 .. nextSeq'
               PROVE  Arrives(c, seq)'
    BY Zenon DEF LiveFramesArrive, Live, Arrives
  <2>3. Live(c) /\ attachment = c
    BY <2>1, Zenon DEF Live
  <2>4. CASE seq = nextSeq + 1
    <3>1. pub'[o].to = c /\ pub'[o].seq = seq
      BY <1>0, <2>1, <2>3, <2>4, Zenon
    <3> QED  BY <3>1, Zenon DEF Arrives
  <2>5. CASE seq # nextSeq + 1
    <3>1. since[c] \in Nat
      BY ConnTypes, Zenon
    <3>2. seq \in since[c] + 1 .. nextSeq
      <4>1. seq \in since[c] + 1 .. nextSeq + 1
        BY <2>1, <2>2, Zenon
      <4>2. \A a, b \in Nat : \A x \in a + 1 .. b + 1 : x # b + 1 => x \in a + 1 .. b
        OBVIOUS
      <4> QED  BY <2>2, <2>5, <3>1, <4>1, <4>2, Zenon
    <3>3. Arrives(c, seq)
      BY <2>3, <3>2, Zenon DEF LiveFramesArrive, Live, Arrives
    <3>4. \A p \in Streams : pub[p].to = c => pub'[p] = pub[p]
      BY <1>0, <2>1 DEF NoFrame
    <3> QED  BY <2>1, <3>3, <3>4, Zenon DEF Arrives
  <2> QED  BY <2>4, <2>5, Zenon
<1>2. ASSUME NEW o \in Streams, PublishSend(o) PROVE LiveFramesArrive'
  <2>1. /\ pub[o].to \in Conns /\ pub[o].seq \in 0 .. MaxFrames /\ send(pub[o].to, pub[o].seq)
        /\ pub[o].failed = "no" /\ \A p \in Streams : p # o => pub'[p] = pub[p]
        /\ by' = by /\ drained' = drained
        /\ pc' = pc /\ dead' = dead /\ attachment' = attachment /\ since' = since
    BY <1>0, <1>2, Zenon DEF PublishSend, histvars, connvars
  <2>2. \A d \in Conns : \A i \in 1 .. Len(sent[d]) : i \in 1 .. Len(sent'[d]) /\ sent'[d][i] = sent[d][i]
    BY <2>1, QueuedStays, Zenon
  <2>3. \E i \in 1 .. Len(sent'[pub[o].to]) : sent'[pub[o].to][i] = pub[o].seq
    <3>1. /\ Len(sent'[pub[o].to]) = Len(sent[pub[o].to]) + 1
          /\ sent'[pub[o].to][Len(sent[pub[o].to]) + 1] = pub[o].seq
      BY <2>1, SendKeepsBound, Zenon
    <3>2. Len(sent[pub[o].to]) \in Nat
      BY <2>1, ConnTypes, Zenon
    <3>3. \A k \in Nat : \A n : n = k + 1 => k + 1 \in 1 .. n
      OBVIOUS
    <3>4. Len(sent[pub[o].to]) + 1 \in 1 .. Len(sent'[pub[o].to])
      BY <3>1, <3>2, <3>3, Zenon
    <3> QED  BY <3>1, <3>4, Zenon
  <2>4. \A d \in Conns : Live(d)' => Live(d) /\ since'[d] = since[d]
    BY <2>1, Zenon DEF Live
  <2>5. ASSUME NEW d \in Conns, NEW p \in Streams, pub[p].to = d
        PROVE  \/ /\ pub'[p].to = d /\ pub'[p].seq = pub[p].seq
                  /\ pub[p].failed # "no" => pub'[p].failed # "no"
               \/ pub[p].failed = "no" /\ \E i \in 1 .. Len(sent'[d]) : sent'[d][i] = pub[p].seq
    BY <2>1, <2>3, <2>5, Zenon
  <2> QED  BY <2>1, <2>2, <2>4, <2>5, QuietKeepsArrivals, Zenon
<1>3. ASSUME NEW o \in Streams, PublishRefused(o) \/ PublishClears(o) \/ PublishCloses(o)
      PROVE  LiveFramesArrive'
  <2>1. by' = by /\ sent' = sent
    BY <1>3, Zenon DEF PublishRefused, PublishClears, PublishCloses, histvars
  <2>2. \A d \in Conns : Live(d)' => Live(d) /\ since'[d] = since[d]
    <3>1. pc' = pc /\ since' = since /\ dead \subseteq dead'
      BY <1>3, Zenon DEF PublishRefused, PublishClears, PublishCloses, connvars
    <3>2. attachment' \in {attachment, None}
      BY <1>3, Zenon DEF PublishRefused, PublishClears, PublishCloses, ClearLocked
    <3> QED  BY <1>0, <3>1, <3>2, Zenon DEF Live
  <2>3. \A d \in Conns, p \in Streams : Live(d)' /\ pub[p].to = d =>
          /\ pub'[p].to = d /\ pub'[p].seq = pub[p].seq
          /\ pub[p].failed # "no" => pub'[p].failed # "no"
    <3>1. CASE PublishRefused(o)
      BY <1>0, <3>1, Zenon DEF PublishRefused
    <3>2. CASE PublishClears(o)
      BY <1>0, <3>2, Zenon DEF PublishClears
    <3>3. CASE PublishCloses(o)
      <4>1. \A d \in Conns : Live(d)' => d # pub[o].to
        BY <3>3, Zenon DEF PublishCloses, Live
      <4>2. \A p \in Streams : p # o => pub'[p] = pub[p]
        BY <1>0, <3>3, Zenon DEF PublishCloses
      <4> QED  BY <4>1, <4>2, Zenon
    <3> QED  BY <1>3, <3>1, <3>2, <3>3, Zenon
  <2> QED  BY <2>1, <2>2, <2>3, QuietKeepsArrivals, Zenon
<1>4. CASE Expire \/ CloseCancel \/ CloseMark
  <2>1. by' = by /\ sent' = sent /\ pub' = pub
    BY <1>4, Zenon DEF Expire, CloseCancel, CloseMark, histvars
  <2>2. \A d \in Conns : Live(d)' => Live(d) /\ since'[d] = since[d]
    BY <1>0, <1>4, Zenon DEF Expire, CloseCancel, CloseMark, connvars, Live
  <2> QED  BY <2>1, <2>2, QuietKeepsArrivals, Zenon
<1>5. CASE CloseRelease
  <2>1. by' = by /\ pub' = pub /\ drained' = drained
    BY <1>5, Zenon DEF CloseRelease, histvars
  <2>2. \A d \in Conns : Live(d)' => Live(d) /\ since'[d] = since[d]
    BY <1>5, Zenon DEF CloseRelease, connvars, Live
  <2>3. Control \in 0 .. MaxFrames /\ (sent' = sent \/ \E d \in Conns : send(d, Control))
    BY <1>5, TerminalAssumption DEF CloseRelease, send, Control
  <2>4. \A d \in Conns : \A i \in 1 .. Len(sent[d]) : i \in 1 .. Len(sent'[d]) /\ sent'[d][i] = sent[d][i]
    BY <2>1, <2>3, QueuedStays, Zenon
  <2> QED  BY <2>1, <2>2, <2>4, QuietKeepsArrivals, Zenon
<1> QED
  BY <1>1, <1>2, <1>3, <1>4, <1>5, Zenon DEF Publish

-----------------------------------------------------------------------------
(* The invariant *)

\* A step that prints nothing leaves the ring alone.
LEMMA StepKeepsHistory ==
  ASSUME TypeOK, HistoryIsTheNewest, Next
  PROVE  HistoryIsTheNewest'
<1>1. ASSUME NEW o \in Streams, publishBinary(o) PROVE HistoryIsTheNewest'
  BY <1>1, AppendKeepsHistory, Zenon DEF publishBinary
<1>2. ASSUME UNCHANGED histvars PROVE HistoryIsTheNewest'
  BY <1>2, Zenon DEF HistoryIsTheNewest, histvars, historyLen, nextSeq, Back
<1>3. ASSUME NEW c \in Conns, Attach(c) PROVE UNCHANGED histvars
  BY <1>3, Zenon DEF Attach, AttachLock, stopIdleTimer, currentAttachment, Evict, removeAttachment, Greet,
              Snapshot, Replay, AttachFails, setAttachment, clearAttachment, AttachReturns
<1>4. ASSUME NEW c \in Conns, Get(c) \/ ReadEnds(c) \/ Write(c) \/ WriterCancelled(c) \/ WriteFails(c)
      PROVE  UNCHANGED histvars
  BY <1>4, Zenon DEF Get, ReadEnds, Write, WriterCancelled, WriteFails, WriterStops
<1>5. ASSUME NEW o \in Streams, Publish(o) PROVE UNCHANGED histvars
  BY <1>5, Zenon DEF Publish, PublishSend, PublishRefused, PublishClears, PublishCloses
<1>6. ASSUME Expire \/ CloseCancel \/ CloseMark \/ CloseRelease PROVE UNCHANGED histvars
  BY <1>6, Zenon DEF Expire, CloseCancel, CloseMark, CloseRelease
<1> QED  BY <1>1, <1>2, <1>3, <1>4, <1>5, <1>6, Zenon DEF Next

\* TerminalInv is inductive.
LEMMA StepPreservesTerminalInv ==
  ASSUME TerminalInv, [Next]_vars
  PROVE  TerminalInv'
<1>1. CASE Next
  <2> USE DEF TerminalInv
  <2>1. TypeOK'
    BY <1>1, ConnKeepsTypes, SessionKeepsTypes, Zenon DEF Next
  <2>2. HistoryIsTheNewest'
    BY <1>1, StepKeepsHistory, Zenon
  <2>3. SessionControl'
    BY <1>1, AttachKeepsControl, OthersKeepControl, Zenon DEF Next, SessionControl
  <2>4. Delivery'
    BY <1>1, StepKeepsDelivery, Zenon DEF Delivery
  <2>5. LiveFramesArrive'
    <3>1. \A c \in Conns : WriterCancelled(c) \/ WriteFails(c) => WriterStops(c)
      BY Zenon DEF WriterCancelled, WriteFails
    <3> QED  BY <1>1, <3>1, ConnKeepsArrivals, SessionKeepsArrivals, Zenon DEF Next
  <2>6. Eviction'
    BY <1>1, AttachKeepsEviction, OthersKeepEviction, Zenon DEF Next, Eviction
  <2> QED  BY <2>1, <2>2, <2>3, <2>4, <2>5, <2>6, Zenon DEF SessionControl, Delivery, Eviction
<1>2. CASE UNCHANGED vars
  <2>1. /\ UNCHANGED <<by, ring, pos, attachment, armed, closing, victim, inMap, lock, pc>>
        /\ UNCHANGED <<old, batch, replayed, since, sent, drained, dead, pub>>
    BY <1>2, Zenon DEF vars, histvars, connvars
  <2>2. TypeOK'
    BY <2>1, Zenon DEF TerminalInv, TypeOK
  <2>3. nextSeq' = nextSeq /\ historyLen' = historyLen
    BY <2>1, Zenon DEF nextSeq, historyLen
  <2>4. HistoryIsTheNewest'
    BY <2>1, <2>3, Zenon DEF TerminalInv, HistoryIsTheNewest, Back
  <2>5. AttachesAreSerial' /\ TargetsAreAttached' /\ DetachedSessionsAreTimed'
    BY <2>1, Zenon DEF TerminalInv, AttachesAreSerial, TargetsAreAttached, DetachedSessionsAreTimed
  <2>6. ReplaysAscend'
    BY <2>1, <2>3, Zenon DEF TerminalInv, ReplaysAscend
  <2>7. LiveFramesAscend'
    BY <2>1, <2>3, Zenon DEF TerminalInv, LiveFramesAscend
  <2>8. DeliveredInOrder'
    BY <2>1, Zenon DEF TerminalInv, DeliveredInOrder
  <2>9. LiveFramesArrive'
    <3>1. \A d \in Conns : Live(d)' => Live(d) /\ since'[d] = since[d]
      BY <2>1, Zenon DEF Live
    <3> QED  BY <2>1, <3>1, QuietKeepsArrivals, Zenon DEF TerminalInv
  <2>10. EvictionsInOrder' /\ ReplacedAreClosed'
    BY <2>1, Zenon DEF TerminalInv, EvictionsInOrder, ReplacedAreClosed, cancelled
  <2> QED  BY <2>2, <2>4, <2>5, <2>6, <2>7, <2>8, <2>9, <2>10, Zenon DEF TerminalInv
<1> QED  BY <1>1, <1>2, Zenon

\* In every state of a session the ring holds the newest frames, attachMu has
\* one holder, and what is replayed or sent live is newer than what was sent.
THEOREM TerminalInvariant == Spec => []TerminalInv
<1>1. Init => TerminalInv
  BY InitTerminalInv, Zenon
<1>2. TerminalInv /\ [Next]_vars => TerminalInv'
  BY StepPreservesTerminalInv, Zenon
<1> QED  BY <1>1, <1>2, PTL DEF Spec

\* A browser never gets the frames of one stream out of order, nor a frame
\* twice, however Attach and the output goroutines interleave.
THEOREM FramesAreInOrder == Spec => []DeliveredInOrder
<1>1. TerminalInv => DeliveredInOrder
  BY Zenon DEF TerminalInv
<1> QED  BY <1>1, TerminalInvariant, PTL

\* No frame printed while a browser is attached is lost silently.
THEOREM LiveFramesAreNotLost == Spec => []LiveFramesArrive
<1>1. TerminalInv => LiveFramesArrive
  BY Zenon DEF TerminalInv
<1> QED  BY <1>1, TerminalInvariant, PTL

\* snapshotFramesAfter returns the frames it is asked for that are kept, oldest
\* first, for every size of the ring and however often it has wrapped around.
THEOREM ReplaysTheTail == Spec => []ReplayIsTheTail
<1>1. TerminalInv => ReplayIsTheTail
  BY RingGivesTail, Zenon DEF TerminalInv
<1> QED  BY <1>1, TerminalInvariant, PTL

\* A browser that is no longer the session's attachment is closed, or is being
\* closed, however evictions, refused frames and the end of the session race.
THEOREM ReplacedBrowsersAreClosed == Spec => []ReplacedAreClosed
<1>1. TerminalInv => ReplacedAreClosed
  BY Zenon DEF TerminalInv
<1> QED  BY <1>1, TerminalInvariant, PTL

\* A session that browsers have left has its idle timer running, unless an
\* Attach call failed or none got as far as attachMu.
THEOREM DetachedIsTimed == Spec => []DetachedSessionsAreTimed
<1>1. TerminalInv => DetachedSessionsAreTimed
  BY Zenon DEF TerminalInv
<1> QED  BY <1>1, TerminalInvariant, PTL
=============================================================================
