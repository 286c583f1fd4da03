------------------------- MODULE ShortMessageProofs -------------------------
(***************************************************************************)
(* What short messaging keeps in order, whatever the number of sessions,   *)
(* segments and requests, whatever the callbacks answer and whatever the   *)
(* network does with the datagrams.                                        *)
(***************************************************************************)
EXTENDS ShortMessage, ListLemmas, TLAPS, FiniteSetTheorems, SequenceTheorems

Owners == {"client", "cloud"}

-----------------------------------------------------------------------------
\* A session that changes stays a session of its owner.
Sound(s, r) == s \in Session /\ s.owner = r.owner

\* Freed memory holds no session.
LEMMA FreeIsNoSession == Free \notin Session
BY DEF Free, Session, SendStates, RecvStates

\* What a message is sent in is a number of segments.
LEMMA SegmentsOf ==
    ASSUME ConstantsAssumption, NEW t \in Talks
    PROVE  Segments[t] \in Nat
BY DEF ConstantsAssumption

\* The callbacks that say how a session ended.
LEMMA InformedSound ==
    ASSUME NEW s \in Session, NEW answer
    PROVE  Sound(Informed(s, answer).s, s)
<1>1. Informed(s, answer).s = [s EXCEPT !.data = FALSE]
  BY DEF Informed, Effect
<1> QED
  BY <1>1 DEF Sound, Session

\* Where a session goes when it is done with what it did.
LEMMA SwitchPathSound ==
    ASSUME NEW s \in Session, NEW next \in SendStates \cup RecvStates, NEW answer
    PROVE  Sound(SwitchPath(s, next, answer).s, s)
<1> DEFINE s1 == [s EXCEPT !.data = FALSE, !.st = next, !.multi = FALSE,
                           !.resp = TRUE, !.processed = 0, !.needs = s.cmd # "data"]
           s2 == [s EXCEPT !.data = FALSE, !.st = "complete"]
           s3 == [s EXCEPT !.error = "complete"]
           e  == Informed(s3, answer)
           s4 == [e EXCEPT !.s.st = "complete"].s
<1>1. Sound(s1, s)
  <2>1. (s.cmd # "data") \in BOOLEAN
    OBVIOUS
  <2> QED
    BY ZenonT(60), <2>1 DEF Sound, Session
<1>2. Sound(s2, s)
  BY DEF Sound, Session, RecvStates
<1>3. s3 \in Session /\ s3.owner = s.owner
  BY DEF Session
<1>4. Sound(e.s, s)
  BY <1>3, InformedSound DEF Sound
<1>5. s4 = [e.s EXCEPT !.st = "complete"]
  <2>1. e = [s |-> e.s, says |-> e.says, busy |-> e.busy]
    BY DEF Informed, Effect
  <2> HIDE DEF e
  <2> QED
    BY <2>1
<1>6. Sound(s4, s)
  <2> HIDE DEF e, s4
  <2> QED
    BY <1>4, <1>5 DEF Sound, Session, RecvStates
<1> HIDE DEF s1, s2, s4, e
<1>7. SwitchPath(s, next, answer).s \in {s1, s2, e.s, s4}
  BY DEF SwitchPath, Effect, s1, s2, e, s4
<1> QED
  BY <1>1, <1>2, <1>4, <1>6, <1>7

\* sm_prepare_segment.
LEMMA SegmentedSound ==
    ASSUME ConstantsAssumption, NEW s \in Session
    PROVE  Sound(Segmented(s), s)
<1> DEFINE n == IF s.resp THEN 1 ELSE Segments[s.of]
<1>1. n \in Nat
  BY SegmentsOf DEF Session
<1> HIDE DEF n
<1>2. Segmented(s) = [s EXCEPT !.st = "send_data", !.processed = 0, !.count = n,
                               !.multi = @ \/ n > 1]
  BY DEF Segmented, n
<1>3. ASSUME NEW m \in BOOLEAN
      PROVE  Sound([s EXCEPT !.st = "send_data", !.processed = 0, !.count = n,
                             !.multi = m], s)
  BY <1>1 DEF Sound, Session, SendStates
<1>4. (s.multi \/ n > 1) \in BOOLEAN
  OBVIOUS
<1> QED
  BY <1>2, <1>3, <1>4

\* The header of a datagram.
LEMMA HeaderSound ==
    ASSUME ConstantsAssumption, NEW s \in Session, NEW d \in Datagram
    PROVE  Sound(Header(s, d), s)
<1>1. CASE d.seg # 0
  BY <1>1 DEF Header, Sound
<1>2. CASE d.seg = 0
  <2> DEFINE of    == IF d.kind = "request" THEN d.of ELSE s.of
             cmd   == IF d.kind = "request" THEN Command(d.of) ELSE s.cmd
             needs == s.needs \/ (d.kind = "request" /\ d.of \in NeedResponse)
             err   == s.err \/ d.error
             error == IF d.error THEN "cloud" ELSE s.error
             count == IF d.kind = "request" THEN Segments[d.of] ELSE 1
  <2>1. of \in Talks /\ cmd \in {"ping", "data", "opaque"}
    BY DEF Session, Datagram, Command
  <2>2. needs \in BOOLEAN /\ err \in BOOLEAN
    OBVIOUS
  <2>3. error \in {"none", "cancel", "timeout", "complete", "cloud", "no_resource"}
    BY DEF Session
  <2>4. count \in Nat
    BY SegmentsOf DEF Datagram
  <2>5. Header(s, d) = [s EXCEPT !.of = of, !.cmd = cmd, !.needs = needs, !.err = err,
                                 !.error = error, !.count = count]
    BY <1>2 DEF Header
  <2>6. ASSUME NEW n \in BOOLEAN, NEW e \in BOOLEAN
        PROVE  Sound([s EXCEPT !.of = of, !.cmd = cmd, !.needs = n, !.err = e,
                               !.error = error, !.count = count], s)
    <3> HIDE DEF of, cmd, error, count
    <3> QED
      BY ZenonT(60), <2>1, <2>3, <2>4 DEF Sound, Session
  <2> HIDE DEF of, cmd, needs, err, error, count
  <2> QED
    BY <2>2, <2>5, <2>6
<1> QED
  BY <1>1, <1>2

\* A datagram that arrived for a session.
LEMMA AssembledSound ==
    ASSUME ConstantsAssumption, NEW s \in Session, NEW d \in Datagram
    PROVE  Sound(Assembled(s, d), s)
<1> DEFINE s1 == Header(s, d)
           s2 == AddSegment(s1, d)
           s3 == AddOnly(s1, d)
<1>1. Sound(s1, s)
  BY HeaderSound
<1> HIDE DEF s1
<1>2. d.seg \in Nat /\ MaxSegments \in Nat
  BY DEF Datagram, ConstantsAssumption
<1>3. Sound(s2, s)
  <2> DEFINE got   == IF s1.data THEN s1.got ELSE {}
             count == IF ~s1.data /\ d.seg > 0 THEN MaxSegments ELSE s1.count
             done  == IF d.seg \in got THEN s1.processed ELSE s1.processed + 1
  <2>1. got \in SUBSET Nat /\ count \in Nat /\ s1.processed \in Nat
    BY <1>1, <1>2 DEF Sound, Session
  <2>2. got \cup {d.seg} \in SUBSET Nat
    BY <1>2, <2>1
  <2>3. done \in Nat
    BY <2>1
  <2>4. s2 = [s1 EXCEPT !.multi = TRUE, !.data = TRUE, !.count = count,
                        !.processed = done, !.got = got \cup {d.seg}]
    BY DEF AddSegment
  <2> HIDE DEF got, count, done, s2
  <2> QED
    BY <1>1, <2>1, <2>2, <2>3, <2>4 DEF Sound, Session
<1>4. Sound(s3, s)
  <2> DEFINE p == HasPayload(d)
  <2>1. p \in BOOLEAN
    BY DEF HasPayload
  <2>2. s1.processed + 1 \in Nat
    BY <1>1 DEF Sound, Session
  <2>3. s3 = [s1 EXCEPT !.data = p, !.processed = s1.processed + 1]
    BY DEF AddOnly
  <2> HIDE DEF p, s3
  <2> QED
    BY <1>1, <2>1, <2>2, <2>3 DEF Sound, Session
<1> HIDE DEF s2, s3
<1>5. ASSUME NEW r, Sound(r, s)
      PROVE  Sound([r EXCEPT !.processed = 0, !.target = FALSE,
                             !.st = "process_payload"], s)
  BY ZenonT(60), <1>5 DEF Sound, Session, RecvStates
<1>6. ASSUME NEW r
      PROVE  (IF Whole(r) THEN [r EXCEPT !.processed = 0, !.target = FALSE,
                                         !.st = "process_payload"] ELSE r)
                \in {r, [r EXCEPT !.processed = 0, !.target = FALSE,
                                  !.st = "process_payload"]}
  OBVIOUS
<1>7. \E r \in {s2, s3} :
          Assembled(s, d) \in {r, [r EXCEPT !.processed = 0, !.target = FALSE,
                                           !.st = "process_payload"]}
  BY <1>6 DEF Assembled, s1, s2, s3
<1>8. PICK r \in {s2, s3} :
          Assembled(s, d) \in {r, [r EXCEPT !.processed = 0, !.target = FALSE,
                                           !.st = "process_payload"]}
  BY <1>7
<1>9. Sound(r, s)
  BY <1>3, <1>4, <1>8
<1>10. Sound([r EXCEPT !.processed = 0, !.target = FALSE, !.st = "process_payload"], s)
  BY <1>5, <1>9
<1> QED
  BY <1>8, <1>9, <1>10 DEF Sound

-----------------------------------------------------------------------------
\* The sessions of one owner.
Of(owner) == {h \in Elements(list) : session[h].owner = owner}

\* The list holds sessions, each once, and the counts are theirs.
ListInv ==
    /\ session \in [Handles -> Session \cup {Free}]
    /\ list \in Seq(Handles)
    /\ Once(list)
    /\ Elements(list) \subseteq Live
    /\ active \in [Owners -> Nat]
    /\ \A owner \in Owners :
          active[owner] = Cardinality(Of(owner)) /\ active[owner] <= MaxSessions

\* The turn is that of a session in the list.
InList(h) == h \in Elements(list) \cup {NoHandle}
TurnInv   ==
    \/ InList(current)
    \/ fault = "read_freed" /\ current \in Handles \cup {NoHandle}

\* The ways in which a step treats the sessions: it changes some of them, adds
\* one, removes one, removes the first ones of the list, or a start forgets
\* all of them.
SameOwners ==
    /\ session' \in [Handles -> Session \cup {Free}]
    /\ \A h \in Live' : h \in Live /\ session'[h].owner = session[h].owner

Revised ==
    /\ SameOwners
    /\ Live' = Live
    /\ list' = list
    /\ active' = active

Added(h, s) ==
    /\ h \in Handles \ Live
    /\ s \in Session
    /\ active[s.owner] < MaxSessions
    /\ session' = [session EXCEPT ![h] = s]
    /\ list' = <<h>> \o list
    /\ active' = [active EXCEPT ![s.owner] = @ + 1]

Removed(h) ==
    /\ h \in Elements(list)
    /\ SameOwners
    /\ Live' = Live \ {h}
    /\ list' = RemoveAt(list, Position(h))
    /\ active' = [active EXCEPT ![session[h].owner] = @ - 1]

First(n) == {list[i] : i \in 1 .. n}
Cut(n) ==
    /\ n \in 0 .. Len(list)
    /\ SameOwners
    /\ Live' = Live \ First(n)
    /\ list' = SubSeq(list, n + 1, Len(list))
    /\ active' = [owner \in Owners |->
            active[owner] - Cardinality({h \in First(n) : session[h].owner = owner})]

Forgotten ==
    /\ "start" \in Calls
    /\ session' = session
    /\ list' = << >>
    /\ active' = [owner \in Owners |-> 0]

Treated ==
    \/ Revised
    \/ \E h, s : Added(h, s)
    \/ \E h : Removed(h)
    \/ \E n : Cut(n)
    \/ Forgotten

\* There are finitely many sessions.
LEMMA FiniteHandles ==
    ASSUME ConstantsAssumption
    PROVE  IsFiniteSet(Handles) /\ \A S \in SUBSET Handles : IsFiniteSet(S)
<1>1. IsFiniteSet(Handles)
  BY FS_Interval DEF ConstantsAssumption, Handles
<1> QED
  BY <1>1, FS_Subset

\* A session in the list is a session in memory.
LEMMA ListedIs ==
    ASSUME ListInv, NEW h \in Elements(list)
    PROVE  /\ h \in Handles /\ h \in Live /\ h # NoHandle
           /\ session[h] \in Session /\ session[h].owner \in Owners
           /\ Position(h) \in 1 .. Len(list) /\ list[Position(h)] = h
<1>1. h \in Handles /\ h \in Live /\ session[h] \in Session
  BY DEF ListInv, Live
<1>2. session[h].owner \in Owners
  BY <1>1 DEF Session, Owners
<1>3. h # NoHandle
  BY <1>1 DEF Handles, NoHandle
<1> QED
  BY <1>1, <1>2, <1>3 DEF Elements, Position

\* Changing sessions keeps list and counts in agreement.
LEMMA RevisedKeeps ==
    ASSUME ListInv, Revised
    PROVE  ListInv'
<1>1. list' = list /\ active' = active /\ Elements(list') = Elements(list)
  BY DEF Revised
<1>2. \A owner \in Owners : Of(owner)' = Of(owner)
  BY <1>1 DEF Of, Revised, SameOwners, ListInv
<1> QED
  BY <1>1, <1>2 DEF ListInv, Revised, SameOwners

\* So does adding one.
LEMMA AddedKeeps ==
    ASSUME ConstantsAssumption, ListInv, NEW h, NEW s, Added(h, s)
    PROVE  ListInv' /\ Elements(list') = Elements(list) \cup {h} /\ Live' = Live \cup {h}
<1>1. /\ h \in Handles /\ h \notin Live /\ s \in Session /\ s # Free /\ s.owner \in Owners
      /\ active[s.owner] < MaxSessions
  BY FreeIsNoSession DEF Added, Session, Owners
<1>2. /\ session \in [Handles -> Session \cup {Free}]
      /\ list \in Seq(Handles) /\ Once(list) /\ Elements(list) \subseteq Live
      /\ active \in [Owners -> Nat]
  BY DEF ListInv
<1>3. /\ session' = [session EXCEPT ![h] = s]
      /\ list' = <<h>> \o list
      /\ active' = [active EXCEPT ![s.owner] = @ + 1]
  BY DEF Added
<1>4. /\ Live' = Live \cup {h}
      /\ session'[h] = s
      /\ \A g \in Live : session'[g] = session[g]
      /\ session' \in [Handles -> Session \cup {Free}]
  BY <1>1, <1>2, <1>3 DEF Live
<1>5. h \notin Elements(list)
  BY <1>1, <1>2
<1>6. /\ list' \in Seq(Handles) /\ Once(list')
      /\ Elements(list') = Elements(list) \cup {h}
  BY <1>1, <1>2, <1>3, <1>5, AddedOnce
<1>7. ASSUME NEW owner \in Owners
      PROVE  /\ active'[owner] \in Nat
             /\ active'[owner] = Cardinality(Of(owner)')
             /\ active'[owner] <= MaxSessions
  <2>1. /\ active[owner] \in Nat /\ active[owner] = Cardinality(Of(owner))
        /\ active[owner] <= MaxSessions /\ MaxSessions \in Nat
    BY DEF ListInv, ConstantsAssumption
  <2>2. IsFiniteSet(Of(owner))
    BY <1>2, FiniteHandles DEF Of, Live
  <2>3. CASE owner = s.owner
    <3>1. Of(owner)' = Of(owner) \cup {h}
      BY <1>2, <1>4, <1>6, <2>3 DEF Of
    <3>2. h \notin Of(owner)
      BY <1>5 DEF Of
    <3>3. active'[owner] = active[owner] + 1
      BY <1>2, <1>3, <2>3
    <3>4. Cardinality(Of(owner) \cup {h}) = Cardinality(Of(owner)) + 1
      BY <2>2, <3>2, FS_AddElement
    <3> QED
      BY <1>1, <2>1, <2>3, <3>1, <3>3, <3>4
  <2>4. CASE owner # s.owner
    <3>1. Of(owner)' = Of(owner)
      BY <1>2, <1>4, <1>6, <2>4 DEF Of
    <3>2. active'[owner] = active[owner]
      BY <1>1, <1>2, <1>3, <2>4
    <3> QED
      BY <2>1, <3>1, <3>2
  <2> QED
    BY <2>3, <2>4
<1>8. active' \in [Owners -> Nat]
  <2>1. active' \in [Owners -> Int] /\ active[s.owner] + 1 \in Nat
    BY <1>1, <1>2, <1>3
  <2> QED
    BY <1>7, <2>1
<1>9. Elements(list)' \subseteq Live'
  BY <1>2, <1>4, <1>6
<1> QED
  BY <1>4, <1>6, <1>7, <1>8, <1>9 DEF ListInv

\* Removing sessions from the list and giving back their counts, too.
LEMMA FewerKeep ==
    ASSUME ConstantsAssumption, ListInv, SameOwners, NEW gone \in SUBSET Elements(list),
           Live' = Live \ gone,
           list' \in Seq(Handles), Once(list'), Elements(list') = Elements(list) \ gone,
           active' = [owner \in Owners |->
             active[owner] - Cardinality({h \in gone : session[h].owner = owner})]
    PROVE  ListInv'
<1>1. /\ Elements(list) \subseteq Live /\ active \in [Owners -> Nat] /\ Live \subseteq Handles
      /\ list \in Seq(Handles)
  BY DEF ListInv, Live
<1>2. ASSUME NEW owner \in Owners
      PROVE  /\ active'[owner] \in Nat
             /\ active'[owner] = Cardinality(Of(owner)')
             /\ active'[owner] <= MaxSessions
  <2> DEFINE out == {h \in gone : session[h].owner = owner}
  <2>1. /\ active[owner] \in Nat /\ active[owner] = Cardinality(Of(owner))
        /\ active[owner] <= MaxSessions /\ MaxSessions \in Nat
    BY DEF ListInv, ConstantsAssumption
  <2>2. Of(owner)' = Of(owner) \ out
    BY <1>1 DEF Of, SameOwners
  <2>3. out \subseteq Of(owner) /\ IsFiniteSet(Of(owner))
    BY <1>1, FiniteHandles DEF Of
  <2>4. /\ Cardinality(Of(owner) \ out) = Cardinality(Of(owner)) - Cardinality(Of(owner) \cap out)
        /\ IsFiniteSet(Of(owner) \ out)
    BY <2>3, FS_Difference
  <2>5. Of(owner) \cap out = out
    BY <2>3
  <2>6. active'[owner] = active[owner] - Cardinality(out)
    OBVIOUS
  <2>7. Cardinality(out) \in Nat /\ Cardinality(Of(owner) \ out) \in Nat
    BY <2>3, <2>4, FS_Subset, FS_CardinalityType
  <2> HIDE DEF out
  <2>8. Cardinality(Of(owner)') = Cardinality(Of(owner) \ out)
    BY <2>2
  <2>9. Cardinality(Of(owner) \ out) = Cardinality(Of(owner)) - Cardinality(out)
    BY <2>4, <2>5
  <2>10. active'[owner] = Cardinality(Of(owner)')
    BY <2>1, <2>6, <2>8, <2>9
  <2>11. active'[owner] \in Nat /\ active'[owner] <= MaxSessions
    BY <2>1, <2>6, <2>7, <2>8, <2>10
  <2> QED
    BY <2>10, <2>11
<1>3. active' \in [Owners -> Nat]
  BY <1>2
<1>4. Elements(list') \subseteq Live'
  BY <1>1
<1> QED
  BY <1>2, <1>3, <1>4 DEF ListInv, SameOwners

\* One of them.
LEMMA RemovedKeeps ==
    ASSUME ConstantsAssumption, ListInv, NEW h, Removed(h)
    PROVE  ListInv' /\ Elements(list') = Elements(list) \ {h} /\ Live' = Live \ {h}
<1>1. /\ h \in Elements(list) /\ SameOwners /\ Live' = Live \ {h}
      /\ list' = RemoveAt(list, Position(h))
      /\ active' = [active EXCEPT ![session[h].owner] = @ - 1]
  BY DEF Removed
<1>2. /\ list \in Seq(Handles) /\ Once(list) /\ active \in [Owners -> Nat]
      /\ Position(h) \in 1 .. Len(list) /\ list[Position(h)] = h
      /\ session[h].owner \in Owners
  BY <1>1, ListedIs DEF ListInv
<1>3. list' \in Seq(Handles) /\ Once(list') /\ Elements(list') = Elements(list) \ {h}
  BY <1>1, <1>2, RemoveAtIs, RemovedOnce
<1>4. \A owner \in Owners :
          Cardinality({g \in {h} : session[g].owner = owner})
              = IF owner = session[h].owner THEN 1 ELSE 0
  <2>1. \A owner \in Owners :
            {g \in {h} : session[g].owner = owner}
                = IF owner = session[h].owner THEN {h} ELSE {}
    OBVIOUS
  <2> QED
    BY <2>1, FS_EmptySet, FS_Singleton
<1>5. active' = [owner \in Owners |->
          active[owner] - Cardinality({g \in {h} : session[g].owner = owner})]
  <2>1. active' \in [Owners -> Int]
    BY <1>1, <1>2
  <2>2. \A owner \in Owners :
            active'[owner] = active[owner]
                - (IF owner = session[h].owner THEN 1 ELSE 0)
    BY <1>1, <1>2
  <2> QED
    BY <1>4, <2>1, <2>2
<1> QED
  BY ZenonT(60), <1>1, <1>3, <1>5, FewerKeep

\* Or the first ones.
LEMMA CutKeeps ==
    ASSUME ConstantsAssumption, ListInv, NEW n, Cut(n)
    PROVE  /\ ListInv'
           /\ First(n) \subseteq Elements(list)
           /\ Elements(list') = Elements(list) \ First(n)
           /\ Live' = Live \ First(n)
<1>1. list \in Seq(Handles) /\ Once(list) /\ Len(list) \in Nat /\ n \in 0 .. Len(list)
  BY LenProperties DEF ListInv, Cut
<1>2. First(n) \subseteq Elements(list)
  BY <1>1 DEF First, Elements
<1>3. list' \in Seq(Handles) /\ Once(list') /\ Elements(list') = Elements(list) \ First(n)
  BY SMTT(30), <1>1, CutOnce DEF Cut, First
<1> QED
  BY <1>2, <1>3, FewerKeep DEF Cut

\* Without sessions there is nothing to disagree about.
LEMMA ForgottenKeeps ==
    ASSUME ConstantsAssumption, ListInv, Forgotten
    PROVE  ListInv'
<1>1. list' \in Seq(Handles) /\ Once(list') /\ Elements(list') = {}
  BY EmptySeq DEF Forgotten, Once, Elements
<1>2. /\ active' \in [Owners -> Nat] /\ \A owner \in Owners : active'[owner] = 0
      /\ MaxSessions \in Nat
  BY DEF Forgotten, ConstantsAssumption
<1>3. \A owner \in Owners : Of(owner)' = {}
  BY <1>1 DEF Of
<1>4. \A owner \in Owners : Cardinality(Of(owner)') = 0
  BY <1>3, FS_EmptySet
<1>5. session' = session
  BY DEF Forgotten
<1> QED
  BY <1>1, <1>2, <1>4, <1>5 DEF ListInv

\* So every treatment keeps list and counts in agreement, and unless there are
\* starts, the memory of the sessions.
LEMMA TreatedKeeps ==
    ASSUME ConstantsAssumption, ListInv, Treated
    PROVE  /\ ListInv'
           /\ "start" \notin Calls /\ Live = Elements(list) => Live' = Elements(list')
<1> DEFINE Agrees ==
             "start" \notin Calls /\ Live = Elements(list) => Live' = Elements(list')
<1>1. CASE Revised
  BY <1>1, RevisedKeeps DEF Revised
<1>2. ASSUME NEW h, NEW s, Added(h, s)
      PROVE  ListInv' /\ Agrees
  BY <1>2, AddedKeeps
<1>3. ASSUME NEW h, Removed(h)
      PROVE  ListInv' /\ Agrees
  BY <1>3, RemovedKeeps
<1>4. ASSUME NEW n, Cut(n)
      PROVE  ListInv' /\ Agrees
  BY <1>4, CutKeeps
<1>5. CASE Forgotten
  BY <1>5, ForgottenKeeps DEF Forgotten
<1> QED
  BY <1>1, <1>2, <1>3, <1>4, <1>5 DEF Treated

-----------------------------------------------------------------------------
\* Where a pass over the list begins.
LEMMA FromIs ==
    ASSUME ListInv, InList(current)
    PROVE  /\ Len(list) \in Nat /\ From \in Nat
           /\ From .. Len(list) \subseteq 1 .. Len(list)
<1>1. Len(list) \in Nat
  BY LenProperties DEF ListInv
<1>2. CASE current = NoHandle
  BY <1>1, <1>2 DEF From
<1>3. CASE current # NoHandle
  <2>1. Position(current) \in 1 .. Len(list)
    BY <1>3, ListedIs DEF InList
  <2> QED
    BY <1>1, <1>3, <2>1 DEF From
<1> QED
  BY <1>2, <1>3

\* The first of those that wait is in the list.
LEMMA WaitingIs ==
    ASSUME ListInv, InList(current), NEW states
    PROVE  /\ Waiting(states) \subseteq 1 .. Len(list)
           /\ Waiting(states) # {} => Min(Waiting(states)) \in Waiting(states)
<1> DEFINE W == Waiting(states)
<1>1. Len(list) \in Nat /\ From .. Len(list) \subseteq 1 .. Len(list)
  BY FromIs
<1>2. W \subseteq 1 .. Len(list)
  BY <1>1 DEF Waiting
<1>3. IsFiniteSet(1 .. Len(list)) /\ 1 .. Len(list) \subseteq Nat
  BY <1>1, FS_Interval
<1> HIDE DEF W
<1>4. IsFiniteSet(W) /\ W \in SUBSET Nat
  BY <1>2, <1>3, FS_Subset
<1>5. W # {} => Min(W) \in W
  BY <1>4, MinOf
<1> QED
  BY <1>2, <1>5 DEF W

\* The session whose turn it is is in the list.
LEMMA TurnListed ==
    ASSUME ListInv, InList(current), NEW h, Turn(h)
    PROVE  h \in Elements(list)
BY WaitingIs DEF Turn, Elements

\* The one after it, if there is one.
LEMMA NextListed ==
    ASSUME ListInv, NEW h \in Elements(list)
    PROVE  Next_(h) \in (Elements(list) \ {h}) \cup {NoHandle}
<1>1. /\ Position(h) \in 1 .. Len(list) /\ list[Position(h)] = h
      /\ Once(list) /\ Len(list) \in Nat
  BY ListedIs, LenProperties DEF ListInv
<1>2. CASE Position(h) < Len(list)
  <2>1. Position(h) + 1 \in 1 .. Len(list) /\ Position(h) + 1 # Position(h)
    BY <1>1, <1>2
  <2>2. list[Position(h) + 1] # h
    BY <1>1, <2>1 DEF Once
  <2> QED
    BY <1>2, <2>1, <2>2 DEF Next_, Elements
<1>3. CASE ~(Position(h) < Len(list))
  BY <1>3 DEF Next_
<1> QED
  BY <1>2, <1>3

\* How a turn ends.
LEMMA EndTurnIs ==
    ASSUME NEW h, EndTurn(h)
    PROVE  /\ pc' = "pending"
           /\ \/ current' = Next_(h) /\ fault' = fault
              \/ /\ session'[h] = Free /\ FreedIntact # TRUE
                 /\ fault' = "read_freed" /\ current' = current
BY DEF EndTurn

\* The sessions the pass goes over stay what they are.
LEMMA AfterPassSound ==
    ASSUME ListInv, InList(current)
    PROVE  /\ AfterPass \in [Handles -> Session \cup {Free}]
           /\ \A h \in Handles \ Live : AfterPass[h] = Free
           /\ \A h \in Live : Sound(AfterPass[h], session[h])
<1>1. PassedOver \subseteq Elements(list)
  <2>1. From .. Len(list) \subseteq 1 .. Len(list) /\ Len(list) \in Nat /\ From \in Nat
    BY FromIs
  <2> DEFINE W == Waiting(PhaseStates)
             last == IF W = {} THEN Len(list) ELSE Min(W)
  <2>4. last \in Nat /\ last <= Len(list)
    <3>1. W \subseteq 1 .. Len(list) /\ (W # {} => Min(W) \in W)
      BY WaitingIs
    <3> HIDE DEF W
    <3>2. CASE W = {}
      BY <2>1, <3>2
    <3>3. CASE W # {}
      <4>1. Min(W) \in 1 .. Len(list) /\ last = Min(W)
        BY <3>1, <3>3
      <4> QED
        BY <2>1, <4>1
    <3> QED
      BY <3>2, <3>3
  <2>5. PassedOver \subseteq {list[i] : i \in From .. last}
    BY DEF PassedOver
  <2> HIDE DEF last, W
  <2>6. From .. last \subseteq 1 .. Len(list)
    BY <2>1, <2>4
  <2> QED
    BY <2>5, <2>6 DEF Elements
<1>2. PassedOver \subseteq Live
  BY <1>1 DEF ListInv
<1>3. ASSUME NEW s \in Session
      PROVE  Sound([s EXCEPT !.st = "error", !.error = "timeout"], s)
  BY DEF Sound, Session, RecvStates
<1>4. ASSUME NEW h \in Live
      PROVE  Sound(AfterPass[h], session[h])
  <2>1. h \in Handles /\ session[h] \in Session
    BY DEF ListInv, Live
  <2>2. Sound([session[h] EXCEPT !.st = "error", !.error = "timeout"], session[h])
    BY <1>3, <2>1
  <2>3. Sound(session[h], session[h])
    BY <2>1 DEF Sound
  <2>4. AfterPass[h] \in {session[h],
                          [session[h] EXCEPT !.st = "error", !.error = "timeout"]}
    BY <2>1 DEF AfterPass
  <2> QED
    BY <2>2, <2>3, <2>4 DEF Sound
<1>5. ASSUME NEW h \in Handles \ Live
      PROVE  AfterPass[h] = Free
  BY <1>2 DEF AfterPass, Live
<1>6. AfterPass \in [Handles -> Session \cup {Free}]
  <2>1. \A h \in Handles : AfterPass[h] \in Session \cup {Free}
    BY <1>4, <1>5 DEF Sound
  <2>2. DOMAIN AfterPass = Handles /\ AfterPass = [h \in Handles |-> AfterPass[h]]
    BY DEF AfterPass
  <2> HIDE DEF AfterPass
  <2> QED
    BY <2>1, <2>2
<1> QED
  BY <1>4, <1>5, <1>6

\* A step keeps the sessions, the turn and the memory in order.
Proceeds ==
    /\ Treated
    /\ TurnInv'
    /\ FreedIntact = TRUE => fault' # "read_freed"

\* When nothing is wrong, the next step may be taken.
Ready ==
    /\ ConstantsAssumption
    /\ ListInv
    /\ InList(current)
    /\ fault = "none"

\* Nothing happens to the sessions.
LEMMA StayProceeds ==
    ASSUME Ready, UNCHANGED listVars, fault' # "read_freed"
    PROVE  Proceeds
<1>1. Revised
  BY DEF Ready, ListInv, Revised, SameOwners, listVars, Live
<1>2. InList(current)'
  BY DEF Ready, InList, listVars
<1> QED
  BY <1>1, <1>2 DEF Proceeds, Treated, TurnInv

\* One session changes, perhaps after the pass over the list.
LEMMA OneRevised ==
    ASSUME Ready, NEW o \in Live, NEW s, Sound(s, session[o]),
           NEW base \in {session, AfterPass},
           session' = [base EXCEPT ![o] = s], list' = list, active' = active
    PROVE  Revised /\ session'[o] = s
<1>1. o \in Handles
  BY DEF Live
<1>2. /\ base \in [Handles -> Session \cup {Free}]
      /\ \A g \in Handles \ Live : base[g] = Free
      /\ \A g \in Live : Sound(base[g], session[g])
  <2>1. CASE base = session
    BY <2>1 DEF Ready, ListInv, Live, Sound
  <2>2. CASE base = AfterPass
    BY <2>2, AfterPassSound DEF Ready
  <2> QED
    BY <2>1, <2>2
<1>3. session'[o] = s /\ \A g \in Handles \ {o} : session'[g] = base[g]
  BY <1>1, <1>2
<1>4. s \in Session /\ s # Free /\ s.owner = session[o].owner
  BY FreeIsNoSession DEF Sound
<1>5. session' \in [Handles -> Session \cup {Free}]
  BY <1>2, <1>4
<1>6. Live' = Live
  BY <1>1, <1>2, <1>3, <1>4, FreeIsNoSession DEF Live, Sound
<1>7. \A g \in Live' : g \in Live /\ session'[g].owner = session[g].owner
  BY <1>2, <1>3, <1>4, <1>6 DEF Sound, Live
<1> QED
  BY <1>3, <1>5, <1>6, <1>7 DEF Revised, SameOwners

\* Sessions change and the turn goes on.
LEMMA RevisedProceeds ==
    ASSUME Ready, Revised, NEW h \in Elements(list), EndTurn(h)
    PROVE  Proceeds
<1>1. h \in Handles /\ h \in Live
  BY ListedIs DEF Ready
<1>2. session'[h] # Free
  BY <1>1 DEF Revised, Live
<1>3. current' = Next_(h) /\ fault' = fault
  BY <1>2, EndTurnIs
<1>4. InList(current)'
  BY <1>3, NextListed DEF InList, Revised, Ready
<1> QED
  BY <1>3, <1>4 DEF Proceeds, Treated, TurnInv, Ready

\* A session changes in its turn, and its owner may be told something.
LEMMA BecomesProceeds ==
    ASSUME Ready, NEW h \in Elements(list), NEW s, NEW says,
           Sound(s, session[h]), Becomes(h, s, says)
    PROVE  Proceeds
<1>1. h \in Live
  BY ListedIs DEF Ready
<1>2. session' = [AfterPass EXCEPT ![h] = s] /\ list' = list /\ active' = active /\ EndTurn(h)
  BY DEF Becomes
<1>3. Revised
  BY <1>1, <1>2, OneRevised
<1> QED
  BY <1>2, <1>3, RevisedProceeds

\* The turn of a session that ends.
LEMMA CompleteProceeds ==
    ASSUME Ready, NEW h \in Elements(list), HandleComplete(h)
    PROVE  Proceeds
<1>0. ListInv /\ InList(current) /\ fault = "none"
  BY DEF Ready
<1>1. h \in Handles /\ h \in Live /\ session[h] \in Session
  BY <1>0, ListedIs
<1>2. /\ AfterPass \in [Handles -> Session \cup {Free}]
      /\ \A g \in Handles \ Live : AfterPass[g] = Free
      /\ \A g \in Live : Sound(AfterPass[g], session[g])
  BY <1>0, AfterPassSound
<1>3. /\ session' = [AfterPass EXCEPT ![h] = Free]
      /\ list' = RemoveAt(list, Position(h))
      /\ active' = [active EXCEPT ![session[h].owner] = @ - 1]
      /\ EndTurn(h)
  BY DEF HandleComplete
<1>4. session'[h] = Free /\ \A g \in Handles \ {h} : session'[g] = AfterPass[g]
  BY <1>1, <1>2, <1>3
<1>5. session' \in [Handles -> Session \cup {Free}]
  BY <1>2, <1>3
<1>6. Live' = Live \ {h}
  BY <1>1, <1>2, <1>4, FreeIsNoSession DEF Live, Sound
<1>7. \A g \in Live' : g \in Live /\ session'[g].owner = session[g].owner
  BY <1>2, <1>4, <1>6 DEF Sound, Live
<1>8. Removed(h)
  BY <1>3, <1>5, <1>6, <1>7 DEF Removed, SameOwners
<1>9. Elements(list') = Elements(list) \ {h}
  <2>1. /\ list \in Seq(Handles) /\ Once(list)
        /\ Position(h) \in 1 .. Len(list) /\ list[Position(h)] = h
    BY <1>0, ListedIs DEF ListInv
  <2> QED
    BY <1>3, <2>1, RemovedOnce
<1>10. Next_(h) \in (Elements(list) \ {h}) \cup {NoHandle}
  BY <1>0, NextListed
<1>11. TurnInv' /\ (FreedIntact = TRUE => fault' # "read_freed")
  <2>1. CASE current' = Next_(h) /\ fault' = fault
    BY <1>0, <1>9, <1>10, <2>1 DEF TurnInv, InList
  <2>2. CASE fault' = "read_freed" /\ FreedIntact # TRUE /\ current' = current
    BY <1>0, <2>2, ListedIs DEF TurnInv, InList
  <2> QED
    BY <1>3, <2>1, <2>2, EndTurnIs
<1> QED
  BY <1>8, <1>11 DEF Proceeds, Treated

-----------------------------------------------------------------------------
\* The receive phase.

\* Where the message goes that was passed to the user.
LEMMA NextPathIs == \A s : NextPath(s) \in SendStates \cup RecvStates
BY DEF NextPath, SendStates, RecvStates

\* The session that changed twice is still that of its owner.
LEMMA SoundTwice ==
    ASSUME NEW r, NEW s, NEW t, Sound(s, r), Sound(t, s)
    PROVE  Sound(t, r)
BY DEF Sound

\* The end of sm_pass_user_data.
LEMMA PassedOnProceeds ==
    ASSUME Ready, NEW h \in Elements(list), NEW s, Sound(s, session[h]), NEW says, NEW answer,
           PassedOn(h, s, says, answer)
    PROVE  Proceeds
<1> DEFINE e == SwitchPath(s, NextPath(s), answer)
           ok == s.error \in {"none", "complete"}
           n  == IF s.last THEN s.processed ELSE s.processed + 1
           st == IF ok THEN s.st ELSE "error"
           err == s.err \/ ~ok
<1>1. s \in Session
  BY DEF Sound
<1>2. Sound(e.s, session[h])
  BY <1>1, NextPathIs, SwitchPathSound, SoundTwice
<1>3. n \in Nat /\ st \in SendStates \cup RecvStates
  BY <1>1 DEF Session, RecvStates
<1>4. err \in BOOLEAN
  OBVIOUS
<1>5. ASSUME NEW b \in BOOLEAN
      PROVE  Sound([s EXCEPT !.processed = n, !.st = st, !.err = b], session[h])
  <2> HIDE DEF n, st
  <2> QED
    BY <1>1, <1>3 DEF Sound, Session
<1>6. \/ Becomes(h, e.s, says \o e.says)
      \/ Becomes(h, [s EXCEPT !.processed = n, !.st = st, !.err = err], says)
  BY DEF PassedOn
<1> HIDE DEF e, n, st, err
<1>7. CASE Becomes(h, e.s, says \o e.says)
  BY <1>2, <1>7, BecomesProceeds
<1>8. CASE Becomes(h, [s EXCEPT !.processed = n, !.st = st, !.err = err], says)
  BY <1>4, <1>5, <1>8, BecomesProceeds
<1> QED
  BY <1>6, <1>7, <1>8

\* A callback of the user failed.
LEMMA PassFailedProceeds ==
    ASSUME Ready, NEW h \in Elements(list), NEW s, Sound(s, session[h]), NEW says,
           PassFailed(h, s, says)
    PROVE  Proceeds
<1>1. Sound([s EXCEPT !.error = "cancel", !.st = "error", !.err = TRUE], session[h])
  BY DEF Sound, Session, RecvStates
<1> QED
  BY <1>1, BecomesProceeds DEF PassFailed

\* sm_process_data_request.
LEMMA DataRequestProceeds ==
    ASSUME Ready, NEW h \in Elements(list), NEW s, Sound(s, session[h]), NEW take, NEW answer,
           take \in {"continue", "busy", "error"}, DataRequest(h, s, take, answer)
    PROVE  Proceeds
<1>1. /\ Sound([s EXCEPT !.error = "complete", !.target = TRUE], session[h])
      /\ Sound([s EXCEPT !.target = TRUE, !.ctx = TRUE], session[h])
  BY DEF Sound, Session
<1>2. \/ PassedOn(h, s, << >>, answer)
      \/ Becomes(h, s, << >>)
      \/ PassedOn(h, [s EXCEPT !.error = "complete", !.target = TRUE], << >>, answer)
      \/ Becomes(h, [s EXCEPT !.target = TRUE, !.ctx = TRUE], << >>)
  BY DEF DataRequest
<1> QED
  BY <1>1, <1>2, PassedOnProceeds, BecomesProceeds

\* The error of a response is forgotten.
LEMMA ForgivenSound ==
    ASSUME NEW r, NEW s, Sound(s, r)
    PROVE  Sound(Forgiven(s), r)
<1>1. Sound([s EXCEPT !.err = FALSE, !.error = "none"], r)
  BY DEF Sound, Session
<1> QED
  BY <1>1 DEF Forgiven

\* sm_process_data_response.
LEMMA DataResponseProceeds ==
    ASSUME Ready, NEW h \in Elements(list), NEW s, Sound(s, session[h]), NEW take, NEW answer,
           take \in {"continue", "busy", "error"}, DataResponse(h, s, take, answer)
    PROVE  Proceeds
<1>1. Sound(Forgiven(s), session[h])
  BY ForgivenSound
<1>2. PICK says : \/ Becomes(h, s, << >>)
                  \/ PassFailed(h, Forgiven(s), says)
                  \/ PassedOn(h, Forgiven(s), says, answer)
  BY DEF DataResponse
<1> QED
  BY <1>1, <1>2, PassedOnProceeds, BecomesProceeds, PassFailedProceeds

\* sm_process_ping_response.
LEMMA PingResponseProceeds ==
    ASSUME Ready, NEW h \in Elements(list), NEW s, Sound(s, session[h]), NEW answer,
           PingResponse(h, s, answer)
    PROVE  Proceeds
<1>1. Sound(Forgiven(s), session[h])
  BY ForgivenSound
<1>2. \/ Becomes(h, s, << >>)
      \/ PassedOn(h, Forgiven(s), <<StatusOf(s)>>, answer)
  BY DEF PingResponse
<1> QED
  BY <1>1, <1>2, PassedOnProceeds, BecomesProceeds

\* sm_process_ping_request and sm_process_opaque_response.
LEMMA OtherPayloadProceeds ==
    ASSUME Ready, NEW h \in Elements(list), NEW s, Sound(s, session[h]), NEW take, NEW answer,
           take \in {"continue", "busy", "error"}, OtherPayload(h, s, take, answer)
    PROVE  Proceeds
<1>1. \/ Becomes(h, s, << >>)
      \/ PassFailed(h, s, << >>)
      \/ PassedOn(h, s, << >>, answer)
  BY DEF OtherPayload
<1> QED
  BY <1>1, PassedOnProceeds, BecomesProceeds, PassFailedProceeds

\* sm_process_payload.
LEMMA ProcessPayloadProceeds ==
    ASSUME Ready, NEW h \in Elements(list), NEW take, NEW answer,
           take \in {"continue", "busy", "error"}, ProcessPayload(h, take, answer)
    PROVE  Proceeds
<1> DEFINE last == \/ session[h].last
                   \/ ~session[h].multi
                   \/ session[h].processed + 1 = session[h].count
           s    == [session[h] EXCEPT !.last = last]
<1>1. ASSUME NEW b \in BOOLEAN
      PROVE  Sound([session[h] EXCEPT !.last = b], session[h])
  <2>1. session[h] \in Session
    BY ListedIs DEF Ready
  <2> QED
    BY <2>1 DEF Sound, Session
<1>2. last \in BOOLEAN
  OBVIOUS
<1> HIDE DEF last
<1>3. Sound(s, session[h])
  BY <1>1, <1>2
<1>4. \/ fault' = "no_payload" /\ UNCHANGED listVars
      \/ DataRequest(h, s, take, answer)
      \/ DataResponse(h, s, take, answer)
      \/ PingResponse(h, s, answer)
      \/ OtherPayload(h, s, take, answer)
  BY DEF ProcessPayload, last
<1> HIDE DEF s
<1>5. CASE fault' = "no_payload" /\ UNCHANGED listVars
  BY <1>5, StayProceeds
<1> QED
  BY <1>3, <1>4, <1>5, DataRequestProceeds, DataResponseProceeds, PingResponseProceeds,
     OtherPayloadProceeds

\* sm_handle_error.
LEMMA HandleErrorProceeds ==
    ASSUME Ready, NEW h \in Elements(list), NEW answer, HandleError(h, answer)
    PROVE  Proceeds
<1> DEFINE s    == [session[h] EXCEPT !.err = TRUE]
           next == IF s.owner = "cloud" /\ ~s.resp THEN "send_data" ELSE "complete"
           e    == IF s.ctx THEN Informed(s, answer) ELSE Effect(s, << >>, FALSE)
           f    == SwitchPath(e.s, next, answer)
<1>1. Sound(s, session[h])
  <2>1. session[h] \in Session
    BY ListedIs DEF Ready
  <2> QED
    BY <2>1 DEF Sound, Session
<1>2. next \in SendStates \cup RecvStates
  BY DEF SendStates, RecvStates
<1>3. \/ Becomes(h, e.s, << >>)
      \/ Becomes(h, f.s, e.says \o f.says)
  BY DEF HandleError
<1> HIDE DEF s, next
<1>4. Sound(e.s, session[h])
  <2>1. Sound(Informed(s, answer).s, s)
    BY <1>1, InformedSound DEF Sound
  <2>2. Effect(s, << >>, FALSE).s = s
    BY DEF Effect
  <2>3. e = Informed(s, answer) \/ e = Effect(s, << >>, FALSE)
    OBVIOUS
  <2> HIDE DEF e
  <2> QED
    BY <1>1, <2>1, <2>2, <2>3 DEF Sound
<1> HIDE DEF e
<1>5. Sound(f.s, session[h])
  BY <1>2, <1>4, SwitchPathSound DEF Sound
<1> HIDE DEF f
<1> QED
  BY <1>3, <1>4, <1>5, BecomesProceeds

\* The turn of a session in the receive phase.
LEMMA ReceivePhaseProceeds ==
    ASSUME Ready, NEW h, NEW take \in TakeAnswers, NEW answer, ReceivePhase(h, take, answer)
    PROVE  Proceeds
<1>1. h \in Elements(list)
  BY TurnListed DEF ReceivePhase, ReceiveTurn, Ready
<1>2. take \in {"continue", "busy", "error"}
  BY DEF Ready, ConstantsAssumption
<1>3. \/ ProcessPayload(h, take, answer)
      \/ HandleError(h, answer)
      \/ HandleComplete(h)
  BY DEF ReceivePhase, ReceiveTurn
<1> QED
  BY <1>1, <1>2, <1>3, ProcessPayloadProceeds, HandleErrorProceeds, CompleteProceeds

-----------------------------------------------------------------------------
\* The send phase.

\* What the packet buffer may hold.
Packets == [owner: Handles, of: Talks, id: Ids, seg: Nat, client: BOOLEAN]

\* What Device Cloud may know of a message.
Known == [phase: {"idle", "asked", "answered"}, id: Ids, got: SUBSET Nat]

\* The buffer, the datagrams under way and Device Cloud.
NetInv ==
    /\ packet \in Packets \cup {NoPacket}
    /\ net \subseteq Datagram
    /\ cloud \in [Talks -> Known]

\* The buffer is either empty or filled.
LEMMA NoPacketIs == NoPacket \notin Packets
<1>1. ASSUME NoPacket \in Packets
      PROVE  FALSE
  <2>1. NoPacket.owner \in 1 .. MaxMemory
    BY <1>1 DEF Packets, Handles
  <2>2. NoPacket.owner = 0
    BY DEF NoPacket, NoHandle
  <2> QED
    BY <2>1, <2>2
<1> QED
  BY <1>1

\* A session whose turn it is fills the buffer.
LEMMA PacketTyped ==
    ASSUME ListInv, NEW h \in Elements(list)
    PROVE  Packet(h) \in Packets
<1>1. h \in Handles /\ session[h] \in Session
  BY ListedIs
<1>2. /\ session[h].of \in Talks /\ session[h].id \in Ids /\ session[h].processed \in Nat
      /\ (session[h].owner = "client") \in BOOLEAN
  BY <1>1 DEF Session
<1> QED
  BY <1>1, <1>2 DEF Packet, Packets

\* A datagram reaches Device Cloud.
LEMMA ArrivesTyped ==
    ASSUME cloud \in [Talks -> Known], NEW p \in Packets, Arrives(p)
    PROVE  cloud' \in [Talks -> Known]
<1>1. p.of \in Talks /\ p.id \in Ids /\ p.seg \in Nat
  BY DEF Packets
<1>2. cloud[p.of] \in Known
  BY <1>1
<1> DEFINE got == cloud[p.of].got \cup {p.seg}
           k1  == [cloud[p.of] EXCEPT !.id = p.id, !.got = got]
           k2  == [cloud[p.of] EXCEPT !.phase = "answered"]
<1>3. got \in SUBSET Nat
  BY <1>1, <1>2 DEF Known
<1>4. k1 \in Known /\ k2 \in Known
  <2> HIDE DEF got
  <2> QED
    BY <1>1, <1>2, <1>3 DEF Known
<1>5. cloud' = [cloud EXCEPT ![p.of] = k1] \/ cloud' = [cloud EXCEPT ![p.of] = k2]
  <2>1. CASE p.client
    <3>1. cloud' = [cloud EXCEPT ![p.of].id = p.id, ![p.of].got = @ \cup {p.seg}]
      BY <2>1 DEF Arrives
    <3> QED
      BY <3>1, <1>1, <1>2 DEF Known
  <2>2. CASE ~p.client
    BY <2>2 DEF Arrives
  <2> QED
    BY <2>1, <2>2
<1> HIDE DEF k1, k2
<1> QED
  BY <1>1, <1>4, <1>5

\* sm_send_segment.
LEMMA SendSegmentProceeds ==
    ASSUME Ready, NetInv, NEW h \in Elements(list), NEW p \in Packets, NEW answer,
           SendSegment(h, p, answer)
    PROVE  Proceeds /\ packet' \in {packet, p, NoPacket} /\ cloud' \in [Talks -> Known]
<1> DEFINE o    == p.owner
           s    == [session[o] EXCEPT !.processed = @ + 1]
           next == IF s.resp THEN "complete" ELSE "receive_data"
           e    == IF s.processed = s.count THEN SwitchPath(s, next, answer)
                   ELSE Effect(s, << >>, FALSE)
<1>1. CASE ~Owned(p)
  <2>1. fault' = "freed_owner" /\ UNCHANGED <<listVars, packet, cloud>>
    BY <1>1 DEF SendSegment
  <2> QED
    BY <2>1, StayProceeds DEF NetInv
<1>2. CASE Owned(p)
  <2>1. /\ session' = [session EXCEPT ![o] = e.s]
        /\ packet' = IF e.busy THEN p ELSE NoPacket
        /\ (cloud' = cloud \/ Arrives(p))
        /\ EndTurn(h)
        /\ list' = list /\ active' = active
    BY <1>2 DEF SendSegment
  <2>2. o \in Live /\ session[o] \in Session
    BY <1>2 DEF Owned, Live, Packets, Ready, ListInv
  <2>3. s \in Session /\ Sound(s, session[o])
    <3>1. session[o].processed + 1 \in Nat
      BY <2>2 DEF Session
    <3> QED
      BY <2>2, <3>1 DEF Session, Sound
  <2>4. next \in SendStates \cup RecvStates
    BY DEF SendStates, RecvStates
  <2> HIDE DEF s, next
  <2>5. Sound(e.s, session[o])
    <3>1. Sound(SwitchPath(s, next, answer).s, s)
      BY <2>3, <2>4, SwitchPathSound
    <3>2. Effect(s, << >>, FALSE).s = s
      BY DEF Effect
    <3>3. e = SwitchPath(s, next, answer) \/ e = Effect(s, << >>, FALSE)
      OBVIOUS
    <3> HIDE DEF e
    <3> QED
      BY <2>3, <3>1, <3>2, <3>3 DEF Sound
  <2> HIDE DEF e, o
  <2>6. Revised
    BY <2>1, <2>2, <2>5, OneRevised
  <2>7. Proceeds
    BY <2>1, <2>6, RevisedProceeds
  <2>8. cloud' \in [Talks -> Known]
    BY <2>1, ArrivesTyped DEF NetInv
  <2> QED
    BY <2>1, <2>7, <2>8
<1> QED
  BY <1>1, <1>2

\* sm_send_data.
LEMMA SendDataProceeds ==
    ASSUME Ready, NetInv, NEW h \in Elements(list), NEW network, NEW answer,
           SendData(h, network, answer)
    PROVE  /\ Proceeds
           /\ packet' \in Packets \cup {NoPacket} /\ cloud' \in [Talks -> Known]
<1> DEFINE p == IF packet = NoPacket THEN Packet(h) ELSE packet
<1>1. p \in Packets
  BY PacketTyped DEF NetInv, Ready
<1>2. \/ fault' = "no_segment" /\ UNCHANGED <<listVars, packet, cloud>>
      \/ Becomes(h, session[h], << >>) /\ packet' = p /\ cloud' = cloud
      \/ SendSegment(h, p, answer)
  BY DEF SendData
<1> HIDE DEF p
<1>3. CASE fault' = "no_segment" /\ UNCHANGED <<listVars, packet, cloud>>
  BY <1>3, StayProceeds DEF NetInv
<1>4. CASE Becomes(h, session[h], << >>) /\ packet' = p /\ cloud' = cloud
  <2>1. Sound(session[h], session[h])
    BY ListedIs DEF Ready, Sound
  <2> QED
    BY <1>1, <1>4, <2>1, BecomesProceeds DEF NetInv
<1>5. CASE SendSegment(h, p, answer)
  BY <1>1, <1>5, SendSegmentProceeds DEF NetInv
<1> QED
  BY <1>2, <1>3, <1>4, <1>5

\* sm_prepare_payload.
LEMMA PreparePayloadProceeds ==
    ASSUME Ready, NEW h \in Elements(list), PreparePayload(h)
    PROVE  Proceeds
<1> DEFINE s  == session[h]
           s1 == [s EXCEPT !.data = TRUE, !.st = "more_data"]
           s2 == [s EXCEPT !.data = TRUE, !.st = "error", !.err = TRUE]
           s3 == [s EXCEPT !.error = "no_resource"]
<1>1. s \in Session
  BY ListedIs DEF Ready
<1>2. Sound(s1, s) /\ Sound(s2, s) /\ Sound(s3, s)
  BY <1>1 DEF Sound, Session, SendStates, RecvStates
<1>3. \/ Becomes(h, s1, << >>)
      \/ Becomes(h, s2, << >>)
      \/ Becomes(h, s3, << >>)
      \/ fault' = "buffer_in_use" /\ UNCHANGED listVars
  BY DEF PreparePayload
<1> HIDE DEF s1, s2, s3
<1>4. CASE fault' = "buffer_in_use" /\ UNCHANGED listVars
  BY <1>4, StayProceeds
<1> QED
  BY <1>2, <1>3, <1>4, BecomesProceeds

\* The callbacks that give data.
LEMMA AskUserProceeds ==
    ASSUME Ready, NEW h \in Elements(list), NEW next \in SendStates, NEW answer,
           AskUser(h, next, answer)
    PROVE  Proceeds
<1>1. session[h] \in Session
  BY ListedIs DEF Ready
<1>2. /\ Sound([session[h] EXCEPT !.st = next], session[h])
      /\ Sound(session[h], session[h])
  BY <1>1 DEF Sound, Session
<1>3. \/ Becomes(h, [session[h] EXCEPT !.st = next], << >>)
      \/ Becomes(h, session[h], << >>)
  BY DEF AskUser
<1> QED
  BY <1>2, <1>3, BecomesProceeds

\* The turn of a session in the send phase.
LEMMA SendPhaseProceeds ==
    ASSUME Ready, NetInv, NEW h, NEW send, NEW network, NEW answer,
           SendPhase(h, send, network, answer)
    PROVE  Proceeds /\ NetInv'
<1>1. h \in Elements(list)
  BY TurnListed DEF SendPhase, Ready
<1>2. net' = net
  BY DEF SendPhase
<1>3. CASE SendData(h, network, answer)
  BY <1>1, <1>2, <1>3, SendDataProceeds DEF NetInv
<1>4. CASE ~SendData(h, network, answer)
  <2>1. packet' = packet /\ cloud' = cloud
    BY <1>4 DEF SendPhase
  <2>2. \/ AskUser(h, "prepare_payload", send)
        \/ AskUser(h, "prepare_segment", send)
        \/ PreparePayload(h)
        \/ Becomes(h, Segmented(session[h]), << >>)
    BY <1>4 DEF SendPhase
  <2>3. Sound(Segmented(session[h]), session[h])
    BY <1>1, ListedIs, SegmentedSound DEF Ready
  <2>4. "prepare_payload" \in SendStates /\ "prepare_segment" \in SendStates
    BY DEF SendStates
  <2>5. Proceeds
    BY <1>1, <2>2, <2>3, <2>4, AskUserProceeds, PreparePayloadProceeds, BecomesProceeds
  <2> QED
    BY <1>2, <2>1, <2>5 DEF NetInv
<1> QED
  BY <1>3, <1>4

-----------------------------------------------------------------------------
\* Datagrams, idle phases and time.

\* Memory for a session is not in use.
LEMMA NewHandleFree ==
    ASSUME ConstantsAssumption, Live # Handles
    PROVE  NewHandle \in Handles \ Live
<1> DEFINE S == Handles \ Live
<1>1. S \in SUBSET Nat /\ S # {}
  BY DEF Handles, Live
<1>2. IsFiniteSet(S)
  BY FiniteHandles
<1> HIDE DEF S
<1>3. Min(S) \in S
  BY <1>1, <1>2, MinOf
<1> QED
  BY <1>3 DEF S, NewHandle

\* sm_create_session.
LEMMA AddProceeds ==
    ASSUME Ready, NEW s \in Session, MayCreate(s.owner), AddSession(s),
           fault' # "read_freed"
    PROVE  Proceeds
<1>1. Added(NewHandle, s)
  BY NewHandleFree DEF MayCreate, AddSession, Added, Ready
<1>2. InList(current)'
  BY <1>1, AddedKeeps DEF AddSession, InList, Ready
<1> QED
  BY <1>1, <1>2 DEF Proceeds, Treated, TurnInv

\* The session found is in the list.
LEMMA FoundListed ==
    ASSUME ListInv, NEW d, For(d) # {}
    PROVE  list[Min(For(d))] \in Elements(list)
<1>1. Len(list) \in Nat
  BY LenProperties DEF ListInv
<1>2. For(d) \subseteq 1 .. Len(list)
  BY DEF For, Find
<1>3. IsFiniteSet(1 .. Len(list)) /\ 1 .. Len(list) \subseteq Nat
  BY <1>1, FS_Interval
<1>4. IsFiniteSet(For(d)) /\ For(d) \in SUBSET Nat
  BY <1>2, <1>3, FS_Subset
<1>5. Min(For(d)) \in For(d)
  BY <1>4, MinOf
<1> QED
  BY <1>2, <1>5 DEF Elements

\* A session for a datagram.
LEMMA CloudSessionTyped ==
    ASSUME NEW d \in Datagram
    PROVE  CloudSession(d) \in Session /\ CloudSession(d).owner = "cloud"
<1> DEFINE cmd == IF d.kind = "response" THEN "opaque"
                  ELSE IF d.seg = 0 THEN Command(d.of) ELSE "ping"
<1>1. cmd \in {"ping", "data", "opaque"}
  BY DEF Command
<1>2. d.id \in Ids /\ d.of \in Talks
  BY DEF Datagram
<1>3. CloudSession(d) =
        [st |-> "receive_data", owner |-> "cloud", id |-> d.id, of |-> d.of,
         cmd |-> cmd, needs |-> FALSE, resp |-> FALSE, err |-> FALSE, multi |-> FALSE,
         last |-> FALSE, error |-> "none", data |-> FALSE, ctx |-> FALSE,
         target |-> FALSE, due |-> FALSE, count |-> 0, processed |-> 0, got |-> {}]
  BY DEF CloudSession
<1> HIDE DEF cmd
<1> QED
  BY <1>1, <1>2, <1>3 DEF Session, RecvStates

\* sm_process_packet.
LEMMA ReceiveDatagramProceeds ==
    ASSUME Ready, NetInv, ReceiveDatagram
    PROVE  Proceeds /\ NetInv'
<1>1. PICK d \in net : Receive(d)
  BY DEF ReceiveDatagram
<1>2. d \in Datagram
  BY DEF NetInv
<1>3. packet' = packet /\ cloud' = cloud /\ net' \subseteq net
  BY <1>1 DEF Receive, Take
<1>4. CASE For(d) = {}
  <2>1. /\ MayCreate("cloud") /\ AddSession(Assembled(CloudSession(d), d))
        /\ fault' = fault
    BY <1>1, <1>4 DEF Receive
  <2>2. Sound(Assembled(CloudSession(d), d), CloudSession(d)) /\ CloudSession(d).owner = "cloud"
    BY <1>2, CloudSessionTyped, AssembledSound DEF Ready
  <2>3. Proceeds
    BY <2>1, <2>2, AddProceeds DEF Sound, Ready
  <2> QED
    BY <1>3, <2>3 DEF NetInv
<1>5. CASE For(d) # {}
  <2> DEFINE h == list[Min(For(d))]
  <2>1. h \in Elements(list) /\ h \in Live /\ h \in Handles /\ session[h] \in Session
    BY <1>5, FoundListed, ListedIs DEF Ready
  <2>2. /\ session' = [session EXCEPT ![h] = Assembled(session[h], d)]
        /\ list' = list /\ current' = current /\ active' = active
        /\ fault' \in {"buffer_in_use", "none"}
    BY <1>1, <1>5 DEF Receive
  <2> HIDE DEF h
  <2>3. Sound(Assembled(session[h], d), session[h])
    BY <1>2, <2>1, AssembledSound DEF Ready
  <2>4. Revised
    BY <2>1, <2>2, <2>3, OneRevised
  <2>5. InList(current)'
    BY <2>2 DEF InList, Ready
  <2>6. fault' # "read_freed"
    BY <2>2
  <2>7. Proceeds
    BY <2>4, <2>5, <2>6 DEF Proceeds, Treated, TurnInv
  <2> QED
    BY <1>3, <2>7 DEF NetInv
<1> QED
  BY <1>4, <1>5

\* The pass over the list finds nothing to do.
LEMMA NoTurnProceeds ==
    ASSUME Ready, NoTurn
    PROVE  Proceeds
<1>1. session' = AfterPass /\ list' = list /\ active' = active
  BY DEF NoTurn
<1>2. /\ AfterPass \in [Handles -> Session \cup {Free}]
      /\ \A h \in Handles \ Live : AfterPass[h] = Free
      /\ \A h \in Live : Sound(AfterPass[h], session[h])
  BY AfterPassSound DEF Ready
<1>3. Live' = Live
  BY <1>1, <1>2, FreeIsNoSession DEF Live, Sound
<1>4. Revised
  BY <1>1, <1>2, <1>3 DEF Revised, SameOwners, Sound
<1>5. InList(current)' /\ fault' = fault
  BY DEF InList, NoTurn
<1> QED
  BY <1>4, <1>5 DEF Proceeds, Treated, TurnInv, Ready

\* A datagram may be dropped.
LEMMA NoDatagramTyped ==
    ASSUME NoDatagram
    PROVE  net' \subseteq net
BY DEF NoDatagram, Take

LEMMA IdlePhaseProceeds ==
    ASSUME Ready, NetInv, IdlePhase
    PROVE  Proceeds /\ NetInv'
<1>1. NoTurn /\ packet' = packet /\ cloud' = cloud /\ net' \subseteq net
  BY NoDatagramTyped DEF IdlePhase, envVars
<1> QED
  BY <1>1, NoTurnProceeds DEF NetInv

\* Time passes for a session.
LEMMA ElapseProceeds ==
    ASSUME Ready, NetInv, NEW h \in Live, Elapse(h)
    PROVE  Proceeds /\ NetInv'
<1>1. h \in Handles /\ session[h] \in Session
  BY DEF Live, Ready, ListInv
<1>2. /\ session' = [session EXCEPT ![h].due = TRUE]
      /\ UNCHANGED <<list, current, active, packet, net, cloud, fault>>
  BY DEF Elapse, envVars
<1>3. session' = [session EXCEPT ![h] = [session[h] EXCEPT !.due = TRUE]]
  BY <1>2
<1>4. Sound([session[h] EXCEPT !.due = TRUE], session[h])
  BY <1>1 DEF Sound, Session
<1>5. Revised
  BY <1>2, <1>3, <1>4, OneRevised
<1>6. InList(current)' /\ fault' = fault
  BY <1>2 DEF InList, Ready
<1> QED
  BY <1>2, <1>5, <1>6 DEF Proceeds, Treated, TurnInv, Ready, NetInv

\* Device Cloud sends what it may.
LEMMA EnvironmentTyped ==
    ASSUME ConstantsAssumption, NetInv, Environment
    PROVE  NetInv'
<1>1. packet' = packet
  BY DEF Environment
<1>2. ASSUME NEW id \in CloudIds, CloudRequest(id)
      PROVE  net' \subseteq Datagram /\ cloud' \in [Talks -> Known]
  <2>1. id \in Ids /\ id \in Talks /\ Segments[id] \in Nat
    BY SegmentsOf DEF ConstantsAssumption, Talks
  <2>2. cloud' = [cloud EXCEPT ![id] = [cloud[id] EXCEPT !.phase = "asked"]]
    BY <1>2 DEF CloudRequest
  <2>3. [cloud[id] EXCEPT !.phase = "asked"] \in Known
    BY <2>1 DEF NetInv, Known
  <2>4. \A n \in 0 .. Segments[id] - 1 :
            [kind |-> "request", id |-> id, of |-> id, seg |-> n, error |-> FALSE] \in Datagram
    BY <2>1 DEF Datagram
  <2> QED
    BY <1>2, <2>1, <2>2, <2>3, <2>4 DEF CloudRequest, NetInv
<1>3. ASSUME NEW req \in Requests, NEW error \in BOOLEAN, CloudResponse(req, error)
      PROVE  net' \subseteq Datagram /\ cloud' \in [Talks -> Known]
  <2>1. req \in Talks /\ cloud[req] \in Known
    BY DEF Talks, NetInv
  <2>2. cloud' = [cloud EXCEPT ![req] = [cloud[req] EXCEPT !.phase = "asked"]]
    BY <1>3 DEF CloudResponse
  <2>3. [cloud[req] EXCEPT !.phase = "asked"] \in Known
    BY <2>1 DEF Known
  <2>4. [kind |-> "response", id |-> cloud[req].id, of |-> req, seg |-> 0,
         error |-> error] \in Datagram
    BY <2>1 DEF Datagram, Known
  <2> QED
    BY <1>3, <2>1, <2>2, <2>3, <2>4 DEF CloudResponse, NetInv
<1>4. ASSUME NEW d \in net, Lose(d)
      PROVE  net' \subseteq Datagram /\ cloud' \in [Talks -> Known]
  BY <1>4 DEF Lose, NetInv
<1>5. net' \subseteq Datagram /\ cloud' \in [Talks -> Known]
  BY <1>2, <1>3, <1>4 DEF Environment
<1> QED
  BY <1>1, <1>5 DEF NetInv

-----------------------------------------------------------------------------
\* What the connector does next, and what the user asked of it.
Transports == {"idle", "open", "reconnect", "receive", "send", "close", "terminate"}
Kinds      == {"none", "start", "send", "cancel", "cancel_all"}
Closings   == [status: {"device_error", "stopped", "terminated"},
               stop: {"immediately", "wait"}, callback: BOOLEAN]
Askings    == [kind: Kinds, req: Requests \cup {NoRequest}, id: Ids]

ControlInv ==
    /\ pc \in {"pending", "run", "again", "opening"}
    /\ transport \in Transports
    /\ auto \in BOOLEAN /\ opened \in BOOLEAN /\ wanted \in BOOLEAN
    /\ close \in Closings
    /\ pending \in Askings
    /\ pending.kind = "send" => pending.req \in Requests
    /\ pendingId \in Ids /\ lastId \in Ids
    /\ givenId \in [Requests -> SUBSET Ids]
    /\ calls \in 0 .. MaxCalls

\* A step leaves the user's side alone.
Apart == UNCHANGED <<auto, opened, wanted, userVars>>

\* Then it is enough to look at pc, transport and close.
LEMMA ApartTyped ==
    ASSUME ControlInv, Apart, transport' \in Transports, close' \in Closings,
           pc' \in {"pending", "run", "again", "opening"}
    PROVE  ControlInv'
BY DEF ControlInv, Apart, userVars

\* A turn may end the run.
LEMMA EndTurnTyped ==
    ASSUME NEW h, EndTurn(h)
    PROVE  pc' = "pending"
BY DEF EndTurn

\* A payload that is passed on ends the turn, or nothing is done.
LEMMA ReceiveTurnTyped ==
    ASSUME ControlInv, ConstantsAssumption, NEW h, NEW take \in TakeAnswers, NEW answer,
           ReceiveTurn(h, take, answer)
    PROVE  pc' \in {"pending", pc} /\ transport' \in {"close", "send"}
<1>1. transport' \in {"close", "send"}
  BY DEF ReceiveTurn, Closed
<1>2. take \in {"continue", "busy", "error"}
  BY DEF ConstantsAssumption
<1>3. ASSUME NEW s, NEW says, Becomes(h, s, says)
      PROVE  pc' = "pending"
  BY <1>3, EndTurnTyped DEF Becomes
<1>4. ASSUME NEW s, NEW says, PassedOn(h, s, says, answer)
      PROVE  pc' = "pending"
  <2>1. PICK r, t : Becomes(h, r, t)
    BY <1>4 DEF PassedOn
  <2> QED
    BY <2>1, <1>3
<1>5. ASSUME NEW s, NEW says, PassFailed(h, s, says)
      PROVE  pc' = "pending"
  BY <1>3, <1>5 DEF PassFailed
<1>6. ASSUME NEW s, DataRequest(h, s, take, answer)
      PROVE  pc' = "pending"
  BY <1>2, <1>3, <1>4, <1>6 DEF DataRequest
<1>7. ASSUME NEW s, DataResponse(h, s, take, answer)
      PROVE  pc' = "pending"
  BY <1>2, <1>4, <1>5, <1>3, <1>7 DEF DataResponse
<1>8. ASSUME NEW s, PingResponse(h, s, answer)
      PROVE  pc' = "pending"
  BY <1>3, <1>4, <1>8 DEF PingResponse
<1>9. ASSUME NEW s, OtherPayload(h, s, take, answer)
      PROVE  pc' = "pending"
  BY <1>2, <1>3, <1>4, <1>5, <1>9 DEF OtherPayload
<1>10. CASE ProcessPayload(h, take, answer)
  <2>1. \/ pc' = pc
        \/ \E s : \/ DataRequest(h, s, take, answer)
                  \/ DataResponse(h, s, take, answer)
                  \/ PingResponse(h, s, answer)
                  \/ OtherPayload(h, s, take, answer)
    BY <1>10 DEF ProcessPayload
  <2> QED
    BY <2>1, <1>1, <1>6, <1>7, <1>8, <1>9
<1>11. CASE HandleError(h, answer)
  <2>1. PICK r, t : Becomes(h, r, t)
    BY <1>11 DEF HandleError
  <2> QED
    BY <2>1, <1>1, <1>3
<1>12. CASE HandleComplete(h)
  BY <1>1, <1>12, EndTurnTyped DEF HandleComplete
<1> QED
  BY <1>1, <1>10, <1>11, <1>12 DEF ReceiveTurn

\* The receive phase.
LEMMA ReceivePhaseTyped ==
    ASSUME ControlInv, ConstantsAssumption, NetInv, NEW h, NEW take \in TakeAnswers, NEW answer,
           ReceivePhase(h, take, answer)
    PROVE  ControlInv' /\ NetInv' /\ transport = "receive" /\ close' = close /\ Apart
           /\ pc' # "opening" /\ transport' # "open"
<1>1. /\ pc \in {"run", "again"} /\ transport = "receive"
      /\ close' = close /\ packet' = packet /\ cloud' = cloud /\ Apart
  BY DEF ReceivePhase, Running, Apart
<1>2. pc' \in {"pending", pc} /\ transport' \in {"close", "send"}
  BY ReceiveTurnTyped DEF ReceivePhase
<1>3. net' \subseteq net
  BY NoDatagramTyped DEF ReceivePhase
<1>4. ControlInv'
  BY <1>1, <1>2, ApartTyped DEF ControlInv, Transports
<1> QED
  BY <1>1, <1>2, <1>3, <1>4 DEF NetInv

\* A failure closes the transport.
LEMMA FailsTyped ==
    ASSUME ControlInv, Fails
    PROVE  /\ transport' \in Transports /\ close' \in Closings
           /\ transport' \in {transport, "close"}
BY DEF Fails, ControlInv, Transports, Closings

\* The send phase; only the error of a callback marks the transport as failed.
LEMMA SendPhaseTyped ==
    ASSUME ControlInv, NEW h, NEW send, NEW network, NEW answer,
           SendPhase(h, send, network, answer)
    PROVE  /\ ControlInv' /\ Apart /\ transport = "send"
           /\ (close' = close \/ "error" \in {send, network})
           /\ pc' # "opening" /\ transport' # "open"
<1>1. pc \in {"run", "again"} /\ transport = "send" /\ Apart
  BY DEF SendPhase, Running, Apart
<1>2. ASSUME NEW s, NEW says, Becomes(h, s, says)
      PROVE  pc' = "pending"
  BY <1>2, EndTurnTyped DEF Becomes
<1> DEFINE Fine == /\ pc' \in {"pending", pc}
                   /\ \/ transport' \in {transport, "receive"} /\ close' = close
                      \/ "error" \in {send, network} /\ Fails
<1>3. ASSUME NEW next, AskUser(h, next, send)
      PROVE  Fine
  BY <1>2, <1>3 DEF AskUser
<1>4. ASSUME SendData(h, network, answer)
      PROVE  Fine
  <2>1. ASSUME NEW p, SendSegment(h, p, answer)
        PROVE  pc' \in {"pending", pc}
    BY <2>1, EndTurnTyped DEF SendSegment
  <2> QED
    BY <1>2, <1>4, <2>1 DEF SendData
<1>5. ASSUME PreparePayload(h) \/ Becomes(h, Segmented(session[h]), << >>)
      PROVE  pc' \in {"pending", pc}
  BY <1>2, <1>5 DEF PreparePayload
<1> HIDE DEF Fine
<1>6. Fine
  <2>1. CASE (PreparePayload(h) \/ Becomes(h, Segmented(session[h]), << >>))
             /\ transport' = "receive" /\ close' = close
    BY <1>5, <2>1 DEF Fine
  <2> QED
    BY <1>3, <1>4, <2>1 DEF SendPhase
<1>7. CASE transport' \in {transport, "receive"} /\ close' = close
  <2>1. ControlInv'
    BY <1>1, <1>6, <1>7, ApartTyped DEF ControlInv, Transports, Fine
  <2> QED
    BY <1>1, <1>6, <1>7, <2>1 DEF Fine
<1>8. CASE "error" \in {send, network} /\ Fails
  <2>1. ControlInv'
    BY <1>1, <1>6, <1>8, FailsTyped, ApartTyped DEF ControlInv, Fine
  <2>2. transport' # "open"
    BY <1>1, <1>8, FailsTyped
  <2> QED
    BY <1>1, <1>6, <1>8, <2>1, <2>2 DEF Fine
<1> QED
  BY <1>6, <1>7, <1>8 DEF Fine

-----------------------------------------------------------------------------
\* Cancelling: sm_process_pending_data and sm_close_transport.

\* The head of what is left has the next turn.
LEMMA HeadListed ==
    ASSUME NEW S, NEW seq \in Seq(S)
    PROVE  HeadOf(seq) \in Elements(seq) \cup {NoHandle}
<1>1. CASE seq = << >>
  BY <1>1 DEF HeadOf
<1>2. CASE seq # << >>
  <2>1. Len(seq) \in Nat /\ Len(seq) # 0
    BY <1>2, LenProperties, EmptySeq
  <2>2. Head(seq) = seq[1] /\ 1 \in 1 .. Len(seq)
    BY <1>2, <2>1, HeadTailProperties
  <2> QED
    BY <1>2, <2>2 DEF HeadOf, Elements
<1> QED
  BY <1>1, <1>2

\* sm_cancel_session for the first sessions of the list.
LEMMA CancelFirstCuts ==
    ASSUME Ready, NEW most \in 0 .. Len(list), NEW done \in 0 .. most,
           CancelFirst(done, most)
    PROVE  Cut(done) /\ InList(current)'
<1> DEFINE gone == First(done)
           busy == BusySession(done, most)
           rest == SubSeq(list, done + 1, Len(list))
           over == SubSeq(list, (IF busy = {} THEN most ELSE done) + 1, Len(list))
           out  == gone \cup (Range(list) \ Range(over))
<1>1. /\ session \in [Handles -> Session \cup {Free}]
      /\ list \in Seq(Handles) /\ Once(list) /\ Elements(list) \subseteq Live
      /\ active \in [Owners -> Nat] /\ InList(current)
  BY DEF Ready, ListInv
<1>2. Len(list) \in Nat /\ done \in 0 .. Len(list)
  BY <1>1, LenProperties
<1>3. over = rest
  <2>1. CASE done < most
    BY <2>1 DEF BusySession
  <2>2. CASE ~(done < most)
    BY <1>2, <2>2 DEF BusySession
  <2> QED
    BY <2>1, <2>2
<1>4. rest \in Seq(Handles) /\ Elements(rest) = Elements(list) \ gone
  BY ZenonT(60), <1>1, <1>2, CutOnce DEF First
<1>5. gone \subseteq Elements(list)
  BY <1>2 DEF First, Elements
<1>6. out = gone
  <2>1. Range(list) = Elements(list) /\ Range(rest) = Elements(rest)
    BY <1>1, <1>4, ListWords
  <2> HIDE DEF over, rest, gone
  <2> QED
    BY <1>3, <1>4, <1>5, <2>1
<1>7. busy \subseteq Elements(list)
  BY <1>2 DEF BusySession, Elements
<1>8. /\ session' = [h \in Handles |->
            IF h \in out THEN Free
            ELSE IF h \in busy THEN [session[h] EXCEPT !.error = "cancel", !.data = FALSE]
            ELSE session[h]]
      /\ list' = over
      /\ active' = [owner \in Owners |->
            active[owner] - Cardinality({h \in out : session[h].owner = owner})]
      /\ current' = IF current \in out THEN HeadOf(over) ELSE current
  BY DEF CancelFirst, First, Owners
<1> HIDE DEF gone, busy, over, out
<1>9. ASSUME NEW h \in Handles
      PROVE  /\ h \in gone => session'[h] = Free
             /\ h \notin gone =>
                  IF h \in Live THEN Sound(session'[h], session[h]) ELSE session'[h] = Free
  <2>1. CASE h \in gone
    BY <1>6, <1>8, <2>1
  <2>2. CASE h \notin gone /\ h \in busy
    <3>1. session[h] \in Session /\ h \in Live
      BY <1>1, <1>7, <2>2 DEF Live
    <3>2. Sound([session[h] EXCEPT !.error = "cancel", !.data = FALSE], session[h])
      BY <3>1 DEF Sound, Session
    <3> QED
      BY <1>6, <1>8, <2>2, <3>1, <3>2
  <2>3. CASE h \notin gone /\ h \notin busy
    <3>1. session'[h] = session[h]
      BY <1>6, <1>8, <2>3
    <3>2. h \in Live => session[h] \in Session
      BY <1>1 DEF Live
    <3> QED
      BY <2>3, <3>1, <3>2 DEF Sound, Live
  <2> QED
    BY <2>1, <2>2, <2>3
<1>10. Live' = Live \ gone
  BY <1>9, FreeIsNoSession DEF Live, Sound
<1>11. SameOwners
  <2>1. \A h \in Handles : session'[h] \in Session \cup {Free}
    BY <1>9 DEF Sound
  <2>2. session' \in [Handles -> Session \cup {Free}]
    BY <1>8, <2>1
  <2> QED
    BY <1>9, <1>10, <2>2 DEF SameOwners, Sound, Live
<1>12. Cut(done)
  BY <1>2, <1>3, <1>6, <1>8, <1>10, <1>11 DEF Cut, gone
<1>13. InList(current)'
  <2>1. CASE current \in gone
    <3>1. HeadOf(rest) \in Elements(rest) \cup {NoHandle}
      BY <1>4, HeadListed
    <3> QED
      BY <1>3, <1>6, <1>8, <2>1, <3>1 DEF InList
  <2>2. CASE current \notin gone
    BY <1>1, <1>3, <1>4, <1>6, <1>8, <2>2 DEF InList
  <2> QED
    BY <2>1, <2>2
<1> QED
  BY <1>12, <1>13

\* connector_initiate_session_cancel and _cancel_all.
LEMMA CancelPendingProceeds ==
    ASSUME Ready, CancelPending, fault' = fault
    PROVE  Proceeds
<1> DEFINE most == IF pending.kind = "cancel" THEN Min({1, Len(list)}) ELSE Len(list)
<1>1. Len(list) \in Nat
  BY LenProperties DEF Ready, ListInv
<1>2. most \in 0 .. Len(list)
  <2>1. IsFiniteSet({1, Len(list)})
    BY FS_EmptySet, FS_AddElement, FS_Singleton
  <2>2. Min({1, Len(list)}) \in {1, Len(list)} /\ Min({1, Len(list)}) <= Len(list)
    BY <1>1, <2>1, MinOf
  <2> QED
    BY <1>1, <2>2
<1>3. PICK done \in 0 .. most : CancelFirst(done, most)
  BY DEF CancelPending
<1> HIDE DEF most
<1>4. Cut(done) /\ InList(current)'
  BY <1>2, <1>3, CancelFirstCuts
<1> QED
  BY <1>4 DEF Proceeds, Treated, TurnInv, Ready

\* sm_close_transport.
LEMMA CloseTransportProceeds ==
    ASSUME Ready, NetInv, NEW network, NEW stop, NEW reconnect,
           CloseTransport(network, stop, reconnect)
    PROVE  Proceeds /\ NetInv'
<1>1. Len(list) \in Nat
  BY LenProperties DEF Ready, ListInv
<1>2. PICK done \in 0 .. Len(list) : CancelFirst(done, Len(list))
  BY DEF CloseTransport
<1>3. Cut(done) /\ InList(current)'
  BY <1>1, <1>2, CancelFirstCuts
<1>4. fault' = fault /\ net' = net /\ cloud' = cloud /\ packet' \in {packet, NoPacket}
  BY DEF CloseTransport, envVars
<1> QED
  BY <1>3, <1>4 DEF Proceeds, Treated, TurnInv, Ready, NetInv

\* sm_process_pending_data.
LEMMA ProcessPendingProceeds ==
    ASSUME Ready, NetInv, ControlInv, ProcessPending
    PROVE  Proceeds /\ NetInv'
<1>1. fault' = fault /\ packet' = packet /\ net' = net /\ cloud' = cloud
  BY DEF ProcessPending, envVars
<1>2. ASSUME CancelPending
      PROVE  Proceeds
  BY <1>1, <1>2, CancelPendingProceeds
<1>3. ASSUME StartPending \/ NothingToDo
      PROVE  Proceeds
  <2>1. UNCHANGED listVars
    BY <1>3 DEF StartPending, NothingToDo
  <2> QED
    BY <1>1, <2>1, StayProceeds DEF Ready
<1>4. ASSUME pending.kind = "send", MayCreate("client"),
             AddSession(ClientSession(pending.req))
      PROVE  Proceeds
  <2>1. ClientSession(pending.req) \in Session /\ ClientSession(pending.req).owner = "client"
    <3>1. pending.req \in Talks /\ pendingId \in Ids
      BY <1>4 DEF ControlInv, Talks
    <3> QED
      BY <3>1 DEF ClientSession, Session, Command, SendStates
  <2> QED
    BY <1>1, <1>4, <2>1, AddProceeds DEF Ready
<1>5. Proceeds
  BY <1>2, <1>3, <1>4 DEF ProcessPending, SendPending
<1> QED
  BY <1>1, <1>5 DEF NetInv

\* sm_process_pending_data keeps the user's side in order.
LEMMA ProcessPendingTyped ==
    ASSUME ConstantsAssumption, ControlInv, ProcessPending
    PROVE  /\ ControlInv' /\ pc = "pending" /\ pc' # "opening"
           /\ UNCHANGED <<close, wanted>>
           /\ pending' \in {pending, NothingPending}
           /\ transport' = "open" => transport = "open" \/ pending.kind = "start"
<1>1. /\ UNCHANGED <<auto, opened, close, wanted, pendingId, lastId, givenId, calls>>
      /\ pc = "pending"
  BY DEF ProcessPending
<1> DEFINE Fine == /\ pc' \in {"pending", "run"}
                   /\ transport' \in {transport, "close", "open"}
                   /\ transport' = "open" => transport = "open" \/ pending.kind = "start"
                   /\ pending' \in {pending, NothingPending}
<1>2. ASSUME CancelPending
      PROVE  Fine
  <2>1. pending' = NothingPending
    BY <1>2 DEF CancelPending
  <2>2. PICK done, most : /\ transport' = IF done > 0 THEN Closed(list', transport)
                                          ELSE transport
                          /\ pc' = IF done < most THEN "run" ELSE "pending"
    BY <1>2 DEF CancelPending
  <2>3. Closed(list', transport) \in {transport, "close"}
    BY DEF Closed
  <2>4. transport' \in {transport, "close"} /\ pc' \in {"pending", "run"}
    BY <2>2, <2>3
  <2> QED
    BY <2>1, <2>4
<1>3. ASSUME StartPending
      PROVE  Fine
  BY <1>3 DEF StartPending, NothingToDo
<1>4. ASSUME SendPending
      PROVE  Fine
  BY <1>4 DEF SendPending, NothingToDo
<1>5. Fine
  BY <1>2, <1>3, <1>4 DEF ProcessPending, NothingToDo
<1>6. NothingPending.kind = "none" /\ NothingPending.req = NoRequest /\ NothingPending.id = 0
  BY DEF NothingPending
<1> HIDE DEF Fine
<1>7. ControlInv'
  <2>1. CASE pending' = pending
    BY <1>1, <1>5, <2>1 DEF ControlInv, Transports, Fine
  <2>2. CASE pending' = NothingPending
    <3>1. NothingPending \in Askings
      <4>1. 0 \in Ids
        BY DEF ConstantsAssumption, Ids
      <4> QED
        BY <4>1 DEF NothingPending, Askings, Kinds
    <3>2. pending' \in Askings /\ pending'.kind = "none"
      BY <2>2, <3>1, <1>6
    <3> HIDE DEF Fine
    <3> QED
      BY <1>1, <1>5, <3>2 DEF ControlInv, Transports, Fine
  <2> QED
    BY <1>5, <2>1, <2>2 DEF Fine
<1> QED
  BY <1>1, <1>5, <1>7 DEF Fine

-----------------------------------------------------------------------------
\* Calls of the user.

\* sm_get_request_id.
LEMMA IdAfterTyped ==
    ASSUME ConstantsAssumption, ControlInv, NEW n \in Nat
    PROVE  IdAfter(n) \in Ids
<1>1. /\ lastId + n \in Nat /\ MaxId \in Nat
      /\ MaxId + 1 \in Nat /\ MaxId + 1 > 0
  BY DEF ConstantsAssumption, ControlInv, Ids
<1>2. \A a \in Nat, b \in Nat : b > 0 => a % b \in 0 .. b - 1
  OBVIOUS
<1>3. (lastId + n) % (MaxId + 1) \in 0 .. (MaxId + 1) - 1
  BY <1>1, <1>2
<1>4. (MaxId + 1) - 1 = MaxId
  BY <1>1
<1> QED
  BY <1>3, <1>4 DEF IdAfter, Ids

LEMMA NextIdTyped ==
    ASSUME ConstantsAssumption, ControlInv, FreeSteps # {}
    PROVE  NextId \in Ids
<1>1. FreeSteps \subseteq 1 .. MaxId /\ MaxId \in Nat
  BY DEF FreeSteps, ConstantsAssumption
<1>2. FreeSteps \in SUBSET Nat /\ IsFiniteSet(FreeSteps)
  <2>1. IsFiniteSet(1 .. MaxId) /\ 1 .. MaxId \subseteq Nat
    BY <1>1, FS_Interval
  <2> QED
    BY <1>1, <2>1, FS_Subset
<1>3. Min(FreeSteps) \in Nat
  BY <1>2, MinOf
<1> QED
  BY <1>3, IdAfterTyped DEF NextId

\* Another call is counted.
LEMMA MayCallTyped ==
    ASSUME ConstantsAssumption, ControlInv, NEW call, MayCall(call)
    PROVE  calls' \in 0 .. MaxCalls /\ call \in Calls
BY DEF MayCall, ControlInv, ConstantsAssumption

\* connector_initiate_transport_start.
LEMMA StartTyped ==
    ASSUME ConstantsAssumption, ControlInv, pc' = pc, Start
    PROVE  ControlInv' /\ "start" \in Calls
<1>1. calls' \in 0 .. MaxCalls /\ "start" \in Calls
  BY MayCallTyped DEF Start
<1>2. /\ [NothingPending EXCEPT !.kind = "start"] \in Askings
      /\ [NothingPending EXCEPT !.kind = "start"].kind = "start"
  <2>1. 0 \in Ids
    BY DEF ConstantsAssumption, Ids
  <2> QED
    BY <2>1 DEF NothingPending, Askings, Kinds
<1>3. [status |-> "device_error", stop |-> "immediately", callback |-> TRUE] \in Closings
  BY DEF Closings
<1> QED
  BY <1>1, <1>2, <1>3 DEF Start, ControlInv, Transports

\* connector_initiate_transport_stop.
LEMMA StopTyped ==
    ASSUME ConstantsAssumption, ControlInv, pc' = pc, NEW call, Stop(call)
    PROVE  /\ ControlInv' /\ close'.status = "stopped"
           /\ transport' \in {transport, "close"} /\ pending' = pending
<1>1. calls' \in 0 .. MaxCalls
  BY MayCallTyped DEF Stop
<1> DEFINE how == IF call = "stop" THEN "immediately" ELSE "wait"
<1>2. how \in {"immediately", "wait"}
  OBVIOUS
<1>3. close' = [close EXCEPT !.status = "stopped", !.stop = how]
  BY DEF Stop
<1>4. close' \in Closings /\ close'.status = "stopped"
  <2> HIDE DEF how
  <2> QED
    BY <1>2, <1>3 DEF ControlInv, Closings
<1>5. transport' \in {transport, "close"} /\ wanted' = FALSE
      /\ UNCHANGED <<auto, opened, pending, pendingId, lastId, givenId>>
  BY DEF Stop
<1> QED
  BY <1>1, <1>4, <1>5 DEF ControlInv, Transports

\* connector_initiate_terminate.
LEMMA TerminateTyped ==
    ASSUME ConstantsAssumption, ControlInv, pc' = pc, Terminate
    PROVE  /\ ControlInv' /\ close'.status = "terminated"
           /\ transport' = "close" /\ pending' = pending
<1>1. calls' \in 0 .. MaxCalls
  BY MayCallTyped DEF Terminate
<1>2. close' \in Closings /\ close'.status = "terminated"
  BY DEF Terminate, ControlInv, Closings
<1> QED
  BY <1>1, <1>2 DEF Terminate, ControlInv, Transports

\* connector_initiate_session_cancel and _cancel_all.
LEMMA CancelTyped ==
    ASSUME ConstantsAssumption, ControlInv, pc' = pc,
           NEW call \in {"cancel", "cancel_all"}, NEW id \in Ids, Cancel(call, id)
    PROVE  ControlInv' /\ UNCHANGED connVars /\ pending'.kind = call
<1>1. calls' \in 0 .. MaxCalls
  BY MayCallTyped DEF Cancel
<1>2. /\ pending' \in Askings /\ pending'.kind = call
  BY DEF Cancel, Askings, Kinds
<1>3. UNCHANGED <<connVars, pendingId, lastId, givenId>>
  BY DEF Cancel
<1> QED
  BY <1>1, <1>2, <1>3 DEF ControlInv, connVars

\* connector_initiate_send_data and connector_initiate_ping_request.
LEMMA SendTyped ==
    ASSUME ConstantsAssumption, ControlInv, pc' = pc, NEW req \in Requests,
           Send(req) \/ SendRefused(req)
    PROVE  ControlInv' /\ UNCHANGED connVars /\ pending'.kind \in {pending.kind, "send"}
<1>1. /\ NextId \in Ids /\ pendingId' = NextId /\ lastId' = NextId
      /\ UNCHANGED connVars
  BY NextIdTyped DEF Send, SendRefused, MaySend
<1>2. CASE Send(req)
  <2>1. /\ pending' \in Askings /\ pending'.kind = "send" /\ pending'.req = req
    <3>1. 0 \in Ids
      BY DEF ConstantsAssumption, Ids
    <3> QED
      BY <1>2, <3>1 DEF Send, Askings, Kinds
  <2>2. givenId' \in [Requests -> SUBSET Ids] /\ calls' = calls
    BY <1>1, <1>2 DEF Send, ControlInv
  <2> QED
    BY <1>1, <2>1, <2>2 DEF ControlInv, connVars
<1>3. CASE SendRefused(req)
  <2>1. calls' \in 0 .. MaxCalls /\ pending' = pending /\ givenId' = givenId
    BY <1>3, MayCallTyped DEF SendRefused
  <2> QED
    BY <1>1, <2>1 DEF ControlInv, connVars
<1> QED
  BY <1>2, <1>3

\* connector_initiate_action.
LEMMA UserCallTyped ==
    ASSUME ConstantsAssumption, ControlInv, UserCall
    PROVE  /\ ControlInv' /\ pc' = pc
           /\ \/ "start" \in Calls
              \/ /\ pending'.kind # "start" \/ pending'.kind = pending.kind
                 /\ transport' \in {transport, "close"}
                 /\ \/ UNCHANGED connVars
                    \/ close'.status # "device_error"
<1>1. pc' = pc
  BY DEF UserCall
<1>2. UNION Range(givenId) \subseteq Ids
  BY DEF ControlInv, Range
<1>3. 0 \in Ids
  BY DEF ConstantsAssumption, Ids
<1>4. \/ Start \/ Terminate
      \/ \E call \in {"stop", "finish"} : Stop(call)
      \/ \E call \in {"cancel", "cancel_all"}, id \in Ids : Cancel(call, id)
      \/ \E req \in Requests : Send(req) \/ SendRefused(req)
  BY <1>2, <1>3 DEF UserCall
<1>5. ASSUME NEW call \in {"cancel", "cancel_all"}, NEW id \in Ids, Cancel(call, id)
      PROVE  ControlInv' /\ UNCHANGED connVars /\ pending'.kind # "start"
  BY <1>1, <1>5, CancelTyped
<1>6. ASSUME NEW req \in Requests, Send(req) \/ SendRefused(req)
      PROVE  /\ ControlInv' /\ UNCHANGED connVars
             /\ pending'.kind # "start" \/ pending'.kind = pending.kind
  BY <1>1, <1>6, SendTyped
<1>7. CASE Start
  BY <1>1, <1>7, StartTyped
<1>8. CASE Terminate
  BY <1>1, <1>8, TerminateTyped
<1>9. ASSUME NEW call \in {"stop", "finish"}, Stop(call)
      PROVE  /\ ControlInv' /\ close'.status # "device_error"
             /\ transport' \in {transport, "close"} /\ pending' = pending
  BY <1>1, <1>9, StopTyped
<1> QED
  BY <1>1, <1>4, <1>5, <1>6, <1>7, <1>8, <1>9 DEF connVars

\* The user touches the sessions only by a start.
LEMMA UserCallProceeds ==
    ASSUME Ready, NetInv, UserCall
    PROVE  Proceeds /\ NetInv'
<1>1. fault' = fault /\ net' = net /\ cloud' = cloud
  BY DEF UserCall, envVars
<1>2. ASSUME Start
      PROVE  Proceeds /\ packet' = packet
  <2>1. Forgotten
    BY <1>2 DEF Start, MayCall, Forgotten, Owners
  <2> QED
    BY <1>1, <1>2, <2>1 DEF Start, Proceeds, Treated, TurnInv, InList, Ready
<1>3. ASSUME UNCHANGED listVars
      PROVE  Proceeds
  BY <1>1, <1>3, StayProceeds DEF Ready
<1>4. \/ Start
      \/ UNCHANGED <<listVars, packet>>
  BY DEF UserCall, Terminate, Stop, Cancel, Send, SendRefused, MaySend
<1> QED
  BY <1>1, <1>2, <1>3, <1>4 DEF NetInv

-----------------------------------------------------------------------------
\* The other steps of the connector, and the invariant of them all.
IInv ==
    /\ ListInv
    /\ TurnInv
    /\ NetInv
    /\ ControlInv

\* sm_receive_data.
LEMMA ReceiveDatagramTyped ==
    ASSUME ControlInv, ReceiveDatagram
    PROVE  ControlInv' /\ Apart /\ close' = close /\ pc' # "opening" /\ transport' = "send"
<1>1. pc' = "pending" /\ transport' = "send" /\ close' = close /\ Apart
  BY DEF ReceiveDatagram, Receive, Apart
<1> QED
  BY <1>1, ApartTyped DEF ControlInv, Transports

\* A phase with nothing to do.
LEMMA IdlePhaseTyped ==
    ASSUME ControlInv, IdlePhase
    PROVE  /\ ControlInv' /\ Apart /\ close' = close /\ pc' # "opening"
           /\ transport' \in {"send", "receive"}
<1>1. /\ pc' \in {"pending", "again"} /\ transport' \in {"send", "receive"}
      /\ close' = close /\ Apart
  BY DEF IdlePhase, NoTurn, Apart
<1> QED
  BY <1>1, ApartTyped DEF ControlInv, Transports

\* The network is opened.
LEMMA OpenBeginKeeps ==
    ASSUME Ready, NetInv, ControlInv, OpenBegin
    PROVE  /\ Proceeds /\ NetInv' /\ ControlInv'
           /\ transport = "open" /\ transport' = "open"
           /\ UNCHANGED <<close, wanted, pending>>
<1>1. /\ UNCHANGED <<listVars, packet, net, cloud, fault>> /\ pc' = "opening"
      /\ UNCHANGED <<connVars, userVars>> /\ transport = "open"
  BY DEF OpenBegin, envVars, Running
<1>2. Proceeds /\ NetInv'
  BY <1>1, StayProceeds DEF Ready, NetInv
<1> QED
  BY <1>1, <1>2 DEF ControlInv, connVars, userVars

LEMMA OpenEndKeeps ==
    ASSUME Ready, NetInv, ControlInv, NEW answer \in OpenAnswers, OpenEnd(answer)
    PROVE  /\ Proceeds /\ NetInv' /\ ControlInv'
           /\ pc = "opening" /\ pc' # "opening"
           /\ UNCHANGED <<close, wanted, pending>>
<1>1. /\ UNCHANGED <<listVars, net, cloud, fault>> /\ pc' = "pending"
      /\ UNCHANGED <<auto, close, wanted, userVars>> /\ pc = "opening"
      /\ packet' \in {packet, NoPacket}
  BY DEF OpenEnd, envVars
<1>2. Proceeds /\ NetInv'
  BY <1>1, StayProceeds DEF Ready, NetInv
<1>3. answer \in {"continue", "busy", "error"}
  BY DEF Ready, ConstantsAssumption
<1>4. opened' \in BOOLEAN /\ transport' \in Transports
  BY <1>3 DEF OpenEnd, ControlInv, Transports
<1>5. ControlInv'
  BY <1>1, <1>4 DEF ControlInv, userVars
<1> QED
  BY <1>1, <1>2, <1>5 DEF userVars

\* Nothing but the state of the transport changes.
LEMMA ReopenKeeps ==
    ASSUME Ready, NetInv, ControlInv, Reconnect \/ Idle
    PROVE  /\ Proceeds /\ NetInv' /\ ControlInv' /\ pc' # "opening"
           /\ UNCHANGED <<close, wanted, pending>>
           /\ transport = "idle" /\ transport' = "open" => close.status = "device_error"
<1>1. /\ UNCHANGED <<listVars, packet, net, cloud, fault>> /\ pc' = "pending"
      /\ UNCHANGED <<auto, opened, close, wanted, userVars>>
      /\ transport' \in {"open", "idle"}
  BY DEF Reconnect, Idle, envVars
<1>2. Proceeds /\ NetInv'
  BY <1>1, StayProceeds DEF Ready, NetInv
<1>3. ControlInv'
  BY <1>1 DEF ControlInv, userVars, Transports
<1>4. transport = "idle" /\ transport' = "open" => close.status = "device_error"
  BY DEF Reconnect, Idle, Running, Reopens
<1> QED
  BY <1>1, <1>2, <1>3, <1>4 DEF userVars

\* sm_close_transport.
LEMMA CloseTransportTyped ==
    ASSUME ControlInv, NEW network, NEW stop, NEW reconnect \in BOOLEAN,
           CloseTransport(network, stop, reconnect)
    PROVE  /\ ControlInv' /\ pc' # "opening" /\ transport = "close"
           /\ UNCHANGED <<wanted, pending>> /\ close'.status = close.status
<1>1. /\ UNCHANGED <<wanted, userVars>> /\ pc' = "pending" /\ transport = "close"
      /\ transport' \in {"close", "terminate", "idle"}
  BY DEF CloseTransport, Running
<1>2. auto' \in BOOLEAN /\ opened' \in BOOLEAN
  BY DEF CloseTransport, ControlInv
<1>3. close' \in Closings /\ close'.status = close.status
  BY DEF CloseTransport, ControlInv, Closings
<1>4. ControlInv'
  BY <1>1, <1>2, <1>3 DEF ControlInv, userVars, Transports
<1> QED
  BY <1>1, <1>3, <1>4 DEF userVars

\* Time and Device Cloud do not touch the transport.
LEMMA OutsideTyped ==
    ASSUME ControlInv, NEW h, Environment \/ Elapse(h)
    PROVE  ControlInv' /\ UNCHANGED <<pc, connVars, userVars>>
BY DEF Environment, Elapse, ControlInv, connVars, userVars

\* The state of the transport, a session, and the memory before any step.
LEMMA InitIInv ==
    ASSUME ConstantsAssumption, Init
    PROVE  /\ IInv
           /\ Live = Elements(list)
           /\ fault # "read_freed"
<1>1. list = << >> /\ Live = {} /\ Elements(list) = {}
  BY EmptySeq DEF Init, Live, Elements
<1>2. ListInv
  <2>1. /\ list \in Seq(Handles) /\ Once(list)
    BY <1>1, EmptySeq DEF Once
  <2>2. session \in [Handles -> Session \cup {Free}] /\ active \in [Owners -> Nat]
    BY DEF Init, Owners
  <2>3. \A owner \in Owners : Of(owner) = {}
    BY <1>1 DEF Of
  <2>4. \A owner \in Owners : active[owner] = Cardinality(Of(owner))
    BY <2>3, FS_EmptySet DEF Init, Owners
  <2>5. \A owner \in Owners : active[owner] <= MaxSessions
    BY DEF Init, ConstantsAssumption, Owners
  <2> QED
    BY <1>1, <2>1, <2>2, <2>4, <2>5 DEF ListInv
<1>3. TurnInv /\ fault # "read_freed"
  BY DEF Init, TurnInv, InList
<1>4. NetInv
  <2>1. 0 \in Ids
    BY DEF ConstantsAssumption, Ids
  <2> QED
    BY <2>1 DEF Init, NetInv, Known
<1>5. ControlInv
  <2>1. /\ 0 \in Ids /\ 0 \in 0 .. MaxCalls
    BY DEF ConstantsAssumption, Ids
  <2>2. NothingPending \in Askings /\ NothingPending.kind = "none"
    BY <2>1 DEF NothingPending, Askings, Kinds
  <2>3. close \in Closings
    BY DEF Init, Closings
  <2> QED
    BY <2>1, <2>2, <2>3 DEF Init, ControlInv, Transports
<1> QED
  BY <1>1, <1>2, <1>3, <1>4, <1>5 DEF IInv

\* A step of the connector.
LEMMA ConnectorKeeps ==
    ASSUME Ready, NetInv, ControlInv, Connector
    PROVE  Proceeds /\ NetInv' /\ ControlInv'
<1>1. CASE ProcessPending
  BY <1>1, ProcessPendingProceeds, ProcessPendingTyped DEF Ready
<1>2. CASE ReceiveDatagram
  BY <1>2, ReceiveDatagramProceeds, ReceiveDatagramTyped
<1>3. CASE IdlePhase
  BY <1>3, IdlePhaseProceeds, IdlePhaseTyped
<1>4. ASSUME NEW h, NEW send, NEW take \in TakeAnswers, NEW network, NEW answer,
             Polled(h, send, take, network, answer)
      PROVE  Proceeds /\ NetInv' /\ ControlInv'
  <2>1. CASE SendPhase(h, send, network, answer)
    BY <2>1, SendPhaseProceeds, SendPhaseTyped
  <2>2. CASE ReceivePhase(h, take, answer)
    BY <2>2, ReceivePhaseProceeds, ReceivePhaseTyped DEF Ready
  <2> QED
    BY <1>4, <2>1, <2>2 DEF Polled
<1>5. CASE OpenBegin
  BY <1>5, OpenBeginKeeps
<1>6. ASSUME NEW answer \in OpenAnswers, OpenEnd(answer)
      PROVE  Proceeds /\ NetInv' /\ ControlInv'
  BY <1>6, OpenEndKeeps
<1>7. CASE Reconnect \/ Idle
  BY <1>7, ReopenKeeps
<1>8. ASSUME NEW network, NEW stop, NEW reconnect \in BOOLEAN,
             CloseTransport(network, stop, reconnect)
      PROVE  Proceeds /\ NetInv' /\ ControlInv'
  BY <1>8, CloseTransportProceeds, CloseTransportTyped
<1> QED
  BY <1>1, <1>2, <1>3, <1>4, <1>5, <1>6, <1>7, <1>8 DEF Connector

\* Any step.
LEMMA NextProceeds ==
    ASSUME ConstantsAssumption, IInv, Next
    PROVE  IInv' /\ Proceeds
<1>1. Ready /\ NetInv /\ ControlInv
  BY DEF Next, IInv, TurnInv, Ready
<1>2. CASE Connector
  BY <1>1, <1>2, ConnectorKeeps, TreatedKeeps DEF Proceeds, IInv, Ready
<1>3. CASE UserCall
  BY <1>1, <1>3, UserCallProceeds, UserCallTyped, TreatedKeeps DEF Proceeds, IInv, Ready
<1>4. CASE Environment
  <2>1. UNCHANGED listVars /\ fault' = fault
    BY <1>4 DEF Environment
  <2>2. Proceeds
    BY <1>1, <2>1, StayProceeds DEF Ready
  <2> QED
    BY <1>1, <1>4, <2>2, EnvironmentTyped, OutsideTyped, TreatedKeeps
       DEF Proceeds, IInv, Ready
<1>5. ASSUME NEW h \in Live, Elapse(h)
      PROVE  IInv' /\ Proceeds
  BY <1>1, <1>5, ElapseProceeds, OutsideTyped, TreatedKeeps DEF Proceeds, IInv, Ready
<1> QED
  BY <1>2, <1>3, <1>4, <1>5 DEF Next

\* Nothing changes.
LEMMA StutterKeeps ==
    ASSUME IInv, UNCHANGED vars
    PROVE  IInv' /\ Live' = Live
<1>1. /\ UNCHANGED <<pc, connVars, userVars, session, list, current, active>>
      /\ UNCHANGED <<packet, net, cloud, fault>>
  BY DEF vars, listVars, envVars
<1>2. Live' = Live /\ \A owner \in Owners : Of(owner)' = Of(owner)
  BY <1>1 DEF Live, Of
<1>3. ListInv'
  BY <1>1, <1>2 DEF IInv, ListInv
<1>4. TurnInv'
  BY <1>1 DEF IInv, TurnInv, InList
<1>5. NetInv' /\ ControlInv'
  BY <1>1 DEF IInv, NetInv, ControlInv, connVars, userVars
<1> QED
  BY <1>2, <1>3, <1>4, <1>5 DEF IInv

\* The invariant holds in every behaviour.
LEMMA IInvHolds ==
    ASSUME ConstantsAssumption
    PROVE  Spec => []IInv
<1>1. Init => IInv
  BY InitIInv
<1>2. IInv /\ [Next]_vars => IInv'
  BY NextProceeds, StutterKeeps
<1> QED
  BY <1>1, <1>2, PTL DEF Spec

\* The invariant gives the types.
LEMMA TypesHold ==
    ASSUME ConstantsAssumption, IInv
    PROVE  TypeOK
<1>1. /\ \A h \in Live : session[h] \in Session
      /\ list \in Seq(Handles)
  BY DEF IInv, ListInv, Live
<1>2. current \in Handles \cup {NoHandle}
  BY ListedIs DEF IInv, TurnInv, InList
<1>3. active \in [{"client", "cloud"} -> 0 .. MaxSessions]
  <2>1. \A owner \in Owners : active[owner] \in 0 .. MaxSessions
    BY DEF IInv, ListInv, ConstantsAssumption
  <2> QED
    BY <2>1 DEF IInv, ListInv, Owners
<1>4. packet.owner \in Handles \cup {NoHandle}
  BY DEF IInv, NetInv, Packets, NoPacket
<1>5. /\ pending.kind \in {"none", "start", "send", "cancel", "cancel_all"}
      /\ pending.req \in Requests \cup {NoRequest}
      /\ pending.id \in Ids
  BY DEF IInv, ControlInv, Askings, Kinds
<1>6. close \in [status: {"device_error", "stopped", "terminated"},
                 stop: {"immediately", "wait"}, callback: BOOLEAN]
  BY DEF IInv, ControlInv, Closings
<1> QED
  BY <1>1, <1>2, <1>3, <1>4, <1>5, <1>6 DEF IInv, NetInv, ControlInv, Transports, TypeOK

\* Every variable always has its type: also when sm_initialize forgets the
\* sessions, and when session->next was read from freed memory.
THEOREM TypeCorrect == Spec => []TypeOK
<1>1. IInv => TypeOK
  BY TypesHold, ConstantsAssumption
<1> QED
  BY <1>1, IInvHolds, ConstantsAssumption, PTL

-----------------------------------------------------------------------------
\* The memory of the sessions.  A start forgets them and a freed session may
\* not be there to be read: without both, what is allocated is in the list.
MemoryInv ==
    /\ IInv
    /\ Live = Elements(list)
    /\ fault # "read_freed"

\* A step keeps the memory in agreement with the list.
LEMMA MemoryStep ==
    ASSUME ConstantsAssumption, "start" \notin Calls, FreedIntact = TRUE,
           MemoryInv, [Next]_vars
    PROVE  MemoryInv'
<1>1. CASE Next
  <2>1. IInv' /\ Proceeds
    BY <1>1, NextProceeds DEF MemoryInv
  <2> QED
    BY <2>1, TreatedKeeps DEF MemoryInv, IInv, Proceeds
<1>2. CASE UNCHANGED vars
  <2>1. list' = list /\ fault' = fault
    BY <1>2 DEF vars, listVars
  <2> QED
    BY <1>2, <2>1, StutterKeeps DEF MemoryInv
<1> QED
  BY <1>1, <1>2

\* Every session in memory is in the list once, and counted for its owner, and the turn
\* is that of a session in the list or of none: as long as the transport is not started
\* again and free leaves what it frees readable.
THEOREM SessionsAreAccounted ==
    ASSUME "start" \notin Calls, FreedIntact = TRUE
    PROVE  Spec => []SessionsAccounted
<1>1. Init => MemoryInv
  BY InitIInv, ConstantsAssumption DEF MemoryInv
<1>2. MemoryInv /\ [Next]_vars => MemoryInv'
  BY MemoryStep, ConstantsAssumption
<1>3. MemoryInv => SessionsAccounted
  <2> SUFFICES ASSUME MemoryInv
               PROVE  SessionsAccounted
    OBVIOUS
  <2>1. TypeOK
    BY TypesHold, ConstantsAssumption DEF MemoryInv
  <2>2. list \in Seq(Handles) /\ Once(list) /\ Live = Elements(list)
    BY DEF MemoryInv, IInv, ListInv
  <2>3. IsInjective(list) /\ Range(list) = Live
    BY <2>2, ListWords
  <2>4. \A owner \in {"client", "cloud"} :
            active[owner] = Cardinality({h \in Live : session[h].owner = owner})
    BY <2>2 DEF MemoryInv, IInv, ListInv, Owners, Of
  <2>5. current \in Live \cup {NoHandle}
    BY <2>2 DEF MemoryInv, IInv, TurnInv, InList
  <2> QED
    BY <2>1, <2>3, <2>4, <2>5 DEF SessionsAccounted
<1> QED
  BY <1>1, <1>2, <1>3, PTL DEF Spec

-----------------------------------------------------------------------------
\* A transport that was stopped is not marked as failed, no start is pending,
\* and the network is opened from no stopped state.
StopInv ==
    /\ pending.kind # "start"
    /\ ~wanted => close.status # "device_error"
    /\ pc = "opening" => transport # "idle"

\* A step of the connector does not open a stopped transport.
LEMMA ConnectorStops ==
    ASSUME "start" \notin Calls, ~LateErrors, Ready, NetInv, ControlInv, StopInv, Connector
    PROVE  StopInv' /\ (transport = "idle" /\ transport' = "open" => wanted)
<1>1. CASE ProcessPending
  <2>1. NothingPending.kind = "none"
    BY DEF NothingPending
  <2> QED
    BY <1>1, <2>1, ProcessPendingTyped DEF StopInv, Ready
<1>2. CASE ReceiveDatagram
  BY <1>2, ReceiveDatagramTyped DEF StopInv, Apart, userVars
<1>3. CASE IdlePhase
  BY <1>3, IdlePhaseTyped DEF StopInv, Apart, userVars
<1>4. ASSUME NEW h, NEW send, NEW take \in TakeAnswers, NEW network, NEW answer,
             "error" \in {send, network} => wanted \/ LateErrors,
             Polled(h, send, take, network, answer)
      PROVE  StopInv' /\ (transport = "idle" /\ transport' = "open" => wanted)
  <2>1. CASE SendPhase(h, send, network, answer)
    BY <1>4, <2>1, SendPhaseTyped DEF StopInv, Apart, userVars
  <2>2. CASE ReceivePhase(h, take, answer)
    BY <2>2, ReceivePhaseTyped DEF Ready, StopInv, Apart, userVars
  <2> QED
    BY <1>4, <2>1, <2>2 DEF Polled
<1>5. CASE OpenBegin
  BY <1>5, OpenBeginKeeps DEF StopInv
<1>6. ASSUME NEW answer \in OpenAnswers, OpenEnd(answer)
      PROVE  StopInv' /\ (transport = "idle" /\ transport' = "open" => wanted)
  BY <1>6, OpenEndKeeps DEF StopInv
<1>7. CASE Reconnect \/ Idle
  BY <1>7, ReopenKeeps DEF StopInv
<1>8. ASSUME NEW network, NEW stop, NEW reconnect \in BOOLEAN,
             CloseTransport(network, stop, reconnect)
      PROVE  StopInv' /\ (transport = "idle" /\ transport' = "open" => wanted)
  BY <1>8, CloseTransportTyped DEF StopInv
<1> QED
  BY <1>1, <1>2, <1>3, <1>4, <1>5, <1>6, <1>7, <1>8 DEF Connector

\* No step does.
LEMMA StopStep ==
    ASSUME ConstantsAssumption, "start" \notin Calls, ~LateErrors, IInv, StopInv, [Next]_vars
    PROVE  StopInv' /\ (transport = "idle" /\ transport' = "open" => wanted)
<1>1. CASE UNCHANGED vars
  BY <1>1 DEF vars, connVars, userVars, StopInv
<1>2. ASSUME Next, Connector
      PROVE  StopInv' /\ (transport = "idle" /\ transport' = "open" => wanted)
  <2>1. Ready /\ NetInv /\ ControlInv
    BY <1>2 DEF Next, IInv, TurnInv, Ready
  <2> QED
    BY <1>2, <2>1, ConnectorStops
<1>3. CASE UserCall
  <2>1. /\ pc' = pc
        /\ pending'.kind # "start" \/ pending'.kind = pending.kind
        /\ transport' \in {transport, "close"}
        /\ UNCHANGED connVars \/ close'.status # "device_error"
    BY <1>3, UserCallTyped DEF IInv
  <2> QED
    BY <2>1 DEF StopInv, connVars
<1>4. ASSUME NEW h, Environment \/ Elapse(h)
      PROVE  StopInv' /\ (transport = "idle" /\ transport' = "open" => wanted)
  <2>1. UNCHANGED <<pc, connVars, userVars>>
    BY <1>4, OutsideTyped DEF IInv
  <2> QED
    BY <2>1 DEF StopInv, connVars, userVars
<1> QED
  BY <1>1, <1>2, <1>3, <1>4 DEF Next

\* A transport that the user stopped does not open again by itself: a failure of a
\* callback while the stop waits, which marks it as failed, is the only way in which it
\* could without another start.
THEOREM StopIsFinal ==
    ASSUME "start" \notin Calls, ~LateErrors
    PROVE  Spec => StopFinal
<1>1. Init => StopInv
  BY DEF Init, StopInv, NothingPending
<1>2. IInv /\ StopInv /\ [Next]_vars => StopInv'
  BY StopStep, ConstantsAssumption
<1>3. IInv /\ StopInv /\ [Next]_vars => [transport = "idle" /\ transport' = "open" => wanted]_vars
  BY StopStep, ConstantsAssumption
<1>4. Spec => []IInv
  BY IInvHolds, ConstantsAssumption
<1>5. Spec => []StopInv
  BY <1>1, <1>2, <1>4, PTL DEF Spec
<1> QED
  BY <1>3, <1>4, <1>5, PTL DEF Spec, StopFinal
=============================================================================
