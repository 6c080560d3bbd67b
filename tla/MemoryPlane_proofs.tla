------------------------- MODULE MemoryPlane_proofs -------------------------
(***************************************************************************)
(* Proofs about MemoryPlane, for any texts and files of any length, any    *)
(* cuts and any number of faults.  The log is what the five handlers have  *)
(* in common: an event is appended once, so that a record that waits for a *)
(* reader has not been given to it before.  From this a source goes        *)
(* through its stages in turn (Course), no epoch is numbered past the      *)
(* sources that were scheduled (Levels), and while nothing has failed a    *)
(* record that is no longer due has left behind what its event asked for   *)
(* (Requested, Indexing, Promoting).                                       *)
(***************************************************************************)
EXTENDS MemoryPlane, SequenceTheorems, FiniteSetTheorems, WellFoundedInduction, TLAPS

Waiting(q) == Range(inbox[q])
Due(q, type, s) == Event(type, s) \in Waiting(q)

Steps == {"SOURCE_REGISTERED", "CHUNK_CREATED", "EDU_SEGMENTED", "CITEM_CREATED"}
Updates == {"SUMMARY_CREATED", "SUMMARY_UPDATED"}

\* The events there are.
Known(e) ==
  \/ e.type = "FILE_UPLOADED" /\ e.of \in Files /\ e = Event(e.type, e.of)
  \/ e.type \in Steps /\ e.of \in Sources /\ e = Event(e.type, e.of)
  \/ e.type = "PROMOTED_GLOBAL" /\ e.of \in Salient /\ e = Event(e.type, e.of)
  \/ e.type \in Updates /\ e.of \in Summaries /\ e = Event(e.type, e.of)
  \/ /\ e.type = "SUMMARY_REQUESTED" /\ e.of \in Sources /\ e.level \in Summaries
     /\ e = Request(e.level, e.of)

\* No record waits twice for a reader.
Log ==
  /\ \A e \in announced : Known(e)
  /\ \A q \in Readers : inbox[q] \in Seq(announced) /\ IsInjective(inbox[q])

\* A source has the event of a stage only after its handler took the last one.
InTurn(s) ==
  /\ Announced("FILE_UPLOADED", s) \/ Announced("SOURCE_REGISTERED", s) => s \in asked
  /\ Due("source", "FILE_UPLOADED", s) => ~Announced("SOURCE_REGISTERED", s)
  /\ Announced("CHUNK_CREATED", s) =>
       Announced("SOURCE_REGISTERED", s) /\ ~Due("source", "SOURCE_REGISTERED", s)
  /\ Announced("EDU_SEGMENTED", s) =>
       Announced("CHUNK_CREATED", s) /\ ~Due("semantic", "CHUNK_CREATED", s)
  /\ Announced("CITEM_CREATED", s) =>
       Announced("EDU_SEGMENTED", s) /\ ~Due("semantic", "EDU_SEGMENTED", s)

\* RowsBeforeEvents, of one source.
Filled(s) ==
  /\ Announced("SOURCE_REGISTERED", s) => s \in registered
  /\ Announced("CHUNK_CREATED", s) => chunks[s] = Parts[s]
  /\ Announced("EDU_SEGMENTED", s) => edus[s] = Parts[s] /\ chunkIndex[s] = Parts[s]
  /\ Announced("CITEM_CREATED", s) => citems[s] = Parts[s]

\* FileStatusTrue, of one file, and what its row says before each handler.
FileRight(f) ==
  /\ file[f].status = "READY" => chunks[f] = Parts[f] /\ file[f].chunks = chunks[f]
  /\ file[f].items # 0 => file[f].items = citems[f]
  /\ file[f].status = "FAILED" => faults > 0
  /\ Due("source", "SOURCE_REGISTERED", f) \/ ~Announced("SOURCE_REGISTERED", f) =>
       file[f].status # "READY"
  /\ Announced("CHUNK_CREATED", f) => file[f].chunks = Parts[f]
  /\ Due("semantic", "EDU_SEGMENTED", f) \/ ~Announced("EDU_SEGMENTED", f) => file[f].items = 0

Course(s) == InTurn(s) /\ Filled(s) /\ (s \in Files => FileRight(s))

\* No epoch has a higher number than there are sources scheduled.
Scheduled ==
  {s \in Sources : Announced("CITEM_CREATED", s) /\ ~Due("summary", "CITEM_CREATED", s)}
Levels ==
  /\ \A e \in Requests : e.level <= Cardinality(Scheduled)
  /\ \A m \in Summaries : text[m] # {} => m <= Cardinality(Scheduled)

\* The semantic worker is at a summary while it embeds one.
Attentive ==
  reading # {} => inbox["semantic"] # <<>> /\ Head(inbox["semantic"]).type \in Updates

\* What is announced of a summary tells how often it was built at least.
Built(m) ==
  /\ builds[m] = 0 <=> text[m] = {}
  /\ Announced("SUMMARY_CREATED", m) => builds[m] >= 1
  /\ Announced("SUMMARY_UPDATED", m) => builds[m] >= 2

\* What becomes of a request.
Requested ==
  InPeace => \A e \in Requests : e.level # Master =>
    \/ e \in Waiting("builder")
    \/ text[e.level] = {e.of} /\ origins[e.level] = {e.of}
    \/ \E o \in Requests \ {e} : o.level = e.level

\* The event of a summary's last build waits until the text is in the index.
Indexing(m) ==
  InPeace =>
    /\ builds[m] = 0 => point[m] = {}
    /\ builds[m] = 1 => Due("semantic", "SUMMARY_CREATED", m) \/ point[m] = text[m]
    /\ builds[m] = 2 => Due("semantic", "SUMMARY_UPDATED", m) \/ point[m] = text[m]
    /\ reading # {} /\ Head(inbox["semantic"]).of = m =>
         /\ builds[m] = 1 => reading = text[m]
         /\ builds[m] = 2 =>
              \/ reading = text[m]
              \/ /\ Head(inbox["semantic"]) = Event("SUMMARY_CREATED", m)
                 /\ Due("semantic", "SUMMARY_UPDATED", m)

\* A source is promoted after its C-items, and once.
Promoting(s) ==
  /\ Announced("PROMOTED_GLOBAL", s) \/ s \in global => Announced("CITEM_CREATED", s)
  /\ Due("global", "CITEM_CREATED", s) => ~Announced("PROMOTED_GLOBAL", s)
  /\ InPeace /\ s \in Salient /\ Announced("CITEM_CREATED", s) =>
       \/ Due("global", "CITEM_CREATED", s) \/ Due("global", "PROMOTED_GLOBAL", s)
       \/ s \in global
Named ==
  faults = 0 =>
    globalPoints = global /\ globalText = global /\ globalOrigins = global /\ globalPoint = global

IInv ==
  /\ TypeOK /\ Log /\ Levels /\ Attentive /\ Requested /\ Named
  /\ \A s \in Sources : Course(s) /\ Promoting(s)
  /\ \A m \in Summaries : Built(m) /\ Indexing(m)

-----------------------------------------------------------------------------
(***************************************************************************)
(* Queues of records.                                                      *)
(***************************************************************************)
LEMMA TailOf ==
  ASSUME NEW S, NEW q \in Seq(S), q # <<>>, IsInjective(q)
  PROVE  /\ Tail(q) \in Seq(S) /\ IsInjective(Tail(q))
         /\ Range(Tail(q)) = Range(q) \ {Head(q)}
         /\ Head(q) \in Range(q)
<1>1. /\ Len(q) \in Nat /\ Len(q) # 0 /\ DOMAIN q = 1..Len(q) /\ Head(q) = q[1]
      /\ Tail(q) \in Seq(S) /\ Len(Tail(q)) = Len(q) - 1
      /\ \A i \in 1..Len(Tail(q)) : Tail(q)[i] = q[i + 1]
  BY HeadTailProperties, EmptySeq
<1>2. DOMAIN Tail(q) = 1..(Len(q) - 1)
  BY <1>1
<1>3. IsInjective(Tail(q))
  BY <1>1, <1>2 DEF IsInjective
<1>4. Head(q) \in Range(q)
  BY <1>1 DEF Range
<1>5. ASSUME NEW x \in Range(Tail(q)) PROVE x \in Range(q) \ {Head(q)}
  <2>1. PICK i \in 1..(Len(q) - 1) : x = q[i + 1]
    BY <1>1, <1>2 DEF Range
  <2>2. i + 1 \in 1..Len(q) /\ i + 1 # 1
    BY <1>1
  <2> QED
    BY <1>1, <2>1, <2>2 DEF Range, IsInjective
<1>6. ASSUME NEW x \in Range(q) \ {Head(q)} PROVE x \in Range(Tail(q))
  <2>1. PICK i \in 1..Len(q) : x = q[i] /\ i # 1
    BY <1>1 DEF Range
  <2>2. i - 1 \in 1..(Len(q) - 1) /\ (i - 1) + 1 = i
    BY <1>1, <2>1
  <2> QED
    BY <1>1, <1>2, <2>1, <2>2 DEF Range
<1> QED
  BY <1>1, <1>3, <1>4, <1>5, <1>6

\* One record more, if it is not there yet.
LEMMA Lengthened ==
  ASSUME NEW S, NEW q \in Seq(S), IsInjective(q), NEW n,
         n = <<>> \/ \E e \in S \ Range(q) : n = <<e>>
  PROVE  /\ q \o n \in Seq(S) /\ IsInjective(q \o n)
         /\ Range(q \o n) = Range(q) \cup Range(n)
         /\ q # <<>> => q \o n # <<>> /\ Head(q \o n) = Head(q)
<1>1. Len(q) \in Nat /\ DOMAIN q = 1..Len(q)
  OBVIOUS
<1>2. CASE n = <<>>
  <2>1. q \o n = q /\ Range(n) = {}
    BY <1>2, ConcatEmptySeq DEF Range
  <2> QED
    BY <2>1
<1>3. CASE \E e \in S \ Range(q) : n = <<e>>
  <2>1. PICK e \in S \ Range(q) : n = <<e>>
    BY <1>3
  <2>2. n \in Seq(S) /\ Len(n) = 1 /\ n[1] = e /\ Range(n) = {e}
    BY <2>1 DEF Range
  <2>3. /\ q \o n \in Seq(S) /\ Len(q \o n) = Len(q) + 1
        /\ \A i \in 1..(Len(q) + 1) : (q \o n)[i] = IF i <= Len(q) THEN q[i] ELSE n[i - Len(q)]
    BY <2>2, ConcatProperties
  <2>4. Range(q \o n) = Range(q) \cup Range(n)
    BY <2>2, RangeConcatenation
  <2>5. DOMAIN (q \o n) = 1..(Len(q) + 1)
    BY <1>1, <2>3
  <2>6. \A i \in 1..Len(q) : (q \o n)[i] = q[i] /\ q[i] # e
    BY <1>1, <2>3 DEF Range
  <2>7. (q \o n)[Len(q) + 1] = e
    BY <1>1, <2>2, <2>3
  <2>8. IsInjective(q \o n)
    BY <1>1, <2>5, <2>6, <2>7 DEF IsInjective
  <2>9. ASSUME q # <<>> PROVE q \o n # <<>> /\ Head(q \o n) = Head(q)
    <3>1. Len(q) >= 1
      BY <1>1, <2>9
    <3>2. (q \o n)[1] = q[1]
      BY <1>1, <2>3, <3>1
    <3> QED
      BY <1>1, <2>3, <3>1, <3>2
  <2> QED
    BY <2>3, <2>4, <2>8, <2>9
<1> QED
  BY <1>2, <1>3
-----------------------------------------------------------------------------
(***************************************************************************)
(* The log.  Reader r has taken a record, and the events N are appended.   *)
(***************************************************************************)
Taken(q, r) == IF q = r THEN {Head(inbox[q])} ELSE {}
Logged(r, N) ==
  /\ announced' = announced \cup N
  /\ \A q \in Readers :
       /\ inbox'[q] \in Seq(announced') /\ IsInjective(inbox'[q])
       /\ Range(inbox'[q]) =
            (Waiting(q) \ Taken(q, r)) \cup {e \in N \ announced : e.type \in Types(q)}
       /\ q # r /\ inbox[q] # <<>> => inbox'[q] # <<>> /\ Head(inbox'[q]) = Head(inbox[q])

\* What is appended waits for those who have a handler for it, if it is new.
LEMMA Appended ==
  ASSUME TypeOK, Log, NEW r, r \in Readers => inbox[r] # <<>>,
         NEW events, Advance(r, events),
         \/ events = <<>>
         \/ \E e : events = <<e>>
         \/ \E e, f : e # f /\ events = <<e, f>>
  PROVE  Logged(r, Range(events))
<1>1. announced' = announced \cup Range(events)
  BY DEF Advance
<1>2. ASSUME NEW q \in Readers
      PROVE  /\ inbox'[q] \in Seq(announced') /\ IsInjective(inbox'[q])
             /\ Range(inbox'[q]) =
                  (Waiting(q) \ Taken(q, r)) \cup {e \in Range(events) \ announced : e.type \in Types(q)}
             /\ q # r /\ inbox[q] # <<>> => inbox'[q] # <<>> /\ Head(inbox'[q]) = Head(inbox[q])
  <2> DEFINE rest == IF q = r THEN Tail(inbox[q]) ELSE inbox[q]
             new(k) == IF k <= Len(events) THEN Fresh(q, events[k]) ELSE <<>>
             fresh(k) == IF k <= Len(events) THEN {e \in {events[k]} \ announced : e.type \in Types(q)}
                         ELSE {}
  <2>1. inbox'[q] = rest \o new(1) \o new(2)
    BY DEF Advance
  <2>2. /\ inbox[q] \in Seq(announced') /\ IsInjective(inbox[q]) /\ Waiting(q) \subseteq announced
    <3>1. inbox[q] \in Seq(announced) /\ IsInjective(inbox[q]) /\ Waiting(q) \subseteq announced
      BY DEF Log, TypeOK, Waiting
    <3> QED
      BY <1>1, <3>1, SeqMonotonic
  <2>3. /\ rest \in Seq(announced') /\ IsInjective(rest) /\ Range(rest) = Waiting(q) \ Taken(q, r)
        /\ q # r => rest = inbox[q]
    BY <2>2, TailOf DEF Waiting, Taken
  <2>4. /\ Len(events) \in Nat
        /\ \A k \in {1, 2} : k <= Len(events) => events[k] \in Range(events)
        /\ Range(events) = {events[k] : k \in {i \in {1, 2} : i <= Len(events)}}
        /\ 2 <= Len(events) => events[1] # events[2]
    <3>1. CASE events = <<>>
      BY <3>1 DEF Range
    <3>2. CASE \E e : events = <<e>>
      <4>1. PICK e : events = <<e>>
        BY <3>2
      <4>2. Len(events) = 1 /\ DOMAIN events = {1} /\ events[1] = e
        BY <4>1
      <4> QED
        BY <4>2 DEF Range
    <3>3. CASE \E e, f : e # f /\ events = <<e, f>>
      <4>1. PICK e, f : e # f /\ events = <<e, f>>
        BY <3>3
      <4>2. Len(events) = 2 /\ DOMAIN events = {1, 2} /\ events[1] = e /\ events[2] = f
        BY <4>1
      <4> QED
        BY <4>1, <4>2 DEF Range
    <3> QED
      BY <3>1, <3>2, <3>3
  <2>5. \A k \in {1, 2} :
          /\ Range(new(k)) = fresh(k)
          /\ new(k) = <<>> \/ \E e \in announced' \ announced : new(k) = <<e>> /\ e = events[k]
    <3> TAKE k \in {1, 2}
    <3>1. CASE k <= Len(events) /\ events[k] \notin announced /\ events[k].type \in Types(q)
      <4>1. new(k) = <<events[k]>> /\ fresh(k) = {events[k]}
        BY <3>1 DEF Fresh
      <4> QED
        BY <1>1, <2>4, <3>1, <4>1 DEF Range
    <3>2. CASE ~(k <= Len(events) /\ events[k] \notin announced /\ events[k].type \in Types(q))
      <4>1. new(k) = <<>> /\ fresh(k) = {}
        BY <3>2 DEF Fresh
      <4> QED
        BY <4>1 DEF Range
    <3> QED
      BY <3>1, <3>2
  <2>6. fresh(1) \cup fresh(2) = {e \in Range(events) \ announced : e.type \in Types(q)}
    BY <2>4
  <2>7. 2 \in {1, 2} /\ 1 \in {1, 2}
    OBVIOUS
  <2>8. new(2) # <<>> => new(2) # new(1)
    <3> SUFFICES ASSUME new(2) # <<>>, new(2) = new(1) PROVE FALSE
      OBVIOUS
    <3>1. 2 <= Len(events) /\ new(2) = <<events[2]>>
      BY <2>5, <2>7
    <3>2. new(1) = <<events[1]>>
      BY <2>5, <2>7
    <3> QED
      BY <2>4, <3>1, <3>2
  <2>9. new(1) = <<>> \/ \E e \in announced' \ Range(rest) : new(1) = <<e>>
    BY <2>2, <2>3, <2>5, <2>7
  <2>10. new(2) = <<>> \/ \E e \in announced' \ Range(rest) : new(2) = <<e>> /\ new(1) # new(2)
    BY <2>2, <2>3, <2>5, <2>7, <2>8
  <2> HIDE DEF rest, new, fresh
  <2>11. PICK box, log : box = inbox'[q] /\ log = announced'
    OBVIOUS
  <2>12. PICK q1, n1, n2 : q1 = rest /\ n1 = new(1) /\ n2 = new(2)
    OBVIOUS
  <2>13. /\ box \in Seq(log) /\ IsInjective(box)
         /\ Range(box) = Range(q1) \cup Range(n1) \cup Range(n2)
         /\ q1 # <<>> => box # <<>> /\ Head(box) = Head(q1)
    <3>1. q1 \in Seq(log) /\ IsInjective(q1) /\ box = q1 \o n1 \o n2
      BY <2>1, <2>3, <2>11, <2>12
    <3>2. n1 = <<>> \/ \E e \in log \ Range(q1) : n1 = <<e>>
      BY <2>9, <2>11, <2>12
    <3>3. n2 = <<>> \/ \E e \in log \ Range(q1) : n2 = <<e>> /\ n1 # n2
      BY <2>10, <2>11, <2>12
    <3>4. PICK p : p = q1 \o n1
      OBVIOUS
    <3>5. box = p \o n2
      BY ONLY <3>1, <3>4, Zenon
    <3>6. /\ p \in Seq(log) /\ IsInjective(p) /\ Range(p) = Range(q1) \cup Range(n1)
          /\ q1 # <<>> => p # <<>> /\ Head(p) = Head(q1)
      <4>1. /\ q1 \o n1 \in Seq(log) /\ IsInjective(q1 \o n1) /\ Range(q1 \o n1) = Range(q1) \cup Range(n1)
            /\ q1 # <<>> => q1 \o n1 # <<>> /\ Head(q1 \o n1) = Head(q1)
        BY ONLY <3>1, <3>2, Lengthened
      <4> QED
        BY ONLY <3>4, <4>1, Zenon
    <3>7. n2 = <<>> \/ \E e \in log \ Range(p) : n2 = <<e>>
      <4>1. \A e : n1 = <<e>> => Range(n1) = {e}
        BY DEF Range
      <4>2. n1 = <<>> => Range(n1) = {}
        BY DEF Range
      <4> QED
        BY ONLY <3>2, <3>3, <3>6, <4>1, <4>2
    <3>8. /\ box \in Seq(log) /\ IsInjective(box) /\ Range(box) = Range(p) \cup Range(n2)
          /\ p # <<>> => box # <<>> /\ Head(box) = Head(p)
      <4>1. /\ p \o n2 \in Seq(log) /\ IsInjective(p \o n2) /\ Range(p \o n2) = Range(p) \cup Range(n2)
            /\ p # <<>> => p \o n2 # <<>> /\ Head(p \o n2) = Head(p)
        BY ONLY <3>6, <3>7, Lengthened
      <4> QED
        BY ONLY <3>5, <4>1, Zenon
    <3> QED
      BY ONLY <3>6, <3>8
  <2>14. Range(box) =
           (Waiting(q) \ Taken(q, r)) \cup {e \in Range(events) \ announced : e.type \in Types(q)}
    BY <2>3, <2>5, <2>6, <2>7, <2>12, <2>13
  <2>15. /\ q # r /\ inbox[q] # <<>> => box # <<>> /\ Head(box) = Head(inbox[q])
    BY <2>3, <2>12, <2>13
  <2> QED
    BY <2>11, <2>13, <2>14, <2>15, Zenon
<1> QED
  BY <1>1, <1>2 DEF Logged

LEMMA NothingAppended ==
  ASSUME TypeOK, Log, NEW r, r \in Readers => inbox[r] # <<>>, Advance(r, <<>>)
  PROVE  Logged(r, {})
<1>1. Range(<<>>) = {}
  BY DEF Range
<1> QED
  BY <1>1, Appended

LEMMA OneAppended ==
  ASSUME TypeOK, Log, NEW r, r \in Readers => inbox[r] # <<>>, NEW e, Advance(r, <<e>>)
  PROVE  Logged(r, {e})
<1>1. Range(<<e>>) = {e}
  BY DEF Range
<1> QED
  BY <1>1, Appended

LEMMA TwoAppended ==
  ASSUME TypeOK, Log, NEW r, r \in Readers => inbox[r] # <<>>, NEW e, NEW f, e # f,
         Advance(r, <<e, f>>)
  PROVE  Logged(r, {e, f})
<1>1. Range(<<e, f>>) = {e, f}
  BY DEF Range
<1> QED
  BY <1>1, Appended


-----------------------------------------------------------------------------
(***************************************************************************)
(* What keeps the parts of the invariant.                                  *)
(***************************************************************************)
LEMMA EventFields ==
  /\ \A t, s : Event(t, s).type = t /\ Event(t, s).of = s
  /\ \A t, s, u, x : Event(t, s) = Event(u, x) => t = u /\ s = x
  /\ \A l, s : /\ Request(l, s).type = "SUMMARY_REQUESTED"
               /\ Request(l, s).of = s /\ Request(l, s).level = l
BY DEF Event, Request

\* The log and its readers.
LEMMA LogKept ==
  ASSUME TypeOK, Log, NEW r, NEW N, Logged(r, N), \A e \in N : Known(e)
  PROVE  /\ Log'
         /\ \A q \in Readers : Range(inbox'[q]) \subseteq {e \in announced' : e.type \in Types(q)}
<1>1. \A e \in announced' : Known(e)
  BY DEF Log, Logged
<1>2. \A q \in Readers : inbox'[q] \in Seq(announced') /\ IsInjective(inbox'[q])
  BY DEF Logged
<1>3. \A e : Known(e)' <=> Known(e)
  BY DEF Known
<1>4. ASSUME NEW q \in Readers
      PROVE  Range(inbox'[q]) \subseteq {e \in announced' : e.type \in Types(q)}
  <2>1. Waiting(q) \subseteq {e \in announced : e.type \in Types(q)}
    BY DEF TypeOK, Waiting
  <2>2. /\ announced' = announced \cup N
        /\ Range(inbox'[q]) = (Waiting(q) \ Taken(q, r)) \cup {e \in N \ announced : e.type \in Types(q)}
    BY DEF Logged
  <2> QED
    BY <2>1, <2>2
<1> QED
  BY <1>1, <1>2, <1>3, <1>4 DEF Log

\* What only counts, of the readers that have a record to take.
Loosely(N) ==
  /\ announced' = announced \cup N
  /\ \A q \in Readers : Range(inbox'[q]) \subseteq Waiting(q) \cup (N \ announced)

LEMMA LooselyLogged ==
  ASSUME NEW r, NEW N, Logged(r, N)
  PROVE  Loosely(N)
BY DEF Logged, Loosely

LEMMA ReadersAre == Readers = {"source", "semantic", "summary", "builder", "global"}
BY DEF Readers

\* A due event of the new state was due, or is new.
LEMMA StillDue ==
  ASSUME NEW N, Loosely(N), NEW q \in Readers, NEW t, NEW s, Due(q, t, s)'
  PROVE  Due(q, t, s) \/ (Event(t, s) \in N /\ ~Announced(t, s))
BY DEF Loosely, Due, Announced, Waiting

\* A source that a step leaves alone.
Undisturbed(s) ==
  /\ (s \in asked => s \in asked') /\ (s \in registered => s \in registered')
  /\ chunks'[s] = chunks[s] /\ edus'[s] = edus[s]
  /\ citems'[s] = citems[s] /\ chunkIndex'[s] = chunkIndex[s]
  /\ s \in Files => file'[s] = file[s]

LEMMA CourseKept ==
  ASSUME TypeOK, NEW s \in Sources, Course(s), NEW N, Loosely(N), Undisturbed(s),
         faults' \in Nat, faults' >= faults,
         \A t \in Steps \cup {"FILE_UPLOADED"} : Event(t, s) \notin N
  PROVE  Course(s)'
<1>1. \A t \in Steps \cup {"FILE_UPLOADED"} : Announced(t, s)' <=> Announced(t, s)
  BY DEF Loosely, Announced
<1>2. \A t \in Steps \cup {"FILE_UPLOADED"}, q \in Readers : Due(q, t, s)' => Due(q, t, s)
  BY StillDue
<1>3. /\ "source" \in Readers /\ "semantic" \in Readers
      /\ "SOURCE_REGISTERED" \in Steps /\ "CHUNK_CREATED" \in Steps
      /\ "EDU_SEGMENTED" \in Steps /\ "CITEM_CREATED" \in Steps
  BY DEF Readers, Steps
<1>4. InTurn(s)'
  BY <1>1, <1>2, <1>3 DEF Course, InTurn, Undisturbed
<1>5. Filled(s)'
  BY <1>1, <1>3 DEF Course, Filled, Undisturbed
<1>6. ASSUME s \in Files PROVE FileRight(s)'
  <2>1. faults \in Nat
    BY BoundAssumption DEF TypeOK
  <2>2. /\ file'[s].status = "READY" => chunks'[s] = Parts[s] /\ file'[s].chunks = chunks'[s]
        /\ file'[s].items # 0 => file'[s].items = citems'[s]
        /\ file'[s].status = "FAILED" => faults' > 0
    BY <1>6, <2>1 DEF Course, FileRight, Undisturbed
  <2>3. Due("source", "SOURCE_REGISTERED", s)' \/ ~Announced("SOURCE_REGISTERED", s)' =>
          file'[s].status # "READY"
    BY <1>1, <1>2, <1>3, <1>6 DEF Course, FileRight, Undisturbed
  <2>4. Announced("CHUNK_CREATED", s)' => file'[s].chunks = Parts[s]
    BY <1>1, <1>3, <1>6 DEF Course, FileRight, Undisturbed
  <2>5. Due("semantic", "EDU_SEGMENTED", s)' \/ ~Announced("EDU_SEGMENTED", s)' => file'[s].items = 0
    BY <1>1, <1>2, <1>3, <1>6 DEF Course, FileRight, Undisturbed
  <2> QED
    BY <2>2, <2>3, <2>4, <2>5 DEF FileRight
<1> QED
  BY <1>4, <1>5, <1>6 DEF Course

\* More sources may be scheduled, none less.
LEMMA ScheduledGrows ==
  ASSUME NEW N, Loosely(N)
  PROVE  /\ Scheduled \subseteq Scheduled' /\ Scheduled' \subseteq Sources
         /\ IsFiniteSet(Scheduled) /\ IsFiniteSet(Scheduled') /\ IsFiniteSet(Sources)
         /\ Cardinality(Scheduled) \in Nat /\ Cardinality(Scheduled)' \in Nat
         /\ Cardinality(Scheduled) <= Cardinality(Scheduled)'
         /\ Cardinality(Scheduled)' <= Cardinality(Sources) /\ Cardinality(Sources) \in Nat
<1>1. "summary" \in Readers
  BY DEF Readers
<1>2. \A s : Announced("CITEM_CREATED", s) => Announced("CITEM_CREATED", s)'
  BY DEF Loosely, Announced
<1>3. \A s : Announced("CITEM_CREATED", s) /\ Due("summary", "CITEM_CREATED", s)' =>
        Due("summary", "CITEM_CREATED", s)
  BY <1>1, StillDue
<1>4. Scheduled \subseteq Scheduled'
  BY <1>2, <1>3 DEF Scheduled
<1>5. Scheduled' \subseteq Sources
  BY DEF Scheduled
<1>6. PICK old, new : old = Scheduled /\ new = Scheduled'
  OBVIOUS
<1>7. IsFiniteSet(Sources)
  BY SourcesAssumption
<1>8. IsFiniteSet(new) /\ IsFiniteSet(old) /\ Cardinality(old) <= Cardinality(new)
  BY <1>4, <1>5, <1>6, <1>7, FS_Subset
<1>9. Cardinality(new) <= Cardinality(Sources)
  BY <1>5, <1>6, <1>7, FS_Subset
<1>10. Cardinality(new) \in Nat /\ Cardinality(old) \in Nat /\ Cardinality(Sources) \in Nat
  BY <1>7, <1>8, FS_CardinalityType
<1> QED
  BY <1>4, <1>5, <1>6, <1>7, <1>8, <1>9, <1>10

LEMMA LevelsKept ==
  ASSUME TypeOK, Levels, \A e \in Requests : e.level \in Summaries,
         NEW N, Loosely(N), \A e \in N : e.type # "SUMMARY_REQUESTED", UNCHANGED text
  PROVE  Levels'
<1>1. Requests' = Requests
  BY DEF Loosely, Requests
<1>2. \A m \in Summaries : m \in Nat
  BY ScheduledGrows DEF Summaries, Epochs, Master
<1>3. PICK old, new : old = Cardinality(Scheduled) /\ new = Cardinality(Scheduled)'
  OBVIOUS
<1>4. old \in Nat /\ new \in Nat /\ old <= new
  BY <1>3, ScheduledGrows
<1>5. \A m \in Summaries : m <= old => m <= new
  BY <1>2, <1>4
<1> QED
  BY <1>1, <1>3, <1>5 DEF Levels

\* The levels that were asked for are those of summaries.
LEMMA RequestsKnown ==
  ASSUME Log
  PROVE  /\ \A e \in Requests : e.level \in Summaries /\ e.of \in Sources
         /\ \A e \in Requests : e = Request(e.level, e.of)
BY DEF Log, Known, Requests, Steps, Updates

Peaceful == /\ active' \in BOOLEAN /\ faults' \in Nat
            /\ (active' => active) /\ (faults' = 0 => faults = 0)

\* A step that is not about summaries.
LEMMA SummariesKept ==
  ASSUME TypeOK, Log, Attentive, Requested, \A m \in Summaries : Built(m) /\ Indexing(m),
         NEW r, NEW N, Logged(r, N), Peaceful, UNCHANGED <<text, origins, builds, point, reading>>,
         r # "builder",
         r = "semantic" => inbox[r] # <<>> /\ Head(inbox[r]).type \notin Updates,
         \A e \in N : e.type \notin Updates
  PROVE  /\ Attentive' /\ Requested'
         /\ \A m \in Summaries : Built(m)' /\ Indexing(m)'
<1>1. /\ "semantic" \in Readers /\ "builder" \in Readers
      /\ "SUMMARY_CREATED" \in Updates /\ "SUMMARY_UPDATED" \in Updates
  BY DEF Readers, Updates
<1>2. r = "semantic" => reading = {}
  BY DEF Attentive
<1>3. r # "semantic" /\ inbox["semantic"] # <<>> =>
        inbox'["semantic"] # <<>> /\ Head(inbox'["semantic"]) = Head(inbox["semantic"])
  BY <1>1 DEF Logged
<1>4. Attentive'
  BY <1>2, <1>3 DEF Attentive
<1>5. \A t \in Updates : \A m : Announced(t, m)' <=> Announced(t, m)
  BY EventFields DEF Logged, Announced
<1>6. ASSUME NEW t \in Updates, NEW m, Due("semantic", t, m) PROVE Due("semantic", t, m)'
  <2>1. Event(t, m) \notin Taken("semantic", r)
    BY EventFields DEF Taken
  <2> QED
    BY <1>1, <1>6, <2>1 DEF Logged, Due, Waiting
<1>7. /\ Waiting("builder") \subseteq Range(inbox'["builder"])
      /\ \A e \in Requests' \ Requests : e \in Range(inbox'["builder"])
      /\ Requests \subseteq Requests'
  <2>1. Requests' \ Requests \subseteq {e \in N \ announced : e.type \in Types("builder")}
    BY DEF Logged, Requests, Types
  <2> QED
    BY <1>1, <2>1 DEF Logged, Taken, Requests
<1>8. InPeace' => InPeace
  BY DEF Peaceful, InPeace
<1>9. ASSUME InPeace', NEW e \in Requests', e.level # Master
      PROVE  \/ e \in Range(inbox'["builder"])
             \/ text[e.level] = {e.of} /\ origins[e.level] = {e.of}
             \/ \E o \in Requests' \ {e} : o.level = e.level
  BY <1>7, <1>8, <1>9 DEF Requested, Waiting
<1>10. Requested'
  BY <1>9 DEF Requested, Waiting
<1>11. ASSUME NEW m \in Summaries PROVE Built(m)'
  BY <1>1, <1>5 DEF Built
<1>12. ASSUME NEW m \in Summaries PROVE Indexing(m)'
  <2> SUFFICES ASSUME InPeace' PROVE Indexing(m)'
    BY DEF Indexing
  <2>1. /\ builds[m] = 0 => point[m] = {}
        /\ builds[m] = 1 => Due("semantic", "SUMMARY_CREATED", m) \/ point[m] = text[m]
        /\ builds[m] = 2 => Due("semantic", "SUMMARY_UPDATED", m) \/ point[m] = text[m]
    BY <1>8 DEF Indexing
  <2>2. /\ builds[m] = 0 => point[m] = {}
        /\ builds[m] = 1 => Due("semantic", "SUMMARY_CREATED", m)' \/ point[m] = text[m]
        /\ builds[m] = 2 => Due("semantic", "SUMMARY_UPDATED", m)' \/ point[m] = text[m]
    BY <1>1, <1>6, <2>1
  <2>3. ASSUME reading # {}, Head(inbox'["semantic"]).of = m
        PROVE  /\ builds[m] = 1 => reading = text[m]
               /\ builds[m] = 2 =>
                    \/ reading = text[m]
                    \/ /\ Head(inbox'["semantic"]) = Event("SUMMARY_CREATED", m)
                       /\ Due("semantic", "SUMMARY_UPDATED", m)'
    <3>1. Head(inbox'["semantic"]) = Head(inbox["semantic"])
      BY <1>2, <1>3, <2>3 DEF Attentive
    <3>2. /\ builds[m] = 1 => reading = text[m]
          /\ builds[m] = 2 =>
               \/ reading = text[m]
               \/ /\ Head(inbox["semantic"]) = Event("SUMMARY_CREATED", m)
                  /\ Due("semantic", "SUMMARY_UPDATED", m)
      BY <1>8, <2>3, <3>1 DEF Indexing
    <3> QED
      BY <1>1, <1>6, <3>1, <3>2
  <2> QED
    BY <2>2, <2>3 DEF Indexing
<1> QED
  BY <1>4, <1>10, <1>11, <1>12

\* A step that is not the global worker's.
LEMMA GlobalsKept ==
  ASSUME TypeOK, Named, \A s \in Sources : Promoting(s),
         NEW r, NEW N, Logged(r, N), Peaceful, UNCHANGED globals, r # "global",
         \A e \in N : e.type # "PROMOTED_GLOBAL"
  PROVE  Named' /\ \A s \in Sources : Promoting(s)'
<1>1. /\ "global" \in Readers /\ "CITEM_CREATED" \in Types("global")
      /\ "PROMOTED_GLOBAL" \in Types("global")
  BY DEF Readers, Types
<1>2. Named'
  BY DEF Named, Peaceful, globals
<1>3. ASSUME NEW s \in Sources PROVE Promoting(s)'
  <2>1. Announced("PROMOTED_GLOBAL", s)' <=> Announced("PROMOTED_GLOBAL", s)
    BY EventFields DEF Logged, Announced
  <2>2. Announced("CITEM_CREATED", s) => Announced("CITEM_CREATED", s)'
    BY DEF Logged, Announced
  <2>3. \A t : Due("global", t, s) => Due("global", t, s)'
    BY <1>1 DEF Logged, Due, Waiting, Taken
  <2>4. Due("global", "CITEM_CREATED", s)' =>
          Due("global", "CITEM_CREATED", s) \/ ~Announced("CITEM_CREATED", s)
    BY <1>1 DEF Logged, Due, Waiting, Announced
  <2>5. Announced("CITEM_CREATED", s)' =>
          Announced("CITEM_CREATED", s) \/ Due("global", "CITEM_CREATED", s)'
    BY <1>1, EventFields DEF Logged, Due, Waiting, Announced
  <2>6. InPeace' => InPeace
    BY DEF Peaceful, InPeace
  <2> QED
    BY <2>1, <2>2, <2>3, <2>4, <2>5, <2>6 DEF Promoting, globals
<1> QED
  BY <1>2, <1>3

-----------------------------------------------------------------------------
(***************************************************************************)
(* Rows and records.                                                       *)
(***************************************************************************)
Bounded(count) == count \in [Sources -> Nat] /\ \A s \in Sources : count[s] <= Parts[s]
FileRows == [status : {"NONE", "QUEUED", "PROCESSING", "READY", "FAILED"}, chunks : Nat, items : Nat]
RowTypes ==
  /\ asked \subseteq Sources /\ registered \subseteq Sources
  /\ file \in [Files -> FileRows]
  /\ Bounded(chunks) /\ Bounded(edus) /\ Bounded(citems)
  /\ Bounded(chunkIndex) /\ Bounded(citemIndex)
RestTypes ==
  /\ active \in BOOLEAN /\ faults \in 0..MaxFaults
  /\ text \in [Summaries -> SUBSET Sources] /\ origins \in [Summaries -> SUBSET Sources]
  /\ point \in [Summaries -> SUBSET Sources] /\ reading \in SUBSET Sources
  /\ builds \in [Summaries -> Nat]
  /\ global \subseteq Salient /\ globalPoints \subseteq global
  /\ globalText \subseteq global /\ globalOrigins \subseteq global /\ globalPoint \subseteq global
InboxTypes == \A q \in Readers : Range(inbox[q]) \subseteq {e \in announced : e.type \in Types(q)}

LEMMA TypeParts == TypeOK <=> RowTypes /\ RestTypes /\ InboxTypes
BY DEF TypeOK, RowTypes, RestTypes, InboxTypes, Bounded, FileRows

\* The number of s becomes k.
Saved(old, new, s, k) == new = [old EXCEPT ![s] = k]

LEMMA LeastIs ==
  ASSUME NEW a \in Nat, NEW b \in Nat
  PROVE  /\ Least(a, b) \in Nat /\ Least(a, b) <= b
         /\ a >= b => Least(a, b) = b
         /\ a < b => Least(a, b) = a
BY DEF Least

LEMMA AfterIs ==
  ASSUME NEW n \in Nat, NEW k \in Nat
  PROVE  After(n, k) \in Nat /\ (n > k => After(n, k) = n - k)
BY DEF After

LEMMA PartsAre == \A s \in Sources : Parts[s] \in Nat /\ Parts[s] >= 1
BY PartsAssumption

LEMMA MakesSome ==
  ASSUME faults \in 0..MaxFaults, NEW n, NEW all \in Nat, Makes(n, all)
  PROVE  /\ n \in 0..all /\ faults' \in 0..MaxFaults /\ faults' \in Nat /\ faults' >= faults
         /\ faults' = 0 => faults = 0 /\ n = all
         /\ n # all => faults' > 0
BY BoundAssumption DEF Makes

\* The event that a last write appends.
Told(n, all, e) == IF n = all THEN {e} ELSE {}

LEMMA FinalLogged ==
  ASSUME TypeOK, Log, NEW r, r \in Readers => inbox[r] # <<>>, NEW n, NEW all, NEW e,
         Advance(r, Final(n, all, e))
  PROVE  Logged(r, Told(n, all, e))
<1>1. CASE n = all
  <2>1. Final(n, all, e) = <<e>> /\ Told(n, all, e) = {e}
    BY <1>1 DEF Final, Told
  <2>2. Advance(r, <<e>>)
    BY <2>1
  <2> QED
    BY <2>1, <2>2, OneAppended
<1>2. CASE n # all
  <2>1. Final(n, all, e) = <<>> /\ Told(n, all, e) = {}
    BY <1>2 DEF Final, Told
  <2>2. Advance(r, <<>>)
    BY <2>1
  <2> QED
    BY <2>1, <2>2, NothingAppended
<1> QED
  BY <1>1, <1>2

\* The record at the head of a reader.
LEMMA HeadKnown ==
  ASSUME TypeOK, Log, NEW r \in Readers, inbox[r] # <<>>
  PROVE  Current(r) \in announced /\ Known(Current(r)) /\ Current(r) \in Waiting(r)
<1>1. inbox[r] \in Seq(announced) /\ IsInjective(inbox[r])
  BY DEF Log
<1>2. Head(inbox[r]) \in Range(inbox[r]) /\ Range(inbox[r]) \subseteq announced
  BY <1>1, TailOf DEF TypeOK
<1> QED
  BY <1>2 DEF Log, Current, Waiting

LEMMA HeadTaken ==
  ASSUME TypeOK, Log, NEW r \in Readers, inbox[r] # <<>>, NEW t, Head(inbox[r]).type = t,
         NEW s, s = Current(r).of, t \in Steps \cup Updates \cup {"FILE_UPLOADED", "PROMOTED_GLOBAL"}
  PROVE  /\ Head(inbox[r]) = Event(t, s)
         /\ Due(r, t, s) /\ Announced(t, s) /\ Known(Event(t, s))
         /\ t \in Steps => s \in Sources
         /\ t \in Updates => s \in Summaries
         /\ t = "FILE_UPLOADED" => s \in Files
         /\ t = "PROMOTED_GLOBAL" => s \in Salient
         /\ \A N : Logged(r, N) => ~Due(r, t, s)'
<1>1. Current(r) \in announced /\ Known(Current(r)) /\ Current(r) \in Waiting(r)
  BY HeadKnown
<1>2. /\ Current(r) = Event(t, s)
      /\ t \in Steps => s \in Sources
      /\ t \in Updates => s \in Summaries
      /\ t = "FILE_UPLOADED" => s \in Files
      /\ t = "PROMOTED_GLOBAL" => s \in Salient
  BY <1>1 DEF Known, Current, Steps, Updates
<1>3. ASSUME NEW N, Logged(r, N) PROVE ~Due(r, t, s)'
  <2>1. Range(inbox'[r]) = (Waiting(r) \ Taken(r, r)) \cup {e \in N \ announced : e.type \in Types(r)}
    BY <1>3 DEF Logged
  <2>2. Event(t, s) \in announced /\ Event(t, s) \in Taken(r, r)
    BY <1>1, <1>2 DEF Taken, Current
  <2> QED
    BY <2>1, <2>2 DEF Due, Waiting
<1> QED
  BY <1>1, <1>2, <1>3 DEF Due, Announced, Current

LEMMA TakesHead ==
  ASSUME TypeOK, Log, NEW r \in Readers, NEW t, Given(r, t),
         NEW s, s = Current(r).of, t \in Steps \cup Updates \cup {"FILE_UPLOADED", "PROMOTED_GLOBAL"}
  PROVE  /\ inbox[r] # <<>> /\ Head(inbox[r]) = Event(t, s) /\ Head(inbox[r]).type = t
         /\ Due(r, t, s) /\ Announced(t, s) /\ Known(Event(t, s))
         /\ t \in Steps => s \in Sources
         /\ t \in Updates => s \in Summaries
         /\ t = "FILE_UPLOADED" => s \in Files
         /\ t = "PROMOTED_GLOBAL" => s \in Salient
         /\ \A N : Logged(r, N) => ~Due(r, t, s)'
<1>1. inbox[r] # <<>> /\ Head(inbox[r]).type = t
  BY DEF Given
<1> QED
  BY <1>1, HeadTaken

LEMMA DueIsAnnounced ==
  ASSUME TypeOK, NEW q \in Readers, NEW t, NEW s, Due(q, t, s)
  PROVE  Announced(t, s)
BY DEF TypeOK, Due, Waiting, Announced

-----------------------------------------------------------------------------
(***************************************************************************)
(* The routes, the source worker and the semantic worker up to C-items:    *)
(* they touch the rows of one source and nothing of summaries and globals. *)
(***************************************************************************)
LEMMA Plain ==
  ASSUME IInv, NEW r, NEW N, Logged(r, N), active' = active,
         faults' \in 0..MaxFaults, faults' >= faults, UNCHANGED <<sums, index, globals>>,
         r \notin {"builder", "global"},
         r = "semantic" => inbox[r] # <<>> /\ Head(inbox[r]).type \in Steps,
         \A e \in N : Known(e) /\ e.type \in Steps \cup {"FILE_UPLOADED"},
         RowTypes', \A s \in Sources : Course(s)'
  PROVE  IInv'
<1>1. faults \in Nat /\ faults' \in Nat /\ Peaceful
  BY BoundAssumption DEF IInv, TypeOK, Peaceful
<1>2. UNCHANGED <<text, origins, builds, point, reading>>
  BY DEF sums, index
<1>3. \A e \in N : e.type \notin Updates /\ e.type \notin {"SUMMARY_REQUESTED", "PROMOTED_GLOBAL"}
  BY DEF Steps, Updates
<1>4. \A t \in Steps : t \notin Updates
  BY DEF Steps, Updates
<1>5. Log' /\ InboxTypes'
  BY LogKept DEF IInv, InboxTypes
<1>6. RestTypes'
  BY <1>2, TypeParts DEF IInv, RestTypes, globals
<1>7. TypeOK'
  BY <1>5, <1>6, TypeParts, PTL
<1>8. Levels'
  BY <1>2, <1>3, RequestsKnown, LooselyLogged, LevelsKept DEF IInv
<1>9. /\ Attentive' /\ Requested'
      /\ \A m \in Summaries : Built(m)' /\ Indexing(m)'
  BY <1>1, <1>2, <1>3, <1>4, SummariesKept DEF IInv
<1>10. Named' /\ \A s \in Sources : Promoting(s)'
  BY <1>1, <1>3, GlobalsKept DEF IInv
<1> QED
  BY <1>5, <1>7, <1>8, <1>9, <1>10 DEF IInv

LEMMA StepsAre ==
  /\ \A t \in Steps \cup {"FILE_UPLOADED"} :
       t \in {"SOURCE_REGISTERED", "CHUNK_CREATED", "EDU_SEGMENTED", "CITEM_CREATED", "FILE_UPLOADED"}
  /\ {"SOURCE_REGISTERED", "CHUNK_CREATED", "EDU_SEGMENTED", "CITEM_CREATED"} \subseteq Steps
  /\ "source" \in Readers /\ "semantic" \in Readers /\ "route" \notin Readers
BY DEF Steps, Readers

\* The one event that a step may append is of another source.
LEMMA OthersTold ==
  ASSUME NEW n, NEW all, NEW u, NEW s, NEW x, x # s
  PROVE  \A t : Event(t, x) \notin Told(n, all, Event(u, s))
BY EventFields DEF Told

LEMMA TextKeeps ==
  ASSUME IInv, NEW s, NEW n, RegisterText(s, n)
  PROVE  IInv'
<1>0. TypeOK /\ Log /\ RowTypes /\ faults \in 0..MaxFaults /\ faults \in Nat
  BY TypeParts, BoundAssumption DEF IInv, RestTypes
<1> DEFINE e == Event("SOURCE_REGISTERED", s)
           N == Told(n, 2, e)
<1>1. /\ s \in Texts \ asked /\ s \in Sources /\ s \notin Files /\ Makes(n, 2) /\ active' = active
      /\ asked' = asked \cup {s}
      /\ registered' = IF n >= 1 THEN registered \cup {s} ELSE registered
      /\ Advance("route", Final(n, 2, e))
      /\ UNCHANGED <<file, chunks, edus, citems, chunkIndex, citemIndex, sums, index, globals>>
  BY SourcesAssumption DEF RegisterText, Sources
<1>2. /\ n \in 0..2 /\ faults' \in 0..MaxFaults /\ faults' \in Nat /\ faults' >= faults
  BY <1>0, <1>1, MakesSome
<1>3. Logged("route", N)
  BY <1>0, <1>1, StepsAre, FinalLogged
<1>4. RowTypes'
  BY <1>0, <1>1 DEF RowTypes, Bounded
<1>5. \A f \in N : Known(f) /\ f.type \in Steps \cup {"FILE_UPLOADED"}
  BY <1>1, EventFields, StepsAre DEF Known, Told
<1>6. Loosely(N)
  BY <1>3, LooselyLogged
<1>7. ASSUME NEW x \in Sources \ {s} PROVE Course(x)'
  <2>1. Undisturbed(x)
    BY <1>1 DEF Undisturbed
  <2>2. \A t : Event(t, x) \notin N
    BY <1>7, OthersTold
  <2> QED
    BY <1>0, <1>2, <1>6, <2>1, <2>2, CourseKept DEF IInv
<1>8. Course(s)'
  <2>1. /\ ~Announced("FILE_UPLOADED", s) /\ ~Announced("SOURCE_REGISTERED", s)
        /\ ~Announced("CHUNK_CREATED", s) /\ ~Announced("EDU_SEGMENTED", s)
        /\ ~Announced("CITEM_CREATED", s)
    BY <1>1 DEF IInv, Course, InTurn
  <2>2. /\ ~Announced("FILE_UPLOADED", s)' /\ ~Announced("CHUNK_CREATED", s)'
        /\ ~Announced("EDU_SEGMENTED", s)' /\ ~Announced("CITEM_CREATED", s)'
        /\ Announced("SOURCE_REGISTERED", s)' => n = 2
    BY <1>6, <2>1, EventFields DEF Loosely, Announced, Told
  <2>3. ~Due("source", "FILE_UPLOADED", s)'
    BY <1>0, <1>6, <2>1, StillDue, DueIsAnnounced, StepsAre, EventFields DEF Told
  <2>4. InTurn(s)' /\ Filled(s)'
    BY <1>1, <2>2, <2>3 DEF InTurn, Filled
  <2> QED
    BY <1>1, <2>4 DEF Course
<1> HIDE DEF N
<1> QED
  BY <1>1, <1>2, <1>3, <1>4, <1>5, <1>7, <1>8, Plain

LEMMA UploadKeeps ==
  ASSUME IInv, NEW s, NEW n, RegisterFileUpload(s, n)
  PROVE  IInv'
<1>0. TypeOK /\ Log /\ RowTypes /\ faults \in 0..MaxFaults /\ faults \in Nat
  BY TypeParts, BoundAssumption DEF IInv, RestTypes
<1> DEFINE e == Event("FILE_UPLOADED", s)
           N == Told(n, 2, e)
<1>1. /\ s \in Files \ asked /\ s \in Sources /\ Makes(n, 2) /\ active' = active
      /\ asked' = asked \cup {s}
      /\ file' = IF n >= 1 THEN [file EXCEPT ![s].status = "QUEUED"] ELSE file
      /\ Advance("route", Final(n, 2, e))
      /\ UNCHANGED <<registered, chunks, edus, citems, chunkIndex, citemIndex, sums, index, globals>>
  BY DEF RegisterFileUpload, Sources, NewFileRow
<1>2. /\ n \in 0..2 /\ faults' \in 0..MaxFaults /\ faults' \in Nat /\ faults' >= faults
  BY <1>0, <1>1, MakesSome
<1>3. Logged("route", N)
  BY <1>0, <1>1, StepsAre, FinalLogged
<1>4. /\ file' \in [Files -> FileRows]
      /\ \A f \in Files \ {s} : file'[f] = file[f]
      /\ file'[s] = file[s] \/ file'[s] = [file[s] EXCEPT !.status = "QUEUED"]
  BY <1>0, <1>1 DEF RowTypes, FileRows
<1>5. RowTypes'
  BY <1>0, <1>1, <1>4 DEF RowTypes, Bounded
<1>6. \A f \in N : Known(f) /\ f.type \in Steps \cup {"FILE_UPLOADED"}
  BY <1>1, EventFields, StepsAre DEF Known, Told
<1>7. Loosely(N)
  BY <1>3, LooselyLogged
<1>8. ASSUME NEW x \in Sources \ {s} PROVE Course(x)'
  <2>1. Undisturbed(x)
    BY <1>1, <1>4 DEF Undisturbed
  <2>2. \A t : Event(t, x) \notin N
    BY <1>8, OthersTold
  <2> QED
    BY <1>0, <1>2, <1>7, <2>1, <2>2, CourseKept DEF IInv
<1>9. Course(s)'
  <2>1. /\ ~Announced("SOURCE_REGISTERED", s) /\ ~Announced("CHUNK_CREATED", s)
        /\ ~Announced("EDU_SEGMENTED", s) /\ ~Announced("CITEM_CREATED", s)
    BY <1>1 DEF IInv, Course, InTurn
  <2>2. /\ ~Announced("SOURCE_REGISTERED", s)' /\ ~Announced("CHUNK_CREATED", s)'
        /\ ~Announced("EDU_SEGMENTED", s)' /\ ~Announced("CITEM_CREATED", s)'
    BY <1>7, <2>1, EventFields DEF Loosely, Announced, Told
  <2>3. InTurn(s)' /\ Filled(s)'
    BY <1>1, <2>2 DEF InTurn, Filled
  <2>4. /\ file[s].status # "READY" /\ file[s].items = 0
        /\ file[s].status = "FAILED" => faults > 0
    BY <1>1, <2>1 DEF IInv, Course, FileRight
  <2>5. /\ file'[s].status # "READY" /\ file'[s].items = 0
        /\ file'[s].status = "FAILED" => faults' > 0
    BY <1>0, <1>1, <1>2, <1>4, <2>4 DEF RowTypes, FileRows
  <2>6. FileRight(s)'
    BY <2>2, <2>5 DEF FileRight
  <2> QED
    BY <2>3, <2>6 DEF Course
<1> HIDE DEF N
<1> QED
  BY <1>1, <1>2, <1>3, <1>5, <1>6, <1>8, <1>9, Plain

LEMMA UploadedKeeps ==
  ASSUME IInv, NEW n, NEW raised \in BOOLEAN, HandleFileUploaded(n, raised)
  PROVE  IInv'
<1>0. TypeOK /\ Log /\ RowTypes /\ faults \in 0..MaxFaults /\ faults \in Nat
  BY TypeParts, BoundAssumption DEF IInv, RestTypes
<1>1. PICK s : s = Current("source").of
  OBVIOUS
<1> DEFINE e == Event("SOURCE_REGISTERED", s)
           N == IF n >= 3 THEN {e} ELSE {}
<1>2. /\ Given("source", "FILE_UPLOADED") /\ Makes(n, 4) /\ active' = active
      /\ raised => n \in 1..3
      /\ file' = IF n = 0 THEN file
                 ELSE [file EXCEPT ![s] = FileRow(IF raised THEN "FAILED" ELSE "PROCESSING", 0, 0)]
      /\ registered' = IF n >= 2 THEN registered \cup {s} ELSE registered
      /\ Advance("source", IF n >= 3 THEN <<e>> ELSE <<>>)
      /\ UNCHANGED <<asked, chunks, edus, citems, chunkIndex, citemIndex, sums, index, globals>>
  BY <1>1 DEF HandleFileUploaded
<1>3. /\ s \in Files /\ s \in Sources /\ inbox["source"] # <<>>
      /\ Due("source", "FILE_UPLOADED", s) /\ Announced("FILE_UPLOADED", s)
      /\ \A M : Logged("source", M) => ~Due("source", "FILE_UPLOADED", s)'
  BY <1>0, <1>1, <1>2, StepsAre, TakesHead DEF Sources
<1>4. /\ n \in 0..4 /\ faults' \in 0..MaxFaults /\ faults' \in Nat /\ faults' >= faults
      /\ n # 4 => faults' > 0
  BY <1>0, <1>2, MakesSome
<1>5. Logged("source", N)
  <2>1. CASE n >= 3
    <3>1. Advance("source", <<e>>)
      BY <1>2, <2>1
    <3> QED
      BY <1>0, <1>3, <2>1, <3>1, OneAppended
  <2>2. CASE ~(n >= 3)
    <3>1. Advance("source", <<>>)
      BY <1>2, <2>2
    <3> QED
      BY <1>0, <1>3, <2>2, <3>1, NothingAppended
  <2> QED
    BY <2>1, <2>2
<1>6. /\ file' \in [Files -> FileRows]
      /\ \A f \in Files \ {s} : file'[f] = file[f]
      /\ \/ n = 0 /\ file'[s] = file[s]
         \/ /\ file'[s].status = "PROCESSING" \/ (file'[s].status = "FAILED" /\ n # 4)
            /\ file'[s].chunks = 0 /\ file'[s].items = 0
  <2>1. \A t : FileRow(t, 0, 0) = [status |-> t, chunks |-> 0, items |-> 0]
    BY DEF FileRow
  <2> QED
    BY <1>0, <1>2, <1>3, <1>4, <2>1 DEF RowTypes, FileRows
<1>7. RowTypes'
  BY <1>0, <1>2, <1>3, <1>6 DEF RowTypes, Bounded
<1>8. \A f \in N : Known(f) /\ f.type \in Steps \cup {"FILE_UPLOADED"}
  BY <1>3, EventFields, StepsAre DEF Known
<1>9. Loosely(N)
  BY <1>5, LooselyLogged
<1>10. ASSUME NEW x \in Sources \ {s} PROVE Course(x)'
  <2>1. Undisturbed(x)
    BY <1>2, <1>6 DEF Undisturbed
  <2>2. \A t : Event(t, x) \notin N
    BY <1>10, EventFields
  <2> QED
    BY <1>0, <1>4, <1>9, <2>1, <2>2, CourseKept DEF IInv
<1>11. Course(s)'
  <2>1. /\ ~Announced("SOURCE_REGISTERED", s) /\ s \in asked
        /\ ~Announced("CHUNK_CREATED", s) /\ ~Announced("EDU_SEGMENTED", s)
        /\ ~Announced("CITEM_CREATED", s)
    BY <1>3 DEF IInv, Course, InTurn
  <2>2. /\ Announced("SOURCE_REGISTERED", s)' => n >= 3
        /\ ~Announced("CHUNK_CREATED", s)' /\ ~Announced("EDU_SEGMENTED", s)'
        /\ ~Announced("CITEM_CREATED", s)'
    BY <1>9, <2>1, EventFields DEF Loosely, Announced
  <2>3. ~Due("source", "FILE_UPLOADED", s)'
    BY <1>3, <1>5
  <2>4. InTurn(s)' /\ Filled(s)'
    BY <1>2, <1>4, <2>1, <2>2, <2>3 DEF InTurn, Filled
  <2>5. /\ file[s].status # "READY" /\ file[s].items = 0
        /\ file[s].status = "FAILED" => faults > 0
    BY <1>3, <2>1 DEF IInv, Course, FileRight
  <2>6. /\ file'[s].status # "READY" /\ file'[s].items = 0
        /\ file'[s].status = "FAILED" => faults' > 0
    BY <1>0, <1>4, <1>6, <2>5
  <2>7. FileRight(s)'
    BY <2>2, <2>6 DEF FileRight
  <2> QED
    BY <2>4, <2>7 DEF Course
<1> HIDE DEF N
<1>12. "source" \notin {"builder", "global"} /\ "source" # "semantic"
  OBVIOUS
<1> QED
  BY <1>2, <1>4, <1>5, <1>7, <1>8, <1>10, <1>11, <1>12, Plain

LEMMA ChunkKeeps ==
  ASSUME IInv, NEW n, ChunkSource(n)
  PROVE  IInv'
<1>0. TypeOK /\ Log /\ RowTypes /\ faults \in 0..MaxFaults /\ faults \in Nat
  BY TypeParts, BoundAssumption DEF IInv, RestTypes
<1>1. PICK s : s = Current("source").of
  OBVIOUS
<1> DEFINE e == Event("CHUNK_CREATED", s)
           N == Told(n, Parts[s] + 2, e)
<1>2. /\ Given("source", "SOURCE_REGISTERED") /\ active' = active
      /\ Makes(n, IF s \in Foreign THEN 0 ELSE Parts[s] + 2)
      /\ chunks' = [chunks EXCEPT ![s] = Least(n, Parts[s])]
      /\ file' = IF s \in Files /\ n > Parts[s]
                 THEN [file EXCEPT ![s] = FileRow("READY", Parts[s], 0)] ELSE file
      /\ Advance("source", Final(n, Parts[s] + 2, e))
      /\ UNCHANGED <<asked, registered, edus, citems, chunkIndex, citemIndex, sums, index, globals>>
  BY <1>1 DEF ChunkSource, ChunkRows
<1>3. /\ s \in Sources /\ inbox["source"] # <<>> /\ Parts[s] \in Nat /\ Parts[s] >= 1
      /\ Due("source", "SOURCE_REGISTERED", s) /\ Announced("SOURCE_REGISTERED", s)
      /\ \A M : Logged("source", M) => ~Due("source", "SOURCE_REGISTERED", s)'
  BY <1>0, <1>1, <1>2, StepsAre, PartsAre, TakesHead
<1>4. /\ n \in 0..(Parts[s] + 2) /\ n \in Nat /\ faults' \in 0..MaxFaults /\ faults' \in Nat /\ faults' >= faults
  <2>1. PICK all \in {0, Parts[s] + 2} : Makes(n, all)
    BY <1>2
  <2>2. all \in Nat /\ all <= Parts[s] + 2
    BY <1>3, <2>1
  <2>3. /\ n \in 0..all /\ faults' \in 0..MaxFaults /\ faults' \in Nat /\ faults' >= faults
    BY <1>0, <2>1, <2>2, MakesSome
  <2> QED
    BY <1>3, <2>2, <2>3
<1>5. Logged("source", N)
  BY <1>0, <1>2, <1>3, FinalLogged
<1>6. /\ Bounded(chunks') /\ \A x \in Sources \ {s} : chunks'[x] = chunks[x]
      /\ n >= Parts[s] => chunks'[s] = Parts[s]
  <2>1. /\ Least(n, Parts[s]) \in Nat /\ Least(n, Parts[s]) <= Parts[s]
        /\ n >= Parts[s] => Least(n, Parts[s]) = Parts[s]
    BY <1>3, <1>4, LeastIs
  <2>2. Bounded(chunks) /\ Saved(chunks, chunks', s, Least(n, Parts[s]))
    BY <1>0, <1>2 DEF RowTypes, Saved
  <2> QED
    BY <1>3, <2>1, <2>2 DEF Bounded, Saved
<1>7. /\ file' \in [Files -> FileRows]
      /\ \A f \in Files \ {s} : file'[f] = file[f]
      /\ s \in Files =>
           \/ n > Parts[s] /\ file'[s] = [status |-> "READY", chunks |-> Parts[s], items |-> 0]
           \/ n <= Parts[s] /\ file'[s] = file[s]
  <2>1. FileRow("READY", Parts[s], 0) = [status |-> "READY", chunks |-> Parts[s], items |-> 0]
    BY DEF FileRow
  <2> QED
    BY <1>0, <1>2, <1>3, <1>4, <2>1 DEF RowTypes, FileRows
<1>8. RowTypes'
  BY <1>0, <1>2, <1>6, <1>7 DEF RowTypes, Bounded
<1>9. \A f \in N : Known(f) /\ f.type \in Steps \cup {"FILE_UPLOADED"}
  BY <1>3, EventFields, StepsAre DEF Known, Told
<1>10. Loosely(N)
  BY <1>5, LooselyLogged
<1>11. ASSUME NEW x \in Sources \ {s} PROVE Course(x)'
  <2>1. Undisturbed(x)
    BY <1>2, <1>6, <1>7, <1>11 DEF Undisturbed
  <2>2. \A t : Event(t, x) \notin N
    BY <1>11, OthersTold
  <2> QED
    BY <1>0, <1>4, <1>10, <2>1, <2>2, CourseKept DEF IInv
<1>12. Course(s)'
  <2>1. /\ ~Announced("CHUNK_CREATED", s) /\ ~Announced("EDU_SEGMENTED", s)
        /\ ~Announced("CITEM_CREATED", s) /\ s \in asked /\ s \in registered
    BY <1>3 DEF IInv, Course, InTurn, Filled
  <2>2. /\ Announced("CHUNK_CREATED", s)' => n > Parts[s] /\ n >= Parts[s]
        /\ ~Announced("EDU_SEGMENTED", s)' /\ ~Announced("CITEM_CREATED", s)'
        /\ Announced("SOURCE_REGISTERED", s)'
        /\ Announced("FILE_UPLOADED", s)' <=> Announced("FILE_UPLOADED", s)
    BY <1>3, <1>10, <2>1, EventFields DEF Loosely, Announced, Told
  <2>3. ~Due("source", "SOURCE_REGISTERED", s)' /\ ~Due("source", "FILE_UPLOADED", s)'
    <3>1. ~Due("source", "FILE_UPLOADED", s)
      BY <1>3 DEF IInv, Course, InTurn
    <3>2. Event("FILE_UPLOADED", s) \notin N
      BY EventFields DEF Told
    <3> QED
      BY <1>3, <1>5, <1>10, <3>1, <3>2, StillDue, StepsAre
  <2>4. InTurn(s)' /\ Filled(s)'
    BY <1>2, <1>6, <2>1, <2>2, <2>3 DEF InTurn, Filled
  <2>5. ASSUME s \in Files PROVE FileRight(s)'
    <3>1. /\ file[s].status # "READY" /\ file[s].items = 0
          /\ file[s].status = "FAILED" => faults > 0
      BY <1>3, <2>1, <2>5 DEF IInv, Course, FileRight
    <3>2. /\ file'[s].items = 0
          /\ file'[s].status = "FAILED" => faults' > 0
          /\ file'[s].status = "READY" => n > Parts[s]
          /\ n > Parts[s] => file'[s].chunks = Parts[s]
      BY <1>0, <1>3, <1>4, <1>7, <2>5, <3>1
    <3> QED
      BY <1>3, <1>4, <1>6, <2>2, <2>3, <3>2 DEF FileRight
  <2> QED
    BY <2>4, <2>5 DEF Course
<1> HIDE DEF N
<1>13. "source" \notin {"builder", "global"} /\ "source" # "semantic"
  OBVIOUS
<1> QED
  BY <1>2, <1>4, <1>5, <1>8, <1>9, <1>11, <1>12, <1>13, Plain

LEMMA SegmentKeeps ==
  ASSUME IInv, NEW n, SegmentChunks(n)
  PROVE  IInv'
<1>0. TypeOK /\ Log /\ RowTypes /\ faults \in 0..MaxFaults /\ faults \in Nat
  BY TypeParts, BoundAssumption DEF IInv, RestTypes
<1>1. PICK s, k : s = Current("semantic").of /\ k = Parts[s]
  OBVIOUS
<1> DEFINE e == Event("EDU_SEGMENTED", s)
           N == Told(n, 2 * k + 2, e)
<1>2. /\ s \in Sources /\ inbox["semantic"] # <<>> /\ Head(inbox["semantic"]).type \in Steps
      /\ Due("semantic", "CHUNK_CREATED", s) /\ Announced("CHUNK_CREATED", s)
      /\ \A M : Logged("semantic", M) => ~Due("semantic", "CHUNK_CREATED", s)'
      /\ k \in Nat /\ k >= 1
  BY <1>0, <1>1, StepsAre, PartsAre, TakesHead DEF SegmentChunks
<1>3. /\ ~Announced("EDU_SEGMENTED", s) /\ ~Announced("CITEM_CREATED", s) /\ chunks[s] = k
      /\ s \in asked /\ s \in registered /\ Announced("SOURCE_REGISTERED", s)
      /\ ~Due("source", "SOURCE_REGISTERED", s)
      /\ ~Due("source", "FILE_UPLOADED", s)
  BY <1>1, <1>2 DEF IInv, Course, InTurn, Filled
<1>4. /\ Makes(n, 2 * k + 2) /\ active' = active
      /\ edus' = [edus EXCEPT ![s] = Least(n, k)]
      /\ chunkIndex' = [chunkIndex EXCEPT ![s] = Least(After(n, k + 1), k)]
      /\ Advance("semantic", Final(n, 2 * k + 2, e))
      /\ UNCHANGED <<asked, registered, file, chunks, citems, citemIndex, sums, index, globals>>
  BY <1>1, <1>2, <1>3 DEF SegmentChunks, ChunksFound, EduRows, ChunkMarks
<1>5. /\ n \in 0..(2 * k + 2) /\ n \in Nat /\ faults' \in 0..MaxFaults /\ faults' \in Nat
      /\ faults' >= faults
  <2>1. 2 * k + 2 \in Nat
    BY <1>2
  <2> QED
    BY <1>0, <1>4, <2>1, MakesSome
<1>6. Logged("semantic", N)
  BY <1>0, <1>2, <1>4, FinalLogged
<1>7. /\ Bounded(edus') /\ \A x \in Sources \ {s} : edus'[x] = edus[x]
      /\ n = 2 * k + 2 => edus'[s] = k
  <2>1. /\ Least(n, k) \in Nat /\ Least(n, k) <= Parts[s]
        /\ n = 2 * k + 2 => Least(n, k) = k
    <3>1. n = 2 * k + 2 => n >= k
      BY <1>2
    <3>2. /\ Least(n, k) \in Nat /\ Least(n, k) <= k
          /\ n >= k => Least(n, k) = k
      BY <1>2, <1>5, LeastIs
    <3> QED
      BY <1>1, <3>1, <3>2
  <2>2. Bounded(edus) /\ Saved(edus, edus', s, Least(n, k))
    BY <1>0, <1>4 DEF RowTypes, Saved
  <2> QED
    BY <1>2, <2>1, <2>2 DEF Bounded, Saved
<1>8. /\ Bounded(chunkIndex') /\ \A x \in Sources \ {s} : chunkIndex'[x] = chunkIndex[x]
      /\ n = 2 * k + 2 => chunkIndex'[s] = k
  <2>1. PICK a : a = After(n, k + 1)
    OBVIOUS
  <2>2. a \in Nat /\ (n = 2 * k + 2 => a = k + 1)
    <3>1. k + 1 \in Nat /\ (n = 2 * k + 2 => n > k + 1 /\ n - (k + 1) = k + 1)
      BY <1>2, <1>5
    <3> QED
      BY <1>5, <2>1, <3>1, AfterIs
  <2>3. /\ Least(a, k) \in Nat /\ Least(a, k) <= k
        /\ n = 2 * k + 2 => Least(a, k) = k
    <3>1. n = 2 * k + 2 => a >= k
      BY <1>2, <2>2
    <3>2. /\ Least(a, k) \in Nat /\ Least(a, k) <= k
          /\ a >= k => Least(a, k) = k
      BY <1>2, <2>2, LeastIs
    <3> QED
      BY <3>1, <3>2
  <2>4. Bounded(chunkIndex) /\ Saved(chunkIndex, chunkIndex', s, Least(a, k))
    BY <1>0, <1>4, <2>1 DEF RowTypes, Saved
  <2> QED
    BY <1>1, <1>2, <2>3, <2>4 DEF Bounded, Saved
<1>9. RowTypes'
  BY <1>0, <1>4, <1>7, <1>8 DEF RowTypes, Bounded
<1>10. \A f \in N : Known(f) /\ f.type \in Steps \cup {"FILE_UPLOADED"}
  BY <1>2, EventFields, StepsAre DEF Known, Told
<1>11. Loosely(N)
  BY <1>6, LooselyLogged
<1>12. ASSUME NEW x \in Sources \ {s} PROVE Course(x)'
  <2>1. Undisturbed(x)
    BY <1>4, <1>7, <1>8, <1>12 DEF Undisturbed
  <2>2. \A t : Event(t, x) \notin N
    BY <1>12, OthersTold
  <2> QED
    BY <1>0, <1>5, <1>11, <2>1, <2>2, CourseKept DEF IInv
<1>13. Course(s)'
  <2>1. /\ Announced("EDU_SEGMENTED", s)' => n = 2 * k + 2
        /\ ~Announced("CITEM_CREATED", s)'
        /\ Announced("CHUNK_CREATED", s)' /\ Announced("SOURCE_REGISTERED", s)'
    BY <1>2, <1>3, <1>11, EventFields DEF Loosely, Announced, Told
  <2>2. /\ ~Due("semantic", "CHUNK_CREATED", s)' /\ ~Due("source", "SOURCE_REGISTERED", s)'
        /\ ~Due("source", "FILE_UPLOADED", s)'
    <3>1. Event("FILE_UPLOADED", s) \notin N /\ Event("SOURCE_REGISTERED", s) \notin N
      BY EventFields DEF Told
    <3> QED
      BY <1>2, <1>3, <1>6, <1>11, <3>1, StillDue, StepsAre
  <2>3. InTurn(s)'
    BY <1>3, <1>4, <2>1, <2>2 DEF InTurn
  <2>4. Filled(s)'
    BY <1>1, <1>3, <1>4, <1>7, <1>8, <2>1 DEF Filled
  <2>5. ASSUME s \in Files PROVE FileRight(s)'
    <3>1. /\ file[s].items = 0 /\ file[s].chunks = Parts[s]
          /\ file[s].status = "FAILED" => faults > 0
      BY <1>2, <1>3, <2>5 DEF IInv, Course, FileRight
    <3> QED
      BY <1>0, <1>1, <1>3, <1>4, <1>5, <2>1, <2>2, <3>1 DEF FileRight
  <2> QED
    BY <2>3, <2>4, <2>5 DEF Course
<1> HIDE DEF N
<1>14. "semantic" \notin {"builder", "global"}
  OBVIOUS
<1> QED
  BY <1>2, <1>4, <1>5, <1>6, <1>9, <1>10, <1>12, <1>13, <1>14, Plain

LEMMA BuildItemsKeeps ==
  ASSUME IInv, NEW n, BuildCItems(n)
  PROVE  IInv'
<1>0. TypeOK /\ Log /\ RowTypes /\ faults \in 0..MaxFaults /\ faults \in Nat
  BY TypeParts, BoundAssumption DEF IInv, RestTypes
<1>1. PICK s, k : s = Current("semantic").of /\ k = Parts[s]
  OBVIOUS
<1> DEFINE e == Event("CITEM_CREATED", s)
           N == Told(n, k + 2, e)
<1>2. /\ s \in Sources /\ inbox["semantic"] # <<>> /\ Head(inbox["semantic"]).type \in Steps
      /\ Due("semantic", "EDU_SEGMENTED", s) /\ Announced("EDU_SEGMENTED", s)
      /\ \A M : Logged("semantic", M) => ~Due("semantic", "EDU_SEGMENTED", s)'
      /\ k \in Nat /\ k >= 1
  BY <1>0, <1>1, StepsAre, PartsAre, TakesHead DEF BuildCItems
<1>3. /\ ~Announced("CITEM_CREATED", s) /\ chunks[s] = k /\ edus[s] = k /\ chunkIndex[s] = k
      /\ s \in asked /\ s \in registered /\ Announced("SOURCE_REGISTERED", s)
      /\ Announced("CHUNK_CREATED", s) /\ ~Due("semantic", "CHUNK_CREATED", s)
      /\ ~Due("source", "SOURCE_REGISTERED", s) /\ ~Due("source", "FILE_UPLOADED", s)
  BY <1>1, <1>2 DEF IInv, Course, InTurn, Filled
<1>4. /\ Makes(n, k + 2) /\ active' = active
      /\ citems' = [citems EXCEPT ![s] = Least(n, k)]
      /\ file' = IF s \in Files /\ n > k
                 THEN [file EXCEPT ![s] = FileRow("READY", @.chunks, k)] ELSE file
      /\ Advance("semantic", Final(n, k + 2, e))
      /\ UNCHANGED <<asked, registered, chunks, edus, chunkIndex, citemIndex, sums, index, globals>>
  BY <1>1, <1>2, <1>3 DEF BuildCItems, EdusFound, CItemRows
<1>5. /\ n \in 0..(k + 2) /\ n \in Nat /\ faults' \in 0..MaxFaults /\ faults' \in Nat
      /\ faults' >= faults
  <2>1. k + 2 \in Nat
    BY <1>2
  <2> QED
    BY <1>0, <1>4, <2>1, MakesSome
<1>6. Logged("semantic", N)
  BY <1>0, <1>2, <1>4, FinalLogged
<1>7. /\ Bounded(citems') /\ \A x \in Sources \ {s} : citems'[x] = citems[x]
      /\ n >= k => citems'[s] = k
  <2>1. /\ Least(n, k) \in Nat /\ Least(n, k) <= Parts[s]
        /\ n >= k => Least(n, k) = k
    BY <1>1, <1>2, <1>5, LeastIs
  <2>2. Bounded(citems) /\ Saved(citems, citems', s, Least(n, k))
    BY <1>0, <1>4 DEF RowTypes, Saved
  <2> QED
    BY <1>2, <2>1, <2>2 DEF Bounded, Saved
<1>8. /\ file' \in [Files -> FileRows]
      /\ \A f \in Files \ {s} : file'[f] = file[f]
      /\ s \in Files =>
           \/ /\ n > k
              /\ file'[s] = [status |-> "READY", chunks |-> file[s].chunks, items |-> k]
           \/ n <= k /\ file'[s] = file[s]
  <2>1. FileRow("READY", file[s].chunks, k) =
          [status |-> "READY", chunks |-> file[s].chunks, items |-> k]
    BY DEF FileRow
  <2> QED
    BY <1>0, <1>2, <1>4, <1>5, <2>1 DEF RowTypes, FileRows
<1>9. RowTypes'
  BY <1>0, <1>4, <1>7, <1>8 DEF RowTypes, Bounded
<1>10. \A f \in N : Known(f) /\ f.type \in Steps \cup {"FILE_UPLOADED"}
  BY <1>2, EventFields, StepsAre DEF Known, Told
<1>11. Loosely(N)
  BY <1>6, LooselyLogged
<1>12. ASSUME NEW x \in Sources \ {s} PROVE Course(x)'
  <2>1. Undisturbed(x)
    BY <1>4, <1>7, <1>8, <1>12 DEF Undisturbed
  <2>2. \A t : Event(t, x) \notin N
    BY <1>12, OthersTold
  <2> QED
    BY <1>0, <1>5, <1>11, <2>1, <2>2, CourseKept DEF IInv
<1>13. Course(s)'
  <2>1. /\ Announced("CITEM_CREATED", s)' => n >= k
        /\ Announced("EDU_SEGMENTED", s)'
        /\ Announced("CHUNK_CREATED", s)' /\ Announced("SOURCE_REGISTERED", s)'
    BY <1>2, <1>3, <1>5, <1>11, EventFields DEF Loosely, Announced, Told
  <2>2. /\ ~Due("semantic", "EDU_SEGMENTED", s)' /\ ~Due("semantic", "CHUNK_CREATED", s)'
        /\ ~Due("source", "SOURCE_REGISTERED", s)' /\ ~Due("source", "FILE_UPLOADED", s)'
    <3>1. /\ Event("FILE_UPLOADED", s) \notin N /\ Event("SOURCE_REGISTERED", s) \notin N
          /\ Event("CHUNK_CREATED", s) \notin N
      BY EventFields DEF Told
    <3> QED
      BY <1>2, <1>3, <1>6, <1>11, <3>1, StillDue, StepsAre
  <2>3. InTurn(s)'
    BY <1>3, <1>4, <2>1, <2>2 DEF InTurn
  <2>4. Filled(s)'
    BY <1>1, <1>3, <1>4, <1>7, <2>1 DEF Filled
  <2>5. ASSUME s \in Files PROVE FileRight(s)'
    <3>1. /\ file[s].items = 0 /\ file[s].chunks = k
          /\ file[s].status = "FAILED" => faults > 0
      BY <1>1, <1>2, <1>3, <2>5 DEF IInv, Course, FileRight
    <3>2. /\ file'[s].chunks = k /\ file'[s].items \in {0, k}
          /\ file'[s].items # 0 => n > k
          /\ file'[s].status = "FAILED" => faults' > 0
      BY <1>0, <1>5, <1>8, <2>5, <3>1
    <3>3. file'[s].items # 0 => file'[s].items = citems'[s]
      BY <1>2, <1>5, <1>7, <3>2
    <3> QED
      BY <1>1, <1>3, <1>4, <2>1, <2>2, <3>2, <3>3 DEF FileRight
  <2> QED
    BY <2>3, <2>4, <2>5 DEF Course
<1> HIDE DEF N
<1>14. "semantic" \notin {"builder", "global"}
  OBVIOUS
<1> QED
  BY <1>2, <1>4, <1>5, <1>6, <1>9, <1>10, <1>12, <1>13, <1>14, Plain

LEMMA IndexItemsKeeps ==
  ASSUME IInv, NEW n, IndexCItems(n)
  PROVE  IInv'
<1>0. TypeOK /\ Log /\ RowTypes /\ faults \in 0..MaxFaults /\ faults \in Nat
  BY TypeParts, BoundAssumption DEF IInv, RestTypes
<1>1. PICK s, k : s = Current("semantic").of /\ k = citems[s]
  OBVIOUS
<1>2. /\ s \in Sources /\ inbox["semantic"] # <<>> /\ Head(inbox["semantic"]).type \in Steps
  BY <1>0, <1>1, StepsAre, TakesHead DEF IndexCItems
<1>3. /\ Makes(n, k + 1) /\ active' = active
      /\ citemIndex' = [citemIndex EXCEPT ![s] = Least(After(n, 1), k)]
      /\ Advance("semantic", <<>>)
      /\ UNCHANGED <<asked, registered, file, chunks, edus, citems, chunkIndex, sums, index, globals>>
  BY <1>1 DEF IndexCItems, CItemsFound, CItemMarks
<1>4. k \in Nat /\ k <= Parts[s] /\ k + 1 \in Nat
  BY <1>0, <1>1, <1>2 DEF RowTypes, Bounded
<1>5. n \in 0..(k + 1) /\ n \in Nat /\ faults' \in 0..MaxFaults /\ faults' \in Nat /\ faults' >= faults
  BY <1>0, <1>3, <1>4, MakesSome
<1>6. Logged("semantic", {})
  BY <1>0, <1>2, <1>3, NothingAppended
<1>7. Bounded(citemIndex')
  <2>1. After(n, 1) \in Nat
    BY <1>5, AfterIs
  <2>2. Least(After(n, 1), k) \in Nat /\ Least(After(n, 1), k) <= k
    BY <1>4, <2>1, LeastIs
  <2>3. Least(After(n, 1), k) <= Parts[s]
    BY <1>2, <1>4, <2>2, PartsAre
  <2>4. Bounded(citemIndex) /\ Saved(citemIndex, citemIndex', s, Least(After(n, 1), k))
    BY <1>0, <1>3 DEF RowTypes, Saved
  <2> QED
    BY <1>2, <2>2, <2>3, <2>4 DEF Bounded, Saved
<1>8. RowTypes'
  BY <1>0, <1>3, <1>7 DEF RowTypes, Bounded
<1>9. ASSUME NEW x \in Sources PROVE Course(x)'
  <2>1. Undisturbed(x)
    BY <1>3 DEF Undisturbed
  <2>2. Loosely({})
    BY <1>6, LooselyLogged
  <2> QED
    BY <1>0, <1>5, <2>1, <2>2, CourseKept DEF IInv
<1>10. "semantic" \notin {"builder", "global"}
  OBVIOUS
<1> QED
  BY <1>2, <1>3, <1>5, <1>6, <1>8, <1>9, <1>10, Plain

-----------------------------------------------------------------------------
(***************************************************************************)
(* The steps that are about summaries.                                     *)
(***************************************************************************)
LEMMA MaxExists ==
  ASSUME NEW n \in Nat, NEW S, S \subseteq 0..n, S # {}
  PROVE  Max(S) \in S /\ \A x \in S : x <= Max(S)
<1> DEFINE T == {n - x : x \in S}
<1>1. T \subseteq Nat /\ T # {}
  <2>1. PICK x \in S : TRUE
    OBVIOUS
  <2>2. n - x \in T
    BY <2>1
  <2>3. \A y \in S : n - y \in Nat
    OBVIOUS
  <2> QED
    BY <2>2, <2>3
<1>2. PICK d \in T : \A k \in T : ~(<<k, d>> \in OpToRel(<, Nat))
  BY <1>1, NatLessThanWellFounded, WFMin
<1>3. PICK x \in S : d = n - x
  BY <1>2
<1>4. ASSUME NEW y \in S PROVE x >= y
  <2> SUFFICES ASSUME y > x PROVE FALSE
    BY <1>3
  <2>1. n - y \in T /\ n - y \in Nat /\ d \in Nat /\ n - y < d
    BY <1>1, <1>3
  <2>2. <<n - y, d>> \in {ss \in Nat \X Nat : ss[1] < ss[2]}
    BY <2>1
  <2> QED
    BY <1>2, <2>1, <2>2 DEF OpToRel
<1>5. \E m \in S : \A y \in S : m >= y
  BY <1>3, <1>4
<1>6. Max(S) \in S /\ \A y \in S : Max(S) >= y
  BY <1>5 DEF Max
<1> QED
  BY <1>6

LEMMA EpochsAre ==
  /\ Cardinality(Sources) \in Nat /\ Master = 0 /\ Master \in Summaries
  /\ \A m \in Summaries : m \in Nat
  /\ \A m \in Epochs : m \in Summaries /\ m # Master
<1>1. Cardinality(Sources) \in Nat
  BY SourcesAssumption, FS_CardinalityType
<1> QED
  BY <1>1 DEF Summaries, Epochs, Master

\* The epoch that is scheduled next.
LEMMA NextEpochIs ==
  ASSUME Levels, IsFiniteSet(Scheduled), Cardinality(Scheduled) \in Nat
  PROVE  NextEpoch \in Nat /\ NextEpoch >= 1 /\ NextEpoch <= 1 + Cardinality(Scheduled)
<1> DEFINE S == (SummariesFound \cap Epochs) \cup {0}
<1>1. \A m \in S : m \in Nat /\ m <= Cardinality(Scheduled)
  BY EpochsAre DEF Levels, SummariesFound
<1>2. S \subseteq 0..Cardinality(Scheduled) /\ S # {}
  BY <1>1
<1> HIDE DEF S
<1>3. Max(S) \in S
  BY <1>2, MaxExists
<1>4. NextEpoch = 1 + Max(S)
  BY DEF NextEpoch, S
<1> QED
  BY <1>1, <1>3, <1>4

\* Whatever is not about the rows of sources.
LEMMA RowsElsewhere ==
  ASSUME IInv, NEW N, Loosely(N), UNCHANGED <<asked, rows>>,
         faults' \in Nat, faults' >= faults,
         \A e \in N : e.type \notin Steps \cup {"FILE_UPLOADED"}
  PROVE  RowTypes' /\ \A s \in Sources : Course(s)'
<1>1. TypeOK /\ RowTypes
  BY TypeParts DEF IInv
<1>2. UNCHANGED <<asked, registered, file, chunks, edus, citems, chunkIndex, citemIndex>>
  BY DEF rows
<1>3. RowTypes'
  BY <1>1, <1>2 DEF RowTypes, Bounded
<1>4. ASSUME NEW s \in Sources PROVE Course(s)'
  <2>1. Undisturbed(s)
    BY <1>2 DEF Undisturbed
  <2>2. \A t \in Steps \cup {"FILE_UPLOADED"} : Event(t, s) \notin N
    BY EventFields
  <2> QED
    BY <1>1, <2>1, <2>2, CourseKept DEF IInv
<1> QED
  BY <1>3, <1>4

LEMMA ReadKeeps ==
  ASSUME IInv, ReadSummary
  PROVE  IInv'
<1>0. TypeOK /\ Log /\ RestTypes /\ InboxTypes /\ faults \in Nat /\ "semantic" \in Readers
  BY TypeParts, BoundAssumption DEF IInv, RestTypes, Readers
<1>1. PICK t, m : /\ t \in Updates /\ Given("semantic", t) /\ m = Current("semantic").of
  BY DEF ReadSummary, Updates
<1>2. /\ reading' = text[m] /\ inbox' = inbox /\ announced' = announced
      /\ active' = active /\ faults' = faults
      /\ UNCHANGED <<asked, rows, globals, text, origins, builds, point>>
  BY <1>1 DEF ReadSummary, sums
<1>3. m \in Summaries /\ inbox["semantic"] # <<>> /\ Head(inbox["semantic"]).type = t
      /\ Head(inbox["semantic"]).of = m
  BY <1>0, <1>1, TakesHead, EventFields
<1>4. Loosely({})
  BY <1>2 DEF Loosely, Waiting
<1>5. RowTypes' /\ \A s \in Sources : Course(s)'
  BY <1>0, <1>2, <1>4, RowsElsewhere
<1>6. RestTypes'
  BY <1>0, <1>2, <1>3 DEF RestTypes, globals
<1>7. InboxTypes' /\ Log'
  BY <1>0, <1>2 DEF InboxTypes, Log, Known
<1>8. TypeOK'
  BY <1>5, <1>6, <1>7, TypeParts, PTL
<1>9. Levels'
  BY <1>0, <1>2, <1>4, RequestsKnown, LevelsKept DEF IInv
<1>10. Attentive'
  BY <1>1, <1>2, <1>3 DEF Attentive
<1>11. Requested' /\ Named' /\ \A s \in Sources : Promoting(s)'
  BY <1>2 DEF IInv, Requested, Requests, Waiting, InPeace, Named, globals, Promoting,
              Announced, Due
<1>12. ASSUME NEW x \in Summaries PROVE Built(x)' /\ Indexing(x)'
  <2>1. Built(x)'
    BY <1>2 DEF IInv, Built, Announced
  <2>2. Indexing(x)'
    BY <1>2, <1>3 DEF IInv, Indexing, InPeace, Due, Waiting
  <2> QED
    BY <2>1, <2>2
<1> QED
  BY <1>5, <1>7, <1>8, <1>9, <1>10, <1>11, <1>12 DEF IInv

LEMMA IndexKeeps ==
  ASSUME IInv, NEW n, IndexSummary(n)
  PROVE  IInv'
<1>0. /\ TypeOK /\ Log /\ RestTypes /\ faults \in Nat /\ faults \in 0..MaxFaults
      /\ "semantic" \in Readers /\ "builder" \in Readers
  BY TypeParts, BoundAssumption DEF IInv, RestTypes, Readers
<1>1. PICK m, t : m = Current("semantic").of /\ t = Head(inbox["semantic"]).type
  OBVIOUS
<1>2. /\ reading # {} /\ Makes(n, 1) /\ Advance("semantic", <<>>) /\ reading' = {}
      /\ point' = IF n = 1 THEN [point EXCEPT ![m] = reading] ELSE point
      /\ active' = active /\ UNCHANGED <<asked, rows, globals, text, origins, builds>>
  BY <1>1 DEF IndexSummary, SummaryMark, sums
<1>3. inbox["semantic"] # <<>> /\ t \in Updates
  BY <1>1, <1>2 DEF IInv, Attentive
<1>4. /\ m \in Summaries /\ Head(inbox["semantic"]) = Event(t, m) /\ Announced(t, m)
      /\ Head(inbox["semantic"]).of = m
  BY <1>0, <1>1, <1>3, HeadTaken, EventFields
<1>5. /\ n \in 0..1 /\ faults' \in 0..MaxFaults /\ faults' \in Nat /\ faults' >= faults
      /\ faults' = 0 => faults = 0 /\ n = 1
  BY <1>0, <1>2, MakesSome
<1>6. Logged("semantic", {})
  BY <1>0, <1>2, <1>3, NothingAppended
<1>7. Loosely({}) /\ Peaceful
  BY <1>0, <1>2, <1>5, <1>6, LooselyLogged DEF Peaceful, RestTypes
<1>8. RowTypes' /\ \A s \in Sources : Course(s)'
  BY <1>0, <1>2, <1>5, <1>7, RowsElsewhere
<1>9. RestTypes'
  BY <1>0, <1>2, <1>4, <1>5 DEF RestTypes, globals
<1>10. InboxTypes' /\ Log'
  BY <1>0, <1>6, LogKept DEF InboxTypes
<1>11. TypeOK'
  BY <1>8, <1>9, <1>10, TypeParts, PTL
<1>12. Levels'
  BY <1>0, <1>2, <1>7, RequestsKnown, LevelsKept DEF IInv
<1>13. Attentive'
  BY <1>2 DEF Attentive
<1>14. Requested'
  <2>1. Requests' = Requests /\ Waiting("builder") \subseteq Range(inbox'["builder"])
    BY <1>0, <1>6 DEF Logged, Requests, Taken
  <2> QED
    BY <1>2, <1>7, <2>1 DEF IInv, Requested, Peaceful, InPeace, Waiting
<1>15. Named' /\ \A s \in Sources : Promoting(s)'
  BY <1>0, <1>2, <1>6, <1>7, GlobalsKept DEF IInv
<1>16. ASSUME NEW x \in Summaries PROVE Built(x)' /\ Indexing(x)'
  <2>1. Built(x)'
    BY <1>2, <1>6 DEF IInv, Built, Announced, Logged
  <2>2. \A u \in Updates : Due("semantic", u, x) => Due("semantic", u, x)' \/ (u = t /\ x = m)
    BY <1>0, <1>4, <1>6, EventFields DEF Logged, Due, Waiting, Taken
  <2>3. InPeace' => InPeace /\ n = 1
    BY <1>5, <1>7 DEF Peaceful, InPeace
  <2>4. /\ "SUMMARY_CREATED" \in Updates /\ "SUMMARY_UPDATED" \in Updates
        /\ reading' = {} /\ text' = text /\ builds' = builds
    BY <1>2 DEF Updates
  <2>5. CASE x # m
    <3>1. point'[x] = point[x]
      BY <1>0, <1>2, <2>5 DEF RestTypes
    <3>2. InPeace' =>
            /\ builds[x] = 0 => point'[x] = {}
            /\ builds[x] = 1 => Due("semantic", "SUMMARY_CREATED", x) \/ point'[x] = text[x]
            /\ builds[x] = 2 => Due("semantic", "SUMMARY_UPDATED", x) \/ point'[x] = text[x]
      BY <2>3, <3>1 DEF IInv, Indexing
    <3>3. \A u \in Updates : Due("semantic", u, x) => Due("semantic", u, x)'
      BY <2>2, <2>5
    <3>4. InPeace' =>
            /\ builds[x] = 0 => point'[x] = {}
            /\ builds[x] = 1 => Due("semantic", "SUMMARY_CREATED", x)' \/ point'[x] = text[x]
            /\ builds[x] = 2 => Due("semantic", "SUMMARY_UPDATED", x)' \/ point'[x] = text[x]
      BY <2>4, <3>2, <3>3
    <3> QED
      BY <2>1, <2>4, <3>4 DEF Indexing
  <2>6. CASE x = m
    <3>1. builds[m] # 0
      BY <1>3, <1>4 DEF IInv, Built, Updates
    <3>2. n = 1 => point'[m] = reading
      BY <1>0, <1>2, <1>4 DEF RestTypes
    <3>3. InPeace' =>
            /\ builds[m] = 1 => point'[m] = text[m]
            /\ builds[m] = 2 => Due("semantic", "SUMMARY_UPDATED", m)' \/ point'[m] = text[m]
      <4> SUFFICES ASSUME InPeace'
                   PROVE  /\ builds[m] = 1 => point'[m] = text[m]
                          /\ builds[m] = 2 => Due("semantic", "SUMMARY_UPDATED", m)' \/ point'[m] = text[m]
        OBVIOUS
      <4>1. /\ builds[m] = 1 => reading = text[m]
            /\ builds[m] = 2 =>
                 \/ reading = text[m]
                 \/ t = "SUMMARY_CREATED" /\ Due("semantic", "SUMMARY_UPDATED", m)
        BY <1>2, <1>4, <2>3, EventFields DEF IInv, Indexing
      <4>2. t = "SUMMARY_CREATED" /\ Due("semantic", "SUMMARY_UPDATED", m) =>
              Due("semantic", "SUMMARY_UPDATED", m)'
        BY <2>2, <2>4, <2>6
      <4> QED
        BY <2>3, <3>2, <4>1, <4>2
    <3>4. InPeace' =>
            /\ builds[x] = 0 => point'[x] = {}
            /\ builds[x] = 1 => Due("semantic", "SUMMARY_CREATED", x)' \/ point'[x] = text[x]
            /\ builds[x] = 2 => Due("semantic", "SUMMARY_UPDATED", x)' \/ point'[x] = text[x]
      BY <2>6, <3>1, <3>3
    <3> QED
      BY <2>1, <2>4, <3>4 DEF Indexing
  <2> QED
    BY <2>1, <2>5, <2>6
<1> QED
  BY <1>8, <1>10, <1>11, <1>12, <1>13, <1>14, <1>15, <1>16 DEF IInv

LEMMA ShortSubSeq ==
  ASSUME NEW a, NEW b, NEW n \in 0..2
  PROVE  /\ n = 0 => SubSeq(<<a, b>>, 1, n) = <<>>
         /\ n = 1 => SubSeq(<<a, b>>, 1, n) = <<a>>
         /\ n = 2 => SubSeq(<<a, b>>, 1, n) = <<a, b>>
<1>1. PICK q : q = <<a, b>>
  OBVIOUS
<1>2. q \in Seq({a, b}) /\ Len(q) = 2 /\ q[1] = a /\ q[2] = b
  BY <1>1
<1>3. n \in Nat /\ \A i \in 1..n : q[i] \in {a, b}
  BY <1>2
<1>4. /\ SubSeq(q, 1, n) \in Seq({a, b}) /\ Len(SubSeq(q, 1, n)) = n
      /\ \A i \in 1..n : SubSeq(q, 1, n)[i] = q[i]
  <2>1. /\ SubSeq(q, 1, n) \in Seq({a, b})
        /\ Len(SubSeq(q, 1, n)) = IF 1 <= n THEN n - 1 + 1 ELSE 0
        /\ \A i \in 1..(n - 1 + 1) : SubSeq(q, 1, n)[i] = q[1 + i - 1]
    BY <1>3, SubSeqProperties
  <2> QED
    BY <1>3, <2>1
<1>5. PICK t : t = SubSeq(q, 1, n)
  OBVIOUS
<1>6. t \in Seq({a, b}) /\ Len(t) = n /\ \A i \in 1..n : t[i] = q[i]
  BY <1>4, <1>5
<1>7. n = 0 => t = <<>>
  BY <1>6
<1>8. n = 1 => t = <<a>>
  BY <1>2, <1>6
<1>9. n = 2 => t = <<a, b>>
  BY <1>2, <1>6
<1> QED
  BY ONLY <1>1, <1>5, <1>7, <1>8, <1>9, Zenon

LEMMA ScheduleKeeps ==
  ASSUME IInv, NEW n, ScheduleSummaries(n)
  PROVE  IInv'
<1>0. /\ TypeOK /\ Log /\ RestTypes /\ faults \in Nat /\ faults \in 0..MaxFaults
      /\ "summary" \in Readers
  BY TypeParts, BoundAssumption DEF IInv, RestTypes, Readers
<1>1. PICK s, l : s = Current("summary").of /\ l = NextEpoch
  OBVIOUS
<1> DEFINE a == Request(l, s)
           b == Request(Master, s)
           N == IF n = 0 THEN {} ELSE IF n = 1 THEN {a} ELSE {a, b}
<1>2. /\ Given("summary", "CITEM_CREATED") /\ Makes(n, 2) /\ active' = active
      /\ Advance("summary", SubSeq(<<a, b>>, 1, n))
      /\ UNCHANGED <<asked, rows, sums, index, globals>>
  BY <1>1 DEF ScheduleSummaries
<1>3. /\ s \in Sources /\ inbox["summary"] # <<>>
      /\ Due("summary", "CITEM_CREATED", s) /\ Announced("CITEM_CREATED", s)
      /\ \A M : Logged("summary", M) => ~Due("summary", "CITEM_CREATED", s)'
  <2>1. "CITEM_CREATED" \in Steps
    BY DEF Steps
  <2> QED
    BY <1>0, <1>1, <1>2, <2>1, TakesHead
<1>4. /\ n \in 0..2 /\ faults' \in 0..MaxFaults /\ faults' \in Nat /\ faults' >= faults
      /\ faults' = 0 => faults = 0
  BY <1>0, <1>2, MakesSome
<1>5. UNCHANGED <<text, origins, builds, point, reading>>
  BY <1>2 DEF sums, index
<1>6. IsFiniteSet(Scheduled) /\ Cardinality(Scheduled) \in Nat
  <2>1. Scheduled \subseteq Sources
    BY DEF Scheduled
  <2> QED
    BY <2>1, SourcesAssumption, FS_Subset, FS_CardinalityType
<1>7. l \in Nat /\ l >= 1 /\ l <= 1 + Cardinality(Scheduled)
  BY <1>1, <1>6, NextEpochIs DEF IInv
<1>8. a # b
  <2>1. a.level # b.level
    BY <1>7, EpochsAre, EventFields
  <2> QED
    BY <2>1
<1>9. Logged("summary", N)
  <2>1. CASE n = 0
    <3>1. Advance("summary", <<>>)
      BY <1>2, <1>4, <2>1, ShortSubSeq
    <3> QED
      BY <1>0, <1>3, <2>1, <3>1, NothingAppended
  <2>2. CASE n = 1
    <3>1. Advance("summary", <<a>>)
      BY <1>2, <1>4, <2>2, ShortSubSeq
    <3> QED
      BY <1>0, <1>3, <2>2, <3>1, OneAppended
  <2>3. CASE n = 2
    <3>1. Advance("summary", <<a, b>>)
      BY <1>2, <1>4, <2>3, ShortSubSeq
    <3> QED
      BY <1>0, <1>3, <1>8, <2>3, <3>1, TwoAppended
  <2> QED
    BY <1>4, <2>1, <2>2, <2>3
<1>10. Loosely(N) /\ Peaceful
  BY <1>0, <1>2, <1>4, <1>9, LooselyLogged DEF Peaceful, RestTypes
<1>11. N \subseteq {a, b} /\ \A e \in {a, b} : e.type = "SUMMARY_REQUESTED" /\ e.of = s
  BY EventFields
<1> HIDE DEF N
<1>12. PICK old, new : old = Scheduled /\ new = Scheduled'
  OBVIOUS
<1>13. /\ Cardinality(old) \in Nat /\ Cardinality(new) \in Nat /\ Cardinality(Sources) \in Nat
       /\ Cardinality(old) + 1 <= Cardinality(new) /\ Cardinality(new) <= Cardinality(Sources)
  <2>1. s \notin old
    BY <1>3, <1>12 DEF Scheduled
  <2>2. s \in new
    <3>1. Announced("CITEM_CREATED", s)'
      BY <1>3, <1>10 DEF Loosely, Announced
    <3> QED
      BY <1>3, <1>9, <1>12, <3>1 DEF Scheduled
  <2>3. /\ old \subseteq new /\ IsFiniteSet(old) /\ IsFiniteSet(new)
        /\ Cardinality(old) \in Nat /\ Cardinality(new) \in Nat /\ Cardinality(Sources) \in Nat
        /\ Cardinality(new) <= Cardinality(Sources)
    BY <1>10, <1>12, ScheduledGrows
  <2>4. Cardinality(old \cup {s}) = Cardinality(old) + 1
    BY <2>1, <2>3, FS_AddElement
  <2>5. Cardinality(old \cup {s}) <= Cardinality(new)
    BY <2>2, <2>3, FS_Subset
  <2> QED
    BY <2>3, <2>4, <2>5
<1>14. l <= Cardinality(new) /\ l \in Epochs /\ Master <= Cardinality(new)
  BY <1>7, <1>12, <1>13, EpochsAre DEF Epochs
<1>15. \A e \in N : Known(e)
  <2>1. Known(a) /\ Known(b)
    BY <1>3, <1>14, EpochsAre, EventFields DEF Known
  <2> QED
    BY <1>11, <2>1
<1>16. Levels'
  <2>1. \A e \in Requests' : e.level <= Cardinality(new)
    <3>1. Requests' \subseteq Requests \cup {a, b}
      BY <1>10, <1>11 DEF Requests, Loosely
    <3>2. a.level = l /\ b.level = Master
      BY EventFields
    <3>3. \A e \in Requests : e.level \in Nat /\ e.level <= Cardinality(old)
      BY <1>0, <1>12, RequestsKnown, EpochsAre DEF IInv, Levels
    <3> QED
      BY <1>13, <1>14, <3>1, <3>2, <3>3
  <2>2. \A m \in Summaries : text[m] # {} => m <= Cardinality(new)
    <3>1. \A m \in Summaries : m \in Nat /\ (text[m] # {} => m <= Cardinality(old))
      BY <1>12, EpochsAre DEF IInv, Levels
    <3> QED
      BY <1>13, <3>1
  <2> QED
    BY <1>5, <1>12, <2>1, <2>2 DEF Levels
<1>17. RowTypes' /\ \A x \in Sources : Course(x)'
  <2>1. \A e \in N : e.type \notin Steps \cup {"FILE_UPLOADED"}
    BY <1>11 DEF Steps
  <2> QED
    BY <1>0, <1>2, <1>4, <1>10, <2>1, RowsElsewhere
<1>18. RestTypes'
  BY <1>0, <1>2, <1>4, <1>5 DEF RestTypes, globals
<1>19. InboxTypes' /\ Log'
  BY <1>0, <1>9, <1>15, LogKept DEF InboxTypes
<1>20. TypeOK'
  BY <1>17, <1>18, <1>19, TypeParts, PTL
<1>21. /\ Attentive' /\ Requested'
       /\ \A m \in Summaries : Built(m)' /\ Indexing(m)'
  <2>1. \A e \in N : e.type \notin Updates
    BY <1>11 DEF Updates
  <2>2. "summary" # "builder" /\ "summary" # "semantic"
    OBVIOUS
  <2> QED
    BY <1>0, <1>5, <1>9, <1>10, <2>1, <2>2, SummariesKept DEF IInv
<1>22. Named' /\ \A x \in Sources : Promoting(x)'
  <2>1. \A e \in N : e.type # "PROMOTED_GLOBAL"
    BY <1>11
  <2>2. "summary" # "global"
    OBVIOUS
  <2> QED
    BY <1>0, <1>2, <1>9, <1>10, <2>1, <2>2, GlobalsKept DEF IInv
<1> QED
  BY <1>16, <1>17, <1>19, <1>20, <1>21, <1>22 DEF IInv

LEMMA BuildKeeps ==
  ASSUME IInv, NEW n, BuildSummary(n)
  PROVE  IInv'
<1>0. /\ TypeOK /\ Log /\ RestTypes /\ faults \in Nat /\ faults \in 0..MaxFaults
      /\ "builder" \in Readers /\ "semantic" \in Readers
      /\ "SUMMARY_CREATED" \in Updates /\ "SUMMARY_UPDATED" \in Updates
  BY TypeParts, BoundAssumption DEF IInv, RestTypes, Readers, Updates
<1>1. PICK m, s, t : /\ m = Current("builder").level /\ s = Current("builder").of
                     /\ t = IF m \in SummariesFound THEN "SUMMARY_UPDATED" ELSE "SUMMARY_CREATED"
  OBVIOUS
<1> DEFINE e == Event(t, m)
           N == Told(n, 4, e)
<1>2. /\ Given("builder", "SUMMARY_REQUESTED") /\ Makes(n, 4) /\ active' = active
      /\ text' = IF n >= 1 THEN [text EXCEPT ![m] = {s}] ELSE text
      /\ origins' = [origins EXCEPT ![m] = CASE n <= 1 -> origins[m] [] n = 2 -> {} [] OTHER -> {s}]
      /\ builds' = IF n >= 1 THEN [builds EXCEPT ![m] = @ + 1] ELSE builds
      /\ Advance("builder", Final(n, 4, e))
      /\ UNCHANGED <<asked, rows, point, reading, globals>>
  BY <1>1 DEF BuildSummary, SummaryRow, OriginRows, index
<1>3. /\ inbox["builder"] # <<>> /\ Head(inbox["builder"]) = Request(m, s)
      /\ Request(m, s) \in Requests /\ m \in Summaries /\ s \in Sources
  <2>1. inbox["builder"] # <<>> /\ Head(inbox["builder"]).type = "SUMMARY_REQUESTED"
    BY <1>2 DEF Given
  <2>2. Head(inbox["builder"]) \in Requests
    BY <1>0, <2>1, HeadKnown DEF Current, Requests
  <2> QED
    BY <1>0, <1>1, <2>1, <2>2, RequestsKnown DEF Current
<1>4. /\ n \in 0..4 /\ faults' \in 0..MaxFaults /\ faults' \in Nat /\ faults' >= faults
      /\ faults' = 0 => faults = 0 /\ n = 4
  BY <1>0, <1>2, MakesSome
<1>5. t \in Updates /\ t # "SUMMARY_REQUESTED" /\ t # "PROMOTED_GLOBAL"
      /\ t \notin Steps \cup {"FILE_UPLOADED"} /\ t \in Types("semantic")
  BY <1>1 DEF Updates, Steps, Types
<1>6. Logged("builder", N)
  BY <1>0, <1>2, <1>3, FinalLogged
<1>7. Loosely(N) /\ Peaceful
  BY <1>0, <1>2, <1>4, <1>6, LooselyLogged DEF Peaceful, RestTypes
<1>8. N \subseteq {e} /\ e.type = t /\ e.of = m /\ (n = 4 => N = {e}) /\ (n # 4 => N = {})
  BY EventFields DEF Told
<1> HIDE DEF N
<1>9. \A f \in N : Known(f)
  BY <1>1, <1>3, <1>5, <1>8 DEF Known
\* The summary and the others.
<1>10. /\ text' \in [Summaries -> SUBSET Sources] /\ origins' \in [Summaries -> SUBSET Sources]
       /\ \A x \in Summaries \ {m} : text'[x] = text[x] /\ origins'[x] = origins[x]
       /\ n >= 1 => text'[m] = {s}
       /\ n >= 3 => origins'[m] = {s}
       /\ n < 1 => text'[m] = text[m]
  <2>1. (CASE n <= 1 -> origins[m] [] n = 2 -> {} [] OTHER -> {s}) \in SUBSET Sources
    BY <1>0, <1>3, <1>4 DEF RestTypes
  <2>2. n >= 3 => (CASE n <= 1 -> origins[m] [] n = 2 -> {} [] OTHER -> {s}) = {s}
    BY <1>4
  <2> QED
    BY <1>0, <1>2, <1>3, <1>4, <2>1, <2>2 DEF RestTypes
<1>11. /\ \A x \in Summaries \ {m} : builds'[x] = builds[x]
       /\ builds' \in [Summaries -> Nat] /\ builds[m] \in Nat /\ (builds[m] = 0 <=> m \notin SummariesFound)
       /\ n >= 1 => builds'[m] = builds[m] + 1
       /\ n < 1 => builds'[m] = builds[m]
  <2>1. builds[m] \in Nat /\ (builds[m] = 0 <=> m \notin SummariesFound)
    BY <1>0, <1>3 DEF IInv, Built, SummariesFound, RestTypes
  <2>2. builds \in [Summaries -> Nat]
    BY <1>0 DEF RestTypes
  <2>3. builds' = IF n >= 1 THEN [builds EXCEPT ![m] = builds[m] + 1] ELSE builds
    BY <1>2
  <2> QED
    BY <1>3, <1>4, <2>1, <2>2, <2>3
<1>12. Levels'
  <2>1. PICK old, new : old = Cardinality(Scheduled) /\ new = Cardinality(Scheduled)'
    OBVIOUS
  <2>2. old \in Nat /\ new \in Nat /\ old <= new
    BY <1>7, <2>1, ScheduledGrows
  <2>3. Requests' = Requests
    BY <1>5, <1>7, <1>8 DEF Loosely, Requests
  <2>4. \A f \in Requests : f.level \in Nat /\ f.level <= old
    BY <1>0, <2>1, RequestsKnown, EpochsAre DEF IInv, Levels
  <2>5. m <= old
    BY <1>3, <2>4, EventFields
  <2>6. \A x \in Summaries : x \in Nat /\ (text'[x] # {} => x <= old)
    BY <1>10, <2>1, <2>5, EpochsAre DEF IInv, Levels
  <2>7. (\A f \in Requests' : f.level <= new) /\ (\A x \in Summaries : text'[x] # {} => x <= new)
    BY <2>2, <2>3, <2>4, <2>6
  <2> QED
    BY <2>1, <2>7 DEF Levels
<1>13. RowTypes' /\ \A x \in Sources : Course(x)'
  BY <1>0, <1>2, <1>4, <1>5, <1>7, <1>8, RowsElsewhere
<1>14. RestTypes'
  BY <1>0, <1>2, <1>4, <1>10, <1>11 DEF RestTypes, globals
<1>15. InboxTypes' /\ Log'
  BY <1>0, <1>6, <1>9, LogKept DEF InboxTypes
<1>16. TypeOK'
  BY <1>13, <1>14, <1>15, TypeParts, PTL
<1>17. Named' /\ \A x \in Sources : Promoting(x)'
  BY <1>0, <1>2, <1>5, <1>6, <1>7, <1>8, GlobalsKept DEF IInv
<1>18. inbox["semantic"] # <<>> =>
         inbox'["semantic"] # <<>> /\ Head(inbox'["semantic"]) = Head(inbox["semantic"])
  BY <1>0, <1>6 DEF Logged
<1>19. Attentive'
  BY <1>2, <1>18 DEF IInv, Attentive
<1>20. \A u \in Updates : \A x : Announced(u, x)' <=> Announced(u, x) \/ (n = 4 /\ u = t /\ x = m)
  BY <1>6, <1>8, EventFields DEF Logged, Announced
<1>21. \A u, x : Due("semantic", u, x) => Due("semantic", u, x)'
  BY <1>0, <1>6 DEF Logged, Due, Waiting, Taken
<1>22. ASSUME NEW x \in Summaries PROVE Built(x)'
  <2>1. CASE x # m
    <3>1. \A u \in Updates : Announced(u, x)' <=> Announced(u, x)
      BY <1>20, <2>1
    <3> QED
      BY <1>0, <1>10, <1>11, <2>1, <3>1 DEF IInv, Built
  <2>2. CASE x = m
    <3>1. /\ builds[m] = 0 <=> text[m] = {}
          /\ Announced("SUMMARY_CREATED", m) => builds[m] >= 1
          /\ Announced("SUMMARY_UPDATED", m) => builds[m] >= 2
      BY <1>3 DEF IInv, Built
    <3>2. builds'[m] = 0 <=> text'[m] = {}
      <4>1. CASE n >= 1
        <5>1. builds'[m] = builds[m] + 1 /\ builds[m] \in Nat /\ text'[m] = {s}
          BY <1>10, <1>11, <4>1
        <5>2. builds'[m] # 0 /\ text'[m] # {}
          BY <5>1
        <5> QED
          BY <5>2
      <4>2. CASE n < 1
        BY <1>10, <1>11, <3>1, <4>2
      <4> QED
        BY <1>4, <4>1, <4>2
    <3>3. Announced("SUMMARY_CREATED", m)' => builds'[m] >= 1
      <4>1. Announced("SUMMARY_CREATED", m)' => n = 4 \/ builds[m] >= 1
        BY <1>0, <1>20, <3>1
      <4> QED
        BY <1>4, <1>11, <4>1
    <3>4. Announced("SUMMARY_UPDATED", m)' => builds'[m] >= 2
      <4>1. Announced("SUMMARY_UPDATED", m)' => builds[m] >= 2 \/ (n = 4 /\ t = "SUMMARY_UPDATED")
        BY <1>0, <1>20, <3>1
      <4>2. t = "SUMMARY_UPDATED" => builds[m] >= 1
        BY <1>1, <1>11
      <4> QED
        BY <1>4, <1>11, <4>1, <4>2
    <3> QED
      BY <2>2, <3>2, <3>3, <3>4 DEF Built
  <2> QED
    BY <2>1, <2>2
\* What is left to show matters only while nothing has failed.
<1>23. Requested'
  <2> SUFFICES ASSUME InPeace', NEW f \in Requests', f.level # Master
               PROVE  \/ f \in Range(inbox'["builder"])
                      \/ text'[f.level] = {f.of} /\ origins'[f.level] = {f.of}
                      \/ \E o \in Requests' \ {f} : o.level = f.level
    BY DEF Requested, Waiting
  <2>1. n = 4 /\ InPeace
    BY <1>2, <1>4 DEF InPeace
  <2>2. Requests' = Requests /\ \A g \in Waiting("builder") : g # Request(m, s) => g \in Range(inbox'["builder"])
    BY <1>0, <1>3, <1>5, <1>6, <1>8 DEF Logged, Taken, Requests
  <2>3. f.level \in Summaries /\ f = Request(f.level, f.of)
    BY <1>0, <2>2, RequestsKnown
  <2>4. CASE f = Request(m, s)
    BY <1>10, <2>1, <2>4, EventFields
  <2>5. CASE f # Request(m, s) /\ f.level = m
    BY <1>3, <2>2, <2>5, EventFields
  <2>6. CASE f.level # m
    <3>1. \/ f \in Waiting("builder")
          \/ text[f.level] = {f.of} /\ origins[f.level] = {f.of}
          \/ \E o \in Requests \ {f} : o.level = f.level
      BY <2>1, <2>2 DEF IInv, Requested
    <3>2. f # Request(m, s)
      BY <2>6, EventFields
    <3> QED
      BY <1>10, <2>2, <2>3, <2>6, <3>1, <3>2
  <2> QED
    BY <2>4, <2>5, <2>6
<1>24. ASSUME NEW x \in Summaries PROVE Indexing(x)'
  <2> SUFFICES ASSUME InPeace' PROVE Indexing(x)'
    BY DEF Indexing
  <2>1. n = 4 /\ InPeace
    BY <1>2, <1>4 DEF InPeace
  <2>2. point' = point /\ reading' = reading
    BY <1>2
  <2>3. /\ builds[x] = 0 => point[x] = {}
        /\ builds[x] = 1 => Due("semantic", "SUMMARY_CREATED", x) \/ point[x] = text[x]
        /\ builds[x] = 2 => Due("semantic", "SUMMARY_UPDATED", x) \/ point[x] = text[x]
        /\ reading # {} /\ Head(inbox["semantic"]).of = x =>
             /\ builds[x] = 1 => reading = text[x]
             /\ builds[x] = 2 =>
                  \/ reading = text[x]
                  \/ /\ Head(inbox["semantic"]) = Event("SUMMARY_CREATED", x)
                     /\ Due("semantic", "SUMMARY_UPDATED", x)
    BY <2>1 DEF IInv, Indexing
  <2>4. reading # {} => Head(inbox'["semantic"]) = Head(inbox["semantic"])
    BY <1>18 DEF IInv, Attentive
  <2>5. CASE x # m
    <3>1. builds'[x] = builds[x] /\ text'[x] = text[x]
      BY <1>10, <1>11, <2>5
    <3> QED
      BY <1>21, <2>2, <2>3, <2>4, <3>1 DEF Indexing
  <2>6. CASE x = m
    <3>1. builds'[m] = builds[m] + 1 /\ text'[m] = {s} /\ builds[m] \in Nat
      BY <1>10, <1>11, <2>1
    <3>2. builds[m] <= 1 => ~Announced(t, m) /\ Due("semantic", t, m)'
      <4>1. builds[m] <= 1 => ~Announced(t, m)
        BY <1>1, <1>3, <1>11 DEF IInv, Built
      <4>2. ~Announced(t, m) => Due("semantic", t, m)'
        BY <1>0, <1>5, <1>6, <1>8, <2>1 DEF Logged, Due, Waiting, Announced
      <4> QED
        BY <4>1, <4>2
    <3>3. /\ builds[m] = 0 => t = "SUMMARY_CREATED"
          /\ builds[m] = 1 => t = "SUMMARY_UPDATED"
      BY <1>1, <1>11
    <3>4. ASSUME reading # {}, Head(inbox["semantic"]).of = m
          PROVE  /\ builds[m] # 0
                 /\ builds[m] = 1 => Head(inbox["semantic"]) = Event("SUMMARY_CREATED", m)
      <4>1. PICK u : u = Head(inbox["semantic"]).type
        OBVIOUS
      <4>2. inbox["semantic"] # <<>> /\ u \in Updates
        BY <3>4, <4>1 DEF IInv, Attentive
      <4>3. Head(inbox["semantic"]) = Event(u, m) /\ Announced(u, m)
        BY <1>0, <3>4, <4>1, <4>2, HeadTaken DEF Current
      <4> QED
        BY <1>3, <4>2, <4>3 DEF IInv, Built, Updates
    <3>5. /\ builds'[m] # 0
          /\ builds'[m] = 1 => Due("semantic", "SUMMARY_CREATED", m)'
          /\ builds'[m] = 2 => Due("semantic", "SUMMARY_UPDATED", m)'
      BY <3>1, <3>2, <3>3
    <3>6. reading # {} /\ Head(inbox'["semantic"]).of = m =>
            /\ builds'[m] # 1
            /\ builds'[m] = 2 => Head(inbox'["semantic"]) = Event("SUMMARY_CREATED", m)
      BY <2>4, <3>1, <3>4
    <3> QED
      BY <2>2, <2>6, <3>5, <3>6 DEF Indexing
  <2> QED
    BY <2>5, <2>6
<1> QED
  BY <1>12, <1>13, <1>15, <1>16, <1>17, <1>19, <1>22, <1>23, <1>24 DEF IInv

-----------------------------------------------------------------------------
(***************************************************************************)
(* The steps that are about globals.                                       *)
(***************************************************************************)
LEMMA ScheduleGlobalKeeps ==
  ASSUME IInv, NEW n, ScheduleGlobal(n)
  PROVE  IInv'
<1>0. /\ TypeOK /\ Log /\ RestTypes /\ faults \in Nat /\ faults \in 0..MaxFaults
      /\ "global" \in Readers
  BY TypeParts, BoundAssumption DEF IInv, RestTypes, Readers
<1>1. PICK s : s = Current("global").of
  OBVIOUS
<1> DEFINE e == Event("PROMOTED_GLOBAL", s)
           N == IF n = 1 /\ s \in Salient THEN {e} ELSE {}
<1>2. /\ Given("global", "CITEM_CREATED") /\ Makes(n, 1) /\ active' = active
      /\ Advance("global", IF n = 1 /\ s \in Salient THEN <<e>> ELSE <<>>)
      /\ UNCHANGED <<asked, rows, sums, index, globals>>
  BY <1>1 DEF ScheduleGlobal
<1>3. /\ s \in Sources /\ inbox["global"] # <<>> /\ Head(inbox["global"]) = Event("CITEM_CREATED", s)
      /\ Due("global", "CITEM_CREATED", s) /\ Announced("CITEM_CREATED", s)
      /\ \A M : Logged("global", M) => ~Due("global", "CITEM_CREATED", s)'
  <2>1. "CITEM_CREATED" \in Steps
    BY DEF Steps
  <2> QED
    BY <1>0, <1>1, <1>2, <2>1, TakesHead
<1>4. /\ n \in 0..1 /\ faults' \in 0..MaxFaults /\ faults' \in Nat /\ faults' >= faults
      /\ faults' = 0 => faults = 0 /\ n = 1
  BY <1>0, <1>2, MakesSome
<1>5. UNCHANGED <<text, origins, builds, point, reading>>
  BY <1>2 DEF sums, index
<1>6. Logged("global", N)
  <2>1. CASE n = 1 /\ s \in Salient
    <3>1. Advance("global", <<e>>)
      BY <1>2, <2>1
    <3> QED
      BY <1>0, <1>3, <2>1, <3>1, OneAppended
  <2>2. CASE ~(n = 1 /\ s \in Salient)
    <3>1. Advance("global", <<>>)
      BY <1>2, <2>2
    <3> QED
      BY <1>0, <1>3, <2>2, <3>1, NothingAppended
  <2> QED
    BY <2>1, <2>2
<1>7. Loosely(N) /\ Peaceful
  BY <1>0, <1>2, <1>4, <1>6, LooselyLogged DEF Peaceful, RestTypes
<1>8. /\ N \subseteq {e} /\ e.type = "PROMOTED_GLOBAL" /\ e.of = s
      /\ e \in N <=> n = 1 /\ s \in Salient
  BY EventFields
<1> HIDE DEF N
<1>9. \A f \in N : Known(f)
  BY <1>8 DEF Known
<1>10. Levels'
  BY <1>0, <1>5, <1>7, <1>8, RequestsKnown, LevelsKept DEF IInv
<1>11. RowTypes' /\ \A x \in Sources : Course(x)'
  <2>1. "PROMOTED_GLOBAL" \notin Steps \cup {"FILE_UPLOADED"}
    BY DEF Steps
  <2> QED
    BY <1>0, <1>2, <1>4, <1>7, <1>8, <2>1, RowsElsewhere
<1>12. RestTypes'
  BY <1>0, <1>2, <1>4, <1>5 DEF RestTypes, globals
<1>13. InboxTypes' /\ Log'
  BY <1>0, <1>6, <1>9, LogKept DEF InboxTypes
<1>14. TypeOK'
  BY <1>11, <1>12, <1>13, TypeParts, PTL
<1>15. /\ Attentive' /\ Requested'
       /\ \A m \in Summaries : Built(m)' /\ Indexing(m)'
  <2>1. \A f \in N : f.type \notin Updates
    BY <1>8 DEF Updates
  <2>2. "global" # "builder" /\ "global" # "semantic"
    OBVIOUS
  <2> QED
    BY <1>0, <1>5, <1>6, <1>7, <2>1, <2>2, SummariesKept DEF IInv
<1>16. Named'
  BY <1>2, <1>4 DEF IInv, Named, globals
<1>17. ASSUME NEW x \in Sources PROVE Promoting(x)'
  <2>1. /\ Announced("CITEM_CREATED", x)' <=> Announced("CITEM_CREATED", x)
        /\ Announced("PROMOTED_GLOBAL", x)' <=>
             Announced("PROMOTED_GLOBAL", x) \/ (x = s /\ n = 1 /\ s \in Salient)
    BY <1>6, <1>8, EventFields DEF Logged, Announced
  <2>2. global' = global
    BY <1>2 DEF globals
  <2>3. InPeace' => InPeace /\ n = 1
    BY <1>2, <1>4 DEF InPeace
  <2>4. Due("global", "CITEM_CREATED", x)' => Due("global", "CITEM_CREATED", x) /\ x # s
    <3>1. Event("CITEM_CREATED", x) \notin N
      BY <1>8, EventFields
    <3> QED
      BY <1>0, <1>3, <1>6, <1>7, <3>1, StillDue
  <2>5. /\ Due("global", "PROMOTED_GLOBAL", x) => Due("global", "PROMOTED_GLOBAL", x)'
        /\ x # s /\ Due("global", "CITEM_CREATED", x) => Due("global", "CITEM_CREATED", x)'
    BY <1>0, <1>3, <1>6, EventFields DEF Logged, Due, Waiting, Taken
  <2>6. n = 1 /\ s \in Salient => Due("global", "PROMOTED_GLOBAL", s)'
    <3>1. ~Announced("PROMOTED_GLOBAL", s) /\ "PROMOTED_GLOBAL" \in Types("global")
      BY <1>3 DEF IInv, Promoting, Types
    <3> QED
      BY <1>0, <1>6, <1>8, <3>1 DEF Logged, Due, Waiting, Announced
  <2>7. CASE x # s
    BY <2>1, <2>2, <2>3, <2>4, <2>5, <2>7 DEF IInv, Promoting
  <2>8. CASE x = s
    BY <1>3, <2>1, <2>2, <2>3, <2>4, <2>6, <2>8 DEF Promoting
  <2> QED
    BY <2>7, <2>8
<1> QED
  BY <1>10, <1>11, <1>13, <1>14, <1>15, <1>16, <1>17 DEF IInv

LEMMA PromoteKeeps ==
  ASSUME IInv, NEW n, Promote(n)
  PROVE  IInv'
<1>0. /\ TypeOK /\ Log /\ RestTypes /\ faults \in Nat /\ faults \in 0..MaxFaults
      /\ "global" \in Readers
  BY TypeParts, BoundAssumption DEF IInv, RestTypes, Readers
<1>1. PICK s, k : s = Current("global").of /\ k = After(n, 2)
  OBVIOUS
<1>2. /\ Given("global", "PROMOTED_GLOBAL") /\ Makes(n, 6) /\ active' = active
      /\ global' = IF n >= 1 THEN global \cup {s} ELSE global
      /\ globalPoints' = IF n >= 2 THEN globalPoints \cup {s} ELSE globalPoints
      /\ globalText' = IF k >= 1 THEN global' ELSE globalText
      /\ globalOrigins' = CASE k <= 1 -> globalOrigins [] k = 2 -> {} [] OTHER -> global'
      /\ globalPoint' = IF k >= 4 THEN global' ELSE globalPoint
      /\ Advance("global", <<>>)
      /\ UNCHANGED <<asked, rows, sums, index>>
  BY <1>1 DEF Promote, GlobalRow, GlobalMark, RefreshGlobalSummary, GlobalsFound,
              SaveGlobalSummary, SaveGlobalOrigins, IndexGlobalSummary
<1>3. /\ s \in Salient /\ inbox["global"] # <<>>
      /\ Head(inbox["global"]) = Event("PROMOTED_GLOBAL", s) /\ Announced("PROMOTED_GLOBAL", s)
  BY <1>0, <1>1, <1>2, TakesHead
<1>4. /\ n \in 0..6 /\ faults' \in 0..MaxFaults /\ faults' \in Nat /\ faults' >= faults
      /\ faults' = 0 => faults = 0 /\ n = 6
  BY <1>0, <1>2, MakesSome
<1>5. k \in 0..4 /\ (k >= 1 => n >= 2) /\ (n = 6 => k = 4)
  BY <1>1, <1>4 DEF After
<1>6. UNCHANGED <<text, origins, builds, point, reading>>
  BY <1>2 DEF sums, index
<1>7. Logged("global", {})
  BY <1>0, <1>2, <1>3, NothingAppended
<1>8. Loosely({}) /\ Peaceful
  BY <1>0, <1>2, <1>4, <1>7, LooselyLogged DEF Peaceful, RestTypes
<1>9. Levels'
  BY <1>0, <1>6, <1>8, RequestsKnown, LevelsKept DEF IInv
<1>10. RowTypes' /\ \A x \in Sources : Course(x)'
  BY <1>0, <1>2, <1>4, <1>8, RowsElsewhere
<1>11. /\ global' \subseteq Salient /\ global \subseteq global' /\ globalPoints' \subseteq global'
       /\ globalText' \subseteq global' /\ globalPoint' \subseteq global'
       /\ globalOrigins' \subseteq global'
  <2>1. /\ global' \subseteq Salient /\ global \subseteq global' /\ globalPoints' \subseteq global'
    BY <1>0, <1>2, <1>3, <1>4 DEF RestTypes
  <2>2. globalText' \subseteq global' /\ globalPoint' \subseteq global'
    BY <1>0, <1>2, <2>1 DEF RestTypes
  <2>3. globalOrigins' \in {globalOrigins, {}, global'}
    BY <1>2, <1>5
  <2> QED
    BY <1>0, <2>1, <2>2, <2>3 DEF RestTypes
<1>12. RestTypes'
  BY <1>0, <1>2, <1>4, <1>6, <1>11 DEF RestTypes
<1>13. InboxTypes' /\ Log'
  BY <1>0, <1>7, LogKept DEF InboxTypes
<1>14. TypeOK'
  BY <1>10, <1>12, <1>13, TypeParts, PTL
<1>15. /\ Attentive' /\ Requested'
       /\ \A m \in Summaries : Built(m)' /\ Indexing(m)'
  <2>1. "global" # "builder" /\ "global" # "semantic"
    OBVIOUS
  <2> QED
    BY <1>0, <1>6, <1>7, <1>8, <2>1, SummariesKept DEF IInv
<1>16. Named'
  <2> SUFFICES ASSUME faults' = 0 PROVE Named'
    BY DEF Named
  <2>1. n = 6 /\ k = 4 /\ globalPoints = global
    BY <1>4, <1>5 DEF IInv, Named
  <2>2. globalOrigins' = global'
    BY <1>2, <2>1
  <2> QED
    BY <1>2, <2>1, <2>2 DEF Named
<1>17. ASSUME NEW x \in Sources PROVE Promoting(x)'
  <2>1. \A t : Announced(t, x)' <=> Announced(t, x)
    BY <1>7 DEF Logged, Announced
  <2>2. global' \subseteq global \cup {s} /\ (n = 6 => s \in global')
    BY <1>2
  <2>3. InPeace' => InPeace /\ n = 6
    BY <1>2, <1>4 DEF InPeace
  <2>4. Due("global", "CITEM_CREATED", x)' => Due("global", "CITEM_CREATED", x)
    BY <1>0, <1>8, StillDue
  <2>5. \A t : Due("global", t, x) => Due("global", t, x)' \/ (t = "PROMOTED_GLOBAL" /\ x = s)
    BY <1>0, <1>3, <1>7, EventFields DEF Logged, Due, Waiting, Taken
  <2>6. x = s => Announced("CITEM_CREATED", x)
    BY <1>3 DEF IInv, Promoting
  <2>7. Announced("PROMOTED_GLOBAL", x)' \/ x \in global' => Announced("CITEM_CREATED", x)'
    BY <2>1, <2>2, <2>6 DEF IInv, Promoting
  <2>8. Due("global", "CITEM_CREATED", x)' => ~Announced("PROMOTED_GLOBAL", x)'
    BY <2>1, <2>4 DEF IInv, Promoting
  <2>9. InPeace' /\ x \in Salient /\ Announced("CITEM_CREATED", x)' =>
          \/ Due("global", "CITEM_CREATED", x)' \/ Due("global", "PROMOTED_GLOBAL", x)'
          \/ x \in global'
    BY <1>11, <2>1, <2>2, <2>3, <2>5 DEF IInv, Promoting
  <2> QED
    BY <2>7, <2>8, <2>9 DEF Promoting
<1> QED
  BY <1>9, <1>10, <1>13, <1>14, <1>15, <1>16, <1>17 DEF IInv

-----------------------------------------------------------------------------
\* Deletion takes records away; what the summary worker is at stays.
LEMMA DeleteKeeps ==
  ASSUME IInv, BeginDelete
  PROVE  IInv'
<1>0. /\ TypeOK /\ Log /\ RestTypes /\ InboxTypes /\ faults \in Nat /\ "semantic" \in Readers
  BY TypeParts, BoundAssumption DEF IInv, RestTypes, Readers
<1>1. /\ active' = FALSE /\ announced' = announced /\ faults' = faults
      /\ inbox' = [r \in Readers |-> IF r = "semantic" /\ reading # {} THEN <<Current(r)>> ELSE <<>>]
      /\ UNCHANGED <<asked, rows, text, origins, builds, point, reading, globals>>
  BY DEF BeginDelete, sums, index
<1>2. ASSUME NEW q \in Readers
      PROVE  /\ inbox'[q] \in Seq(announced) /\ IsInjective(inbox'[q])
             /\ Range(inbox'[q]) \subseteq Waiting(q)
  <2>1. CASE q = "semantic" /\ reading # {}
    <3>1. inbox["semantic"] # <<>>
      BY <2>1 DEF IInv, Attentive
    <3>2. PICK c : c = Current(q)
      OBVIOUS
    <3>3. c \in announced /\ c \in Waiting(q)
      BY <1>0, <2>1, <3>1, <3>2, HeadKnown
    <3>4. PICK box : box = inbox'[q]
      OBVIOUS
    <3>5. box = <<c>>
      BY <1>1, <2>1, <3>2, <3>4
    <3>6. box \in Seq(announced) /\ DOMAIN box = {1} /\ box[1] = c
      BY <3>3, <3>5
    <3>7. IsInjective(box) /\ Range(box) = {c}
      BY <3>6 DEF IsInjective, Range
    <3> QED
      BY <3>3, <3>4, <3>6, <3>7, Zenon
  <2>2. CASE ~(q = "semantic" /\ reading # {})
    <3>1. PICK box : box = inbox'[q]
      OBVIOUS
    <3>2. box = <<>>
      BY <1>1, <2>2, <3>1
    <3>3. box \in Seq(announced) /\ IsInjective(box) /\ Range(box) = {}
      BY <3>2 DEF IsInjective, Range
    <3> QED
      BY <3>1, <3>3, Zenon
  <2> QED
    BY <2>1, <2>2
<1>3. Loosely({})
  BY <1>1, <1>2 DEF Loosely
<1>4. RowTypes' /\ \A x \in Sources : Course(x)'
  BY <1>0, <1>1, <1>3, RowsElsewhere
<1>5. RestTypes'
  BY <1>0, <1>1 DEF RestTypes, globals
<1>6. InboxTypes'
  BY <1>0, <1>1, <1>2 DEF InboxTypes, Waiting
<1>7. Log'
  BY <1>0, <1>1, <1>2 DEF Log, Known
<1>8. TypeOK'
  BY <1>4, <1>5, <1>6, TypeParts, PTL
<1>9. Levels'
  BY <1>0, <1>1, <1>3, RequestsKnown, LevelsKept DEF IInv
<1>10. Attentive'
  <2> SUFFICES ASSUME reading # {} PROVE Attentive'
    BY <1>1 DEF Attentive
  <2>1. Current("semantic").type \in Updates
    BY DEF IInv, Attentive, Current
  <2>2. PICK c, box : c = Current("semantic") /\ box = inbox'["semantic"]
    OBVIOUS
  <2>3. box = <<c>>
    BY <1>0, <1>1, <2>2
  <2>4. box # <<>> /\ Head(box) = c
    BY <2>3
  <2> QED
    BY <2>1, <2>2, <2>4 DEF Attentive
<1>11. ~InPeace'
  BY <1>1 DEF InPeace
<1>12. Requested' /\ Named'
  BY <1>1, <1>11 DEF IInv, Requested, Named, globals
<1>13. ASSUME NEW m \in Summaries PROVE Built(m)' /\ Indexing(m)'
  BY <1>1, <1>11 DEF IInv, Built, Indexing, Announced
<1>14. ASSUME NEW x \in Sources PROVE Promoting(x)'
  <2>1. \A t : Announced(t, x)' <=> Announced(t, x)
    BY <1>1 DEF Announced
  <2>2. Due("global", "CITEM_CREATED", x)' => Due("global", "CITEM_CREATED", x)
    <3>1. "global" \in Readers
      BY DEF Readers
    <3> QED
      BY <1>3, <3>1, StillDue
  <2> QED
    BY <1>1, <1>11, <2>1, <2>2 DEF IInv, Promoting, globals
<1> QED
  BY <1>4, <1>7, <1>8, <1>9, <1>10, <1>12, <1>13, <1>14 DEF IInv

LEMMA Stutters ==
  ASSUME IInv, UNCHANGED vars
  PROVE  IInv'
<1>1. UNCHANGED <<active, asked, registered, file, chunks, edus, citems, chunkIndex, citemIndex,
                  text, origins, builds, point, reading, global, globalPoints, globalText,
                  globalOrigins, globalPoint, announced, inbox, faults>>
  BY DEF vars, rows, sums, index, globals
<1>2. TypeOK' /\ Log' /\ Attentive' /\ Requested' /\ Named'
  BY <1>1 DEF IInv, TypeOK, Log, Known, Attentive, Requested, Requests, InPeace, Waiting, Named
<1>3. Levels'
  BY <1>1 DEF IInv, Levels, Requests, Scheduled, Announced, Due, Waiting
<1>4. ASSUME NEW s \in Sources PROVE Course(s)' /\ Promoting(s)'
  <2>1. Course(s) /\ Promoting(s)
    BY DEF IInv
  <2>2. InTurn(s)' /\ Filled(s)'
    BY <1>1, <2>1 DEF Course, InTurn, Filled, Announced, Due, Waiting
  <2>3. s \in Files => FileRight(s)'
    BY <1>1, <2>1 DEF Course, FileRight, Announced, Due, Waiting
  <2>4. Promoting(s)'
    BY <1>1, <2>1 DEF Promoting, InPeace, Announced, Due, Waiting
  <2> QED
    BY <2>2, <2>3, <2>4 DEF Course
<1>5. ASSUME NEW m \in Summaries PROVE Built(m)' /\ Indexing(m)'
  BY <1>1 DEF IInv, Built, Indexing, InPeace, Announced, Due, Waiting
<1> QED
  BY <1>2, <1>3, <1>4, <1>5 DEF IInv

LEMMA ConsumeKeeps ==
  ASSUME IInv, NEW r \in Readers, Consume(r)
  PROVE  IInv'
<1>1. CASE r = "semantic" /\ ReadSummary
  BY <1>1, ReadKeeps
<1>2. CASE \E n \in Writes : Handle(r, n)
  <2>1. PICK n \in Writes : Handle(r, n)
    BY <1>2
  <2>2. CASE r = "source"
    <3>1. ChunkSource(n) \/ \E raised \in BOOLEAN : HandleFileUploaded(n, raised)
      BY <2>1, <2>2 DEF Handle
    <3> QED
      BY <3>1, ChunkKeeps, UploadedKeeps
  <2>3. CASE r = "semantic"
    <3>1. SegmentChunks(n) \/ BuildCItems(n) \/ IndexCItems(n) \/ IndexSummary(n)
      BY <2>1, <2>3 DEF Handle
    <3> QED
      BY <3>1, SegmentKeeps, BuildItemsKeeps, IndexItemsKeeps, IndexKeeps
  <2>4. CASE r = "summary"
    <3>1. ScheduleSummaries(n)
      BY <2>1, <2>4 DEF Handle
    <3> QED
      BY <3>1, ScheduleKeeps
  <2>5. CASE r = "builder"
    <3>1. BuildSummary(n)
      BY <2>1, <2>5 DEF Handle
    <3> QED
      BY <3>1, BuildKeeps
  <2>6. CASE r = "global"
    <3>1. ScheduleGlobal(n) \/ Promote(n)
      BY <2>1, <2>6 DEF Handle
    <3> QED
      BY <3>1, ScheduleGlobalKeeps, PromoteKeeps
  <2> QED
    BY <2>2, <2>3, <2>4, <2>5, <2>6, ReadersAre
<1> QED
  BY <1>1, <1>2 DEF Consume

LEMMA Begins ==
  ASSUME Init
  PROVE  IInv
<1> USE DEF Init
<1>1. \A q \in Readers : inbox[q] = <<>> /\ Waiting(q) = {}
  BY DEF Waiting, Range
<1>2. announced = {} /\ Requests = {}
  BY DEF Requests
<1>3. TypeOK
  <2>1. RestTypes
    BY BoundAssumption DEF RestTypes
  <2>2. RowTypes
    BY PartsAssumption DEF RowTypes, Bounded, FileRows
  <2>3. InboxTypes
    BY <1>1 DEF InboxTypes, Waiting
  <2> QED
    BY <2>1, <2>2, <2>3, TypeParts
<1>4. Log
  <2>1. \A q : q = <<>> => q \in Seq(announced) /\ IsInjective(q)
    BY DEF IsInjective
  <2> QED
    BY <1>1, <1>2, <2>1 DEF Log
<1>5. Levels /\ Attentive /\ Requested /\ Named
  BY <1>2 DEF Levels, Attentive, Requested, Named
<1>6. ASSUME NEW s \in Sources PROVE Course(s) /\ Promoting(s)
  <2>1. \A q \in Readers : \A t : ~Due(q, t, s)
    BY <1>1 DEF Due
  <2>2. "source" \in Readers /\ "semantic" \in Readers /\ "global" \in Readers
    BY DEF Readers
  <2>3. s \in Files => file[s] = [status |-> "NONE", chunks |-> 0, items |-> 0]
    OBVIOUS
  <2> QED
    BY <1>2, <2>1, <2>2, <2>3 DEF Course, InTurn, Filled, FileRight, Promoting, Announced
<1>7. ASSUME NEW m \in Summaries PROVE Built(m) /\ Indexing(m)
  BY <1>2 DEF Built, Indexing, Announced
<1> QED
  BY <1>3, <1>4, <1>5, <1>6, <1>7 DEF IInv

(***************************************************************************)
(* The invariant.                                                          *)
(***************************************************************************)
THEOREM Inductive == Spec => []IInv
<1>1. Init => IInv
  BY Begins
<1>2. IInv /\ [Next]_vars => IInv'
  <2> SUFFICES ASSUME IInv, [Next]_vars PROVE IInv'
    OBVIOUS
  <2>1. CASE \E n \in Writes, s \in Sources : RegisterText(s, n) \/ RegisterFileUpload(s, n)
    BY <2>1, TextKeeps, UploadKeeps
  <2>2. CASE \E r \in Readers : Consume(r)
    BY <2>2, ConsumeKeeps
  <2>3. CASE BeginDelete
    BY <2>3, DeleteKeeps
  <2>4. CASE UNCHANGED vars
    BY <2>4, Stutters
  <2> QED
    BY <2>1, <2>2, <2>3, <2>4 DEF Next
<1> QED
  BY <1>1, <1>2, PTL DEF Spec

(***************************************************************************)
(* Whatever fails and in whatever order the workers run, the rows that an  *)
(* event speaks of are there when it is in the log, and what file_registry *)
(* says of a file is what the chunk and C-item tables hold.                *)
(***************************************************************************)
THEOREM RowsTrue == Spec => []RowsAreTrue
<1>1. IInv => RowsAreTrue
  <2> SUFFICES ASSUME IInv PROVE RowsAreTrue
    OBVIOUS
  <2>1. \A s \in Sources : Filled(s) /\ (s \in Files => FileRight(s))
    BY DEF IInv, Course
  <2>2. ASSUME NEW m \in Summaries, Announced("SUMMARY_CREATED", m) \/ Announced("SUMMARY_UPDATED", m)
        PROVE  text[m] # {}
    BY <2>2 DEF IInv, Built
  <2>3. RowsBeforeEvents
    BY <2>1, <2>2 DEF RowsBeforeEvents, Filled
  <2>4. FileStatusTrue
    BY <2>1 DEF FileStatusTrue, FileRight, Sources
  <2> QED
    BY <2>3, <2>4 DEF IInv, RowsAreTrue
<1> QED
  BY <1>1, Inductive, PTL

(***************************************************************************)
(* While nothing has failed: once every event is handled, each epoch that  *)
(* was asked for by one batch is built from that batch, the index holds    *)
(* the last text of every summary built at most twice, and the global      *)
(* memory is all that was announced of what is salient.                    *)
(***************************************************************************)
THEOREM Settles == Spec => []MemorySettles
<1>1. IInv => MemorySettles
  <2> SUFFICES ASSUME IInv, InPeace
               PROVE  /\ AtRest => SummariesSettle
                      /\ inbox["global"] = <<>> => GlobalSettles
    BY DEF MemorySettles
  <2>1. Range(<<>>) = {}
    BY DEF Range
  <2>2. ASSUME AtRest PROVE SummariesSettle
    <3>1. \A q \in Readers : Waiting(q) = {}
      BY <2>1, <2>2 DEF AtRest, Waiting
    <3>2. Waiting("builder") = {} /\ Waiting("semantic") = {}
      BY <3>1 DEF Readers
    <3>3. ASSUME NEW e \in Requests, e.level # Master
          PROVE  \/ text[e.level] = {e.of} /\ origins[e.level] = {e.of}
                 \/ \E o \in Requests \ {e} : o.level = e.level
      BY <3>2, <3>3 DEF IInv, Requested
    <3>4. ASSUME NEW m \in Summaries, builds[m] <= 2 PROVE point[m] = text[m]
      <4>1. builds[m] \in {0, 1, 2}
        <5>1. builds[m] \in Nat
          BY TypeParts DEF IInv, RestTypes
        <5> QED
          BY <3>4, <5>1
      <4>2. ~Due("semantic", "SUMMARY_CREATED", m) /\ ~Due("semantic", "SUMMARY_UPDATED", m)
        BY <3>2 DEF Due
      <4>3. /\ builds[m] = 0 => point[m] = {}
            /\ builds[m] = 1 => point[m] = text[m]
            /\ builds[m] = 2 => point[m] = text[m]
        BY <4>2 DEF IInv, Indexing
      <4>4. builds[m] = 0 => text[m] = {}
        BY DEF IInv, Built
      <4> QED
        BY <4>1, <4>3, <4>4
    <3> QED
      BY <3>3, <3>4 DEF SummariesSettle
  <2>3. ASSUME inbox["global"] = <<>> PROVE GlobalSettles
    <3>1. \A t, s : ~Due("global", t, s)
      BY <2>1, <2>3 DEF Due, Waiting
    <3>2. global \subseteq Salient /\ Salient \subseteq Sources
      BY SourcesAssumption DEF IInv, TypeOK
    <3>3. global = {s \in Salient : Announced("CITEM_CREATED", s)}
      BY <3>1, <3>2 DEF IInv, Promoting
    <3> QED
      BY <3>3 DEF IInv, Named, InPeace, GlobalSettles
  <2> QED
    BY <2>2, <2>3
<1> QED
  BY <1>1, Inductive, PTL
=============================================================================
