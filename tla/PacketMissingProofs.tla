------------------------ MODULE PacketMissingProofs ------------------------
(***************************************************************************)
(* Proofs about packet_missing, for any number of events, at any times.    *)
(***************************************************************************)
EXTENDS PacketMissing, SequenceTheorems, TLAPS

\* Events are sorted, and nothing is found while they are recorded.
RecordInv ==
  /\ \A k \in 1 .. Len(events) - 1 : events[k].time <= events[k + 1].time
  /\ pc = "record" => missing = <<>> /\ ~warned /\ i = 1
  /\ pc # "done" => response = "none"

\* How many events are not in the list any more.
Gone == Len(events) - Len(combine)

\* Whatever was deleted, what the loop has not come to is the end of the events.
WalkInv ==
  pc = "loop" =>
    /\ Gone \in Nat
    /\ \A k \in i .. Len(combine) : combine[k] = events[k + Gone]

\* The outages among the first n events.
Among(n) == {o \in {OutageAt(k) : k \in {j \in 1 .. n : IsOutage(j)}} : Counts(o)}

\* Before the first warning nothing was deleted, and all outages passed are listed.
ExactInv ==
  pc = "loop" /\ ~warned => last = Len(combine) /\ Listed = Among(i - 1 + Gone)

Alternating == \A k \in 1 .. Len(events) - 1 : events[k].reason # events[k + 1].reason

\* Among alternating events each iteration is at a loss, after a recovery.
AlternatingInv ==
  pc = "loop" /\ Alternating =>
    /\ ~warned /\ Len(combine) >= 1 /\ i <= Len(combine) + 1
    /\ i <= Len(combine) => At(i) = Dropped
    /\ i > 1 => events[i - 1 + Gone].reason = Matched

IInv ==
  /\ TypeOK /\ RecordInv /\ WalkInv /\ ExactInv /\ AlternatingInv
  /\ ListedWereOutages /\ AlternatingIsExact /\ NoWarningIsExact

-----------------------------------------------------------------------------
(* The lists of the module.                                                *)

\* An event deleted from a list: what follows it moves up.
LEMMA Deletion ==
  ASSUME NEW s \in Seq(Event), NEW k \in 1 .. Len(s)
  PROVE  /\ Without(s, k) \in Seq(Event) /\ Len(Without(s, k)) = Len(s) - 1
         /\ \A j \in k .. Len(s) - 1 : Without(s, k)[j] = s[j + 1]
<1>. DEFINE front == SubSeq(s, 1, k - 1)
            back  == SubSeq(s, k + 1, Len(s))
<1>1. Len(s) \in Nat /\ k \in Int /\ \A j \in 1 .. Len(s) : s[j] \in Event
  BY LenProperties, ElementOfSeq
<1>2. front \in Seq(Event) /\ Len(front) = k - 1
  <2>1. \A j \in 1 .. k - 1 : s[j] \in Event
    BY <1>1
  <2>2. front \in Seq(Event) /\ Len(front) = IF 1 <= k - 1 THEN (k - 1) - 1 + 1 ELSE 0
    BY <1>1, <2>1, SubSeqProperties
  <2>. HIDE DEF front
  <2>. QED  BY <1>1, <2>2
<1>3. /\ back \in Seq(Event) /\ Len(back) = Len(s) - k
      /\ \A j \in 1 .. Len(s) - k : back[j] = s[k + j]
  <2>1. \A j \in k + 1 .. Len(s) : s[j] \in Event
    BY <1>1
  <2>2. /\ back \in Seq(Event)
        /\ Len(back) = IF k + 1 <= Len(s) THEN Len(s) - (k + 1) + 1 ELSE 0
        /\ \A j \in 1 .. Len(s) - (k + 1) + 1 : back[j] = s[(k + 1) + j - 1]
    BY <1>1, <2>1, SubSeqProperties
  <2>. HIDE DEF back
  <2>3. ASSUME NEW j \in 1 .. Len(s) - k PROVE back[j] = s[k + j]
    <3>1. j \in 1 .. Len(s) - (k + 1) + 1 /\ (k + 1) + j - 1 = k + j
      BY <1>1
    <3>. QED  BY <2>2, <3>1
  <2>4. Len(back) = Len(s) - k
    BY <1>1, <2>2
  <2>. QED  BY <2>2, <2>3, <2>4
<1>4. Without(s, k) = front \o back
  BY DEF Without
<1>. HIDE DEF front, back
<1>5. /\ front \o back \in Seq(Event) /\ Len(front \o back) = Len(front) + Len(back)
      /\ \A j \in 1 .. Len(front) + Len(back) :
           (front \o back)[j] = IF j <= Len(front) THEN front[j] ELSE back[j - Len(front)]
  BY <1>2, <1>3, ConcatProperties
<1>6. ASSUME NEW j \in k .. Len(s) - 1 PROVE (front \o back)[j] = s[j + 1]
  <2>1. /\ j \in 1 .. Len(front) + Len(back) /\ ~(j <= Len(front))
        /\ j - Len(front) \in 1 .. Len(s) - k /\ k + (j - Len(front)) = j + 1
    BY <1>1, <1>2, <1>3
  <2>. QED  BY <1>3, <1>5, <2>1
<1>7. Len(front) + Len(back) = Len(s) - 1
  BY <1>1, <1>2, <1>3
<1>. QED  BY <1>4, <1>5, <1>6, <1>7

\* The list the loop starts with is the events, but for a recovery at their start.
LEMMA TrimmedIs ==
  ASSUME events \in Seq(Event), events # <<>>
  PROVE  /\ Trimmed \in Seq(Event)
         /\ \/ Len(Trimmed) = Len(events)
            \/ Len(Trimmed) = Len(events) - 1 /\ events[1].reason = Matched
         /\ \A k \in 1 .. Len(Trimmed) : Trimmed[k] = events[k + (Len(events) - Len(Trimmed))]
<1>1. CASE events[1].reason = Matched
  <2>1. Trimmed = Tail(events)
    BY <1>1 DEF Trimmed
  <2>2. /\ Tail(events) \in Seq(Event) /\ Len(Tail(events)) = Len(events) - 1
        /\ \A k \in 1 .. Len(Tail(events)) : Tail(events)[k] = events[k + 1]
    BY HeadTailProperties
  <2>3. Len(events) \in Nat
    BY LenProperties
  <2>4. Len(events) - (Len(events) - 1) = 1
    BY <2>3
  <2>. QED  BY <1>1, <2>1, <2>2, <2>4
<1>2. CASE events[1].reason # Matched
  <2>1. Trimmed = events
    BY <1>2 DEF Trimmed
  <2>2. Len(events) \in Nat
    BY LenProperties
  <2>3. Len(events) - Len(events) = 0 /\ \A k \in 1 .. Len(events) : k + 0 = k
    BY <2>2
  <2>. QED  BY <2>1, <2>3
<1>. QED  BY <1>1, <1>2

\* The elements of a sequence that has got one more.
LEMMA ElementsAfter ==
  ASSUME NEW s \in Seq(Outage), NEW o \in Outage
  PROVE  {Append(s, o)[k] : k \in 1 .. Len(Append(s, o))} = {s[k] : k \in 1 .. Len(s)} \cup {o}
<1>1. /\ Len(s) \in Nat /\ Len(Append(s, o)) = Len(s) + 1
      /\ \A k \in 1 .. Len(s) : Append(s, o)[k] = s[k]
      /\ Append(s, o)[Len(s) + 1] = o
  BY AppendProperties, LenProperties
<1>2. 1 .. Len(s) + 1 = (1 .. Len(s)) \cup {Len(s) + 1}
  BY <1>1
<1>. QED  BY <1>1, <1>2

\* A loss and the recovery after it add one outage to those of the events before them.
LEMMA AmongNext ==
  ASSUME NEW n \in Nat, IsOutage(n + 1)
  PROVE  Among(n + 2) = Among(n) \cup {o \in {OutageAt(n + 1)} : Counts(o)}
<1>1. ~IsOutage(n + 2)
  <2>1. n + 1 + 1 = n + 2 /\ events[n + 1 + 1].reason = Matched
    BY DEF IsOutage
  <2>. QED  BY <2>1 DEF IsOutage, Matched, Dropped
<1>2. 1 .. n + 2 = (1 .. n) \cup {n + 1, n + 2}
  OBVIOUS
<1>3. {j \in 1 .. n + 2 : IsOutage(j)} = {j \in 1 .. n : IsOutage(j)} \cup {n + 1}
  BY <1>1, <1>2
<1>. QED  BY <1>3 DEF Among

\* All outages are among all events but the last.
LEMMA AmongAll ==
  ASSUME events \in Seq(Event), NEW n \in Nat, n >= Len(events) - 1
  PROVE  Among(n) = Expected
<1>1. Len(events) \in Nat
  BY LenProperties
<1>2. {j \in 1 .. n : IsOutage(j)} = {j \in 1 .. Len(events) : IsOutage(j)}
  BY <1>1 DEF IsOutage
<1>. QED  BY <1>2 DEF Among, Expected

\* An outage of one second at most, cut to whole seconds, is one of less than two.
LEMMA ShortIs == \A d \in Nat : Short(d) <=> d < 2 * Second
BY SecondAssumption DEF Short

\* The time between two events next to each other, in the order they were sorted.
LEMMA Durations ==
  ASSUME TypeOK, RecordInv, NEW k \in 1 .. Len(events) - 1
  PROVE  /\ events[k] \in Event /\ events[k + 1] \in Event
         /\ events[k + 1].time - events[k].time \in Nat
         /\ OutageAt(k) \in Outage /\ OutageAt(k).duration \in Nat
         /\ Counts(OutageAt(k)) <=> strict \/ ~Short(events[k + 1].time - events[k].time)
<1>1. Len(events) \in Nat /\ k \in 1 .. Len(events) /\ k + 1 \in 1 .. Len(events)
  BY LenProperties DEF TypeOK
<1>2. events[k] \in Event /\ events[k + 1] \in Event
  BY <1>1, ElementOfSeq DEF TypeOK
<1>3. events[k].time \in Nat /\ events[k + 1].time \in Nat /\ events[k].time \in Times
  BY <1>2, TimesAssumption DEF Event
<1>4. events[k].time <= events[k + 1].time
  BY DEF RecordInv
<1>. DEFINE d == events[k + 1].time - events[k].time
<1>5. d \in Nat
  BY <1>3, <1>4
<1>6. OutageAt(k) = [start |-> events[k].time, duration |-> d]
  BY DEF OutageAt
<1>7. Counts(OutageAt(k)) <=> strict \/ d >= 2 * Second
  BY <1>6 DEF Counts
<1>. HIDE DEF d
<1>8. Short(d) <=> d < 2 * Second
  BY <1>5, ShortIs
<1>9. OutageAt(k) \in Outage /\ OutageAt(k).duration \in Nat
  BY <1>3, <1>5, <1>6 DEF Outage
<1>10. Counts(OutageAt(k)) <=> strict \/ ~Short(d)
  BY <1>5, <1>7, <1>8, SecondAssumption
<1>. QED  BY <1>2, <1>5, <1>9, <1>10 DEF d

-----------------------------------------------------------------------------
(* The steps of the module.                                                *)

\* The types an iteration relies on.
LEMMA Lengths ==
  TypeOK => /\ Len(events) \in Nat /\ Len(combine) \in Nat /\ i \in Nat /\ i >= 1 /\ last \in Nat
            /\ Gone \in Int /\ Second \in Nat
BY LenProperties, SecondAssumption DEF TypeOK, Gone

\* The events an iteration looks at are next to each other among those recorded.
LEMMA Visiting ==
  ASSUME IInv, pc = "loop", i <= Len(combine)
  PROVE  /\ Gone \in Nat /\ i + Gone \in 1 .. Len(events) /\ combine[i] = events[i + Gone]
         /\ combine[i] \in Event
         /\ i < Len(combine) => /\ combine[i + 1] = events[(i + Gone) + 1]
                                /\ i + Gone \in 1 .. Len(events) - 1
<1>1. /\ Gone \in Nat /\ \A k \in i .. Len(combine) : combine[k] = events[k + Gone]
  BY DEF IInv, WalkInv
<1>2. /\ Len(events) \in Nat /\ Len(combine) \in Nat /\ i \in Nat /\ i >= 1
      /\ Gone = Len(events) - Len(combine)
  BY Lengths DEF IInv, Gone
<1>. DEFINE g == Gone
<1>3. g \in Nat /\ g = Len(events) - Len(combine)
  BY <1>1, <1>2
<1>. HIDE DEF g
<1>4. i + g \in 1 .. Len(events) /\ i \in i .. Len(combine) /\ i \in 1 .. Len(combine)
  BY <1>2, <1>3
<1>5. combine[i] = events[i + g] /\ combine[i] \in Event
  BY <1>1, <1>4, ElementOfSeq DEF g, IInv, TypeOK
<1>6. ASSUME i < Len(combine)
      PROVE  combine[i + 1] = events[(i + g) + 1] /\ i + g \in 1 .. Len(events) - 1
  <2>1. /\ i + 1 \in i .. Len(combine) /\ (i + 1) + g = (i + g) + 1
        /\ i + g \in 1 .. Len(events) - 1
    BY <1>2, <1>3, <1>6
  <2>2. combine[i + 1] = events[(i + 1) + g]
    BY <1>1, <2>1 DEF g
  <2>. QED  BY <2>1, <2>2
<1>. QED  BY <1>1, <1>4, <1>5, <1>6 DEF g

\* A pair is an outage among the events recorded, and is listed if it counts.
LEMMA PairIs ==
  ASSUME IInv, Pair
  PROVE  /\ IsOutage(i + Gone) /\ i + Gone \in 1 .. Len(events) - 1
         /\ OutageAt(i + Gone) \in Outage
         /\ missing' = IF Counts(OutageAt(i + Gone)) THEN Append(missing, OutageAt(i + Gone))
                       ELSE missing
         /\ i' = i + 2 /\ Gone' = Gone
         /\ UNCHANGED <<pc, strict, events, combine, last, warned, response>>
<1>1. /\ pc = "loop" /\ i < Len(combine) /\ At(i) = Dropped /\ At(i + 1) = Matched
      /\ missing' = IF ~strict /\ Short(combine[i + 1].time - combine[i].time) THEN missing
                    ELSE Append(missing, [start |-> combine[i].time,
                                          duration |-> combine[i + 1].time - combine[i].time])
      /\ i' = i + 2 /\ UNCHANGED <<pc, strict, events, combine, last, warned, response>>
  BY DEF Pair, Visit, Continue
<1>2. i <= Len(combine)
  BY <1>1, Lengths DEF IInv
<1>3. /\ combine[i] = events[i + Gone] /\ combine[i + 1] = events[(i + Gone) + 1]
      /\ i + Gone \in 1 .. Len(events) - 1
  BY <1>1, <1>2, Visiting
<1>4. IsOutage(i + Gone)
  BY <1>1, <1>3 DEF IsOutage, At
<1>. DEFINE k == i + Gone
            d == events[k + 1].time - events[k].time
<1>5. k \in 1 .. Len(events) - 1
  BY <1>3
<1>6. /\ OutageAt(k) \in Outage
      /\ Counts(OutageAt(k)) <=> strict \/ ~Short(d)
  BY <1>5, Durations DEF IInv
<1>7. missing' = IF ~strict /\ Short(d) THEN missing
                 ELSE Append(missing, [start |-> events[k].time, duration |-> d])
  BY <1>1, <1>3
<1>8. [start |-> events[k].time, duration |-> d] = OutageAt(k)
  BY DEF OutageAt
<1>9. Gone' = Gone
  BY <1>1 DEF Gone
<1>. HIDE DEF d, k
<1>10. missing' = IF Counts(OutageAt(k)) THEN Append(missing, OutageAt(k)) ELSE missing
  BY <1>6, <1>7, <1>8
<1>. QED  BY <1>1, <1>4, <1>5, <1>6, <1>9, <1>10 DEF k

\* What the loop starts with.
LEMMA Starting ==
  ASSUME IInv, Run, pc' = "loop"
  PROVE  /\ Has(Matched) /\ Has(Dropped) /\ events # <<>>
         /\ pc = "record" /\ combine' = Trimmed /\ last' = Len(Trimmed) /\ Trimmed[1].reason = Dropped
         /\ i = 1 /\ missing = <<>> /\ response = "none" /\ ~warned
         /\ UNCHANGED <<strict, events, i, warned, missing, response>>
<1>1. pc = "record" /\ i = 1 /\ missing = <<>> /\ response = "none" /\ ~warned
  BY DEF Run, IInv, RecordInv
<1>2. /\ Has(Matched) /\ Has(Dropped) /\ combine' = Trimmed /\ last' = Len(Trimmed)
      /\ Trimmed[1].reason = Dropped /\ UNCHANGED <<strict, events, i, warned, missing, response>>
  BY DEF Run, Exit
<1>3. events # <<>>
  BY <1>2 DEF Has
<1>. QED  BY <1>1, <1>2, <1>3

\* The other steps of the loop end it, or delete an event at most.
LEMMA SkipIs ==
  ASSUME IInv, SkipRecovery
  PROVE  /\ combine' \in Seq(Event) /\ Gone' \in Nat
         /\ \A k \in i + 2 .. Len(combine') : combine'[k] = events[k + Gone']
<1>1. /\ pc = "loop" /\ i < Len(combine) /\ i \in Nat /\ i >= 1 /\ Len(combine) \in Nat
      /\ events' = events /\ combine \in Seq(Event) /\ Len(events) \in Nat
      /\ combine' = IF At(i + 1) = Dropped THEN Without(combine, i) ELSE combine
  BY Lengths DEF SkipRecovery, Visit, IInv, TypeOK
<1>2. Gone \in Nat /\ \A k \in i .. Len(combine) : combine[k] = events[k + Gone]
  BY <1>1 DEF IInv, WalkInv
<1>. DEFINE g == Gone
<1>3. g \in Nat /\ g = Len(events) - Len(combine)
  BY <1>2 DEF Gone
<1>. HIDE DEF g
<1>4. CASE combine' = combine
  <2>1. Gone' = g
    BY <1>1, <1>4 DEF Gone, g
  <2>2. \A k \in i + 2 .. Len(combine) : k \in i .. Len(combine)
    BY <1>1
  <2>. QED  BY <1>1, <1>2, <1>3, <1>4, <2>1, <2>2 DEF g
<1>5. CASE combine' = Without(combine, i)
  <2>1. i \in 1 .. Len(combine)
    BY <1>1
  <2>2. /\ combine' \in Seq(Event) /\ Len(combine') = Len(combine) - 1
        /\ \A j \in i .. Len(combine) - 1 : combine'[j] = combine[j + 1]
    BY <1>1, <1>5, <2>1, Deletion
  <2>3. Gone' = g + 1
    <3>1. Gone' = Len(events) - Len(combine')
      BY <1>1 DEF Gone
    <3>. QED  BY <1>1, <1>3, <2>2, <3>1
  <2>4. ASSUME NEW k \in i + 2 .. Len(combine') PROVE combine'[k] = events[k + (g + 1)]
    <3>1. /\ k \in i .. Len(combine) - 1 /\ k + 1 \in i .. Len(combine)
          /\ (k + 1) + g = k + (g + 1)
      BY <1>1, <1>3, <2>2
    <3>2. combine'[k] = combine[k + 1] /\ combine[k + 1] = events[(k + 1) + g]
      BY <1>2, <2>2, <3>1 DEF g
    <3>. QED  BY <3>1, <3>2
  <2>. QED  BY <1>3, <2>2, <2>3, <2>4
<1>. QED  BY <1>1, <1>4, <1>5

-----------------------------------------------------------------------------
(* The invariant.                                                          *)

\* The invariant holds at the start.
LEMMA InitOK == Init => IInv
<1>. SUFFICES ASSUME Init PROVE IInv
  OBVIOUS
<1>1. /\ pc = "record" /\ strict \in BOOLEAN /\ events = <<>> /\ combine = <<>> /\ missing = <<>>
      /\ i = 1 /\ last = 0 /\ warned = FALSE /\ response = "none"
  BY DEF Init
<1>2. Len(events) = 0 /\ Len(missing) = 0 /\ events \in Seq(Event) /\ combine \in Seq(Event)
      /\ missing \in Seq(Outage)
  BY <1>1, EmptySeq
<1>3. TypeOK
  <2>1. pc \in {"record", "loop", "done"} /\ response \in {"none", "ok", "failed", "raised"}
    BY <1>1
  <2>2. i \in Nat \ {0} /\ last \in Nat
    BY <1>1
  <2>3. strict \in BOOLEAN /\ warned \in BOOLEAN
    BY <1>1
  <2>. QED  BY <1>2, <2>1, <2>2, <2>3, Zenon DEF TypeOK
<1>4. RecordInv
  BY <1>1, <1>2 DEF RecordInv
<1>5. WalkInv /\ ExactInv /\ AlternatingInv
  BY <1>1 DEF WalkInv, ExactInv, AlternatingInv
<1>6. ListedWereOutages /\ AlternatingIsExact /\ NoWarningIsExact
  BY <1>1, <1>2 DEF ListedWereOutages, AlternatingIsExact, NoWarningIsExact
<1>. QED  BY <1>3, <1>4, <1>5, <1>6 DEF IInv

\* The lists stay lists of events and of outages.
LEMMA TypeKept == IInv /\ [Next]_vars => TypeOK'
<1>. SUFFICES ASSUME IInv, [Next]_vars PROVE TypeOK'
  OBVIOUS
<1>0. TypeOK /\ <<>> \in Seq(Outage)
  BY EmptySeq DEF IInv
<1>1. CASE \E e \in Event : Record(e)
  <2>1. PICK e \in Event : Record(e)
    BY <1>1
  <2>2. events' \in Seq(Event)
    BY <1>0, <2>1, AppendProperties DEF Record, TypeOK
  <2>. QED  BY <1>0, <2>1, <2>2 DEF Record, TypeOK
<1>2. CASE Run
  <2>1. /\ pc' \in {"loop", "done"} /\ missing' \in Seq(Outage)
        /\ response' \in {"none", "ok", "failed", "raised"}
    BY <1>0, <1>2 DEF Run, Exit, TypeOK
  <2>2. CASE UNCHANGED <<combine, last>>
    BY <1>0, <1>2, <2>1, <2>2 DEF Run, TypeOK
  <2>3. CASE events # <<>> /\ combine' = Trimmed /\ last' \in {last, Len(Trimmed)}
    <3>1. Trimmed \in Seq(Event) /\ Len(Trimmed) \in Nat
      BY <1>0, <2>3, TrimmedIs, LenProperties DEF TypeOK
    <3>. QED  BY <1>0, <1>2, <2>1, <2>3, <3>1 DEF Run, TypeOK
  <2>4. events # <<>> \/ ~Has(Matched)
    BY DEF Has
  <2>. QED  BY <1>2, <2>2, <2>3, <2>4 DEF Run
<1>3. CASE SkipRecovery
  <2>1. combine' \in Seq(Event)
    BY <1>3, SkipIs
  <2>2. i' \in Nat \ {0}
    BY <1>0, <1>3 DEF SkipRecovery, Continue, TypeOK
  <2>. QED  BY <1>0, <1>3, <2>1, <2>2 DEF SkipRecovery, Continue, TypeOK
<1>4. CASE LastEvent
  <2>1. pc = "loop" /\ i = Len(combine) /\ i <= Len(combine)
    BY <1>0, <1>4, Lengths DEF LastEvent, Visit
  <2>2. combine[i] \in Event
    BY <2>1, Visiting
  <2>3. [start |-> combine[i].time, duration |-> -1] \in Outage
    BY <2>2 DEF Event, Outage
  <2>4. missing' \in Seq(Outage)
    BY <1>0, <1>4, <2>3, AppendProperties DEF LastEvent, Exit, TypeOK
  <2>. QED  BY <1>0, <1>4, <2>4 DEF LastEvent, Exit, TypeOK
<1>5. CASE TwoLosses \/ PastTheEnd
  BY <1>0, <1>5 DEF TwoLosses, PastTheEnd, Exit, TypeOK
<1>6. CASE Pair
  <2>1. missing' \in Seq(Outage)
    <3>1. /\ OutageAt(i + Gone) \in Outage
          /\ missing' \in {missing, Append(missing, OutageAt(i + Gone))}
      BY <1>6, PairIs
    <3>. QED  BY <1>0, <3>1, AppendProperties DEF TypeOK
  <2>2. i' \in Nat \ {0}
    BY <1>0, <1>6, PairIs DEF TypeOK
  <2>. QED  BY <1>0, <1>6, <2>1, <2>2, PairIs DEF TypeOK
<1>7. CASE LoopEnds
  BY <1>0, <1>7 DEF LoopEnds, Exit, TypeOK
<1>8. CASE UNCHANGED vars
  BY <1>0, <1>8 DEF vars, TypeOK
<1>. QED  BY <1>1, <1>2, <1>3, <1>4, <1>5, <1>6, <1>7, <1>8 DEF Next

\* Events are recorded in order, and before the list is walked.
LEMMA RecordKept == IInv /\ [Next]_vars => RecordInv'
<1>. SUFFICES ASSUME IInv, [Next]_vars PROVE RecordInv'
  OBVIOUS
<1>0. RecordInv /\ TypeOK
  BY DEF IInv
<1>1. CASE \E e \in Event : Record(e)
  <2>1. PICK e \in Event : Record(e)
    BY <1>1
  <2>2. /\ events' = Append(events, e) /\ Len(events) \in Nat
        /\ UNCHANGED <<pc, missing, warned, i, response>>
    BY <1>0, <2>1, Lengths DEF Record
  <2>3. /\ Len(events') = Len(events) + 1 /\ events'[Len(events) + 1] = e
        /\ \A k \in 1 .. Len(events) : events'[k] = events[k]
    BY <1>0, <2>2, AppendProperties DEF TypeOK
  <2>4. ASSUME NEW k \in 1 .. Len(events') - 1 PROVE events'[k].time <= events'[k + 1].time
    <3>1. CASE k = Len(events)
      <4>1. events # <<>>
        BY <1>0, <3>1, <2>3, EmptySeq DEF TypeOK
      <4>2. events[k].time < e.time \/ events[k].time = e.time
        BY <2>1, <3>1, <4>1 DEF Record
      <4>3. k \in 1 .. Len(events) /\ e.time \in Nat
        <5>1. e.time \in Nat
          BY TimesAssumption DEF Event
        <5>. QED  BY <2>2, <2>3, <3>1, <5>1
      <4>4. events'[k] = events[k] /\ events'[k + 1] = e /\ events[k].time \in Nat
        <5>1. events[k] \in Event
          BY <1>0, <4>3, ElementOfSeq DEF TypeOK
        <5>. QED  BY <2>3, <3>1, <4>3, <5>1, TimesAssumption DEF Event
      <4>. QED  BY <4>2, <4>3, <4>4
    <3>2. CASE k # Len(events)
      <4>1. k \in 1 .. Len(events) - 1 /\ k \in 1 .. Len(events) /\ k + 1 \in 1 .. Len(events)
        BY <2>2, <2>3, <3>2
      <4>. QED  BY <1>0, <2>3, <4>1 DEF RecordInv
    <3>. QED  BY <3>1, <3>2
  <2>. QED  BY <1>0, <2>2, <2>4 DEF RecordInv
<1>2. CASE Run
  BY <1>0, <1>2 DEF Run, Exit, RecordInv
<1>3. CASE SkipRecovery \/ LastEvent \/ TwoLosses \/ Pair \/ PastTheEnd \/ LoopEnds
  <2>1. CASE SkipRecovery \/ Pair
    <3>1. pc = "loop" /\ events' = events /\ pc' = pc /\ response' = response
      BY <2>1 DEF SkipRecovery, Pair, Visit, Continue
    <3>. QED  BY <1>0, <3>1 DEF RecordInv
  <2>2. CASE LastEvent \/ TwoLosses \/ PastTheEnd \/ LoopEnds
    <3>1. pc' = "done" /\ events' = events
      BY <2>2 DEF LastEvent, TwoLosses, PastTheEnd, LoopEnds, Exit
    <3>. QED  BY <1>0, <3>1 DEF RecordInv
  <2>. QED  BY <1>3, <2>1, <2>2
<1>4. CASE UNCHANGED vars
  BY <1>0, <1>4 DEF vars, RecordInv
<1>. QED  BY <1>1, <1>2, <1>3, <1>4 DEF Next

\* The loop only deletes events it does not come to again.
LEMMA WalkKept == IInv /\ [Next]_vars => WalkInv'
<1>. SUFFICES ASSUME IInv, [Next]_vars, pc' = "loop"
              PROVE  Gone' \in Nat /\ \A k \in i' .. Len(combine') : combine'[k] = events'[k + Gone']
  BY DEF WalkInv
<1>0. TypeOK /\ Len(events) \in Nat /\ Len(combine) \in Nat /\ i \in Nat
  BY Lengths DEF IInv
<1>1. CASE Run
  <2>1. events # <<>> /\ events' = events /\ combine' = Trimmed /\ i' = 1
    BY <1>1, Starting
  <2>2. /\ Len(Trimmed) \in {Len(events), Len(events) - 1} /\ Len(Trimmed) \in Nat
        /\ \A k \in 1 .. Len(Trimmed) : Trimmed[k] = events[k + (Len(events) - Len(Trimmed))]
    BY <1>0, <2>1, TrimmedIs, LenProperties DEF TypeOK
  <2>3. Gone' = Len(events) - Len(Trimmed)
    BY <2>1 DEF Gone
  <2>4. Gone' \in Nat
    BY <1>0, <2>2, <2>3
  <2>. QED  BY <2>1, <2>2, <2>3, <2>4
<1>2. CASE SkipRecovery
  <2>1. i' = i + 2 /\ events' = events
    BY <1>2 DEF SkipRecovery, Continue
  <2>. QED  BY <1>2, <2>1, SkipIs
<1>3. CASE Pair
  <2>1. i' = i + 2 /\ Gone' = Gone /\ combine' = combine /\ events' = events /\ pc = "loop"
    BY <1>3, PairIs
  <2>2. \A k \in i + 2 .. Len(combine) : k \in i .. Len(combine)
    BY <1>0
  <2>. QED  BY <2>1, <2>2 DEF IInv, WalkInv
<1>4. CASE UNCHANGED vars
  BY <1>4, pc' = "loop" DEF vars, IInv, WalkInv, Gone
<1>5. CASE (\E e \in Event : Record(e)) \/ LastEvent \/ TwoLosses \/ PastTheEnd \/ LoopEnds
  BY <1>5, pc' = "loop" DEF Record, LastEvent, TwoLosses, PastTheEnd, LoopEnds, Exit
<1>. QED  BY <1>1, <1>2, <1>3, <1>4, <1>5 DEF Next

\* The outages listed after a pair, and those among the events it brings the loop past.
LEMMA PairLists ==
  ASSUME IInv, Pair
  PROVE  Listed' = Listed \cup {o \in {OutageAt(i + Gone)} : Counts(o)}
<1>. DEFINE o == OutageAt(i + Gone)
<1>1. /\ o \in Outage /\ missing \in Seq(Outage)
      /\ missing' = IF Counts(o) THEN Append(missing, o) ELSE missing
  BY PairIs DEF IInv, TypeOK
<1>. HIDE DEF o
<1>2. CASE Counts(o)
  <2>1. missing' = Append(missing, o)
    BY <1>1, <1>2
  <2>2. Listed' = {Append(missing, o)[k] : k \in 1 .. Len(Append(missing, o))}
    BY <2>1 DEF Listed
  <2>3. Listed' = Listed \cup {o}
    BY <1>1, <2>2, ElementsAfter DEF Listed
  <2>. QED  BY <1>2, <2>3 DEF o
<1>3. CASE ~Counts(o)
  <2>1. Listed' = Listed
    BY <1>1, <1>3 DEF Listed
  <2>. QED  BY <1>3, <2>1 DEF o
<1>. QED  BY <1>2, <1>3

\* Until the first warning all outages passed are listed.
LEMMA ExactKept == IInv /\ [Next]_vars => ExactInv'
<1>. SUFFICES ASSUME IInv, [Next]_vars, pc' = "loop", ~warned'
              PROVE  last' = Len(combine') /\ Listed' = Among(i - 1 + Gone)'
  BY DEF ExactInv
<1>0. /\ Len(events) \in Nat /\ Len(combine) \in Nat /\ i \in Nat /\ i >= 1 /\ TypeOK
      /\ Gone = Len(events) - Len(combine)
  BY Lengths DEF IInv, Gone
<1>a. ASSUME UNCHANGED <<events, strict>> PROVE Among(i - 1 + Gone)' = Among(i' - 1 + Gone')
  BY <1>a DEF Among, IsOutage, OutageAt, Counts
<1>1. CASE Run
  <2>1. /\ events # <<>> /\ combine' = Trimmed /\ i' = 1 /\ last' = Len(Trimmed)
        /\ missing' = <<>> /\ UNCHANGED <<events, strict>>
    BY <1>1, Starting
  <2>2. /\ Len(Trimmed) \in Nat
        /\ \/ Len(Trimmed) = Len(events)
           \/ Len(Trimmed) = Len(events) - 1 /\ events[1].reason = Matched
    <3>1. /\ Trimmed \in Seq(Event)
          /\ \/ Len(Trimmed) = Len(events)
             \/ Len(Trimmed) = Len(events) - 1 /\ events[1].reason = Matched
      BY <1>0, <2>1, TrimmedIs DEF TypeOK
    <3>2. Len(Trimmed) \in Nat
      BY <3>1, LenProperties
    <3>. QED  BY <3>1, <3>2
  <2>3. Gone' = Len(events) - Len(Trimmed)
    BY <2>1 DEF Gone
  <2>. DEFINE n == i' - 1 + Gone'
  <2>4. n = 0 \/ (n = 1 /\ ~IsOutage(1))
    BY <1>0, <2>1, <2>2, <2>3 DEF IsOutage, Matched, Dropped
  <2>. HIDE DEF n
  <2>5. {j \in 1 .. n : IsOutage(j)} = {}
    BY <2>4
  <2>6. Among(n) = {}
    BY <2>5 DEF Among
  <2>7. Listed' = {}
    BY <2>1, EmptySeq DEF Listed
  <2>. QED  BY <1>a, <2>1, <2>6, <2>7 DEF n
<1>2. CASE SkipRecovery
  BY <1>2, ~warned' DEF SkipRecovery
<1>3. CASE Pair
  <2>1. /\ pc = "loop" /\ ~warned /\ combine' = combine /\ last' = last /\ i' = i + 2 /\ Gone' = Gone
        /\ UNCHANGED <<events, strict>>
    BY <1>3, PairIs
  <2>2. last = Len(combine) /\ Listed = Among(i - 1 + Gone) /\ Gone \in Nat
    BY <2>1 DEF IInv, ExactInv, WalkInv
  <2>. DEFINE n == i - 1 + Gone
  <2>3. n \in Nat /\ n + 1 = i + Gone /\ n + 2 = i' - 1 + Gone'
    BY <1>0, <2>1, <2>2
  <2>4. IsOutage(n + 1) /\ Listed' = Listed \cup {o \in {OutageAt(n + 1)} : Counts(o)}
    BY <1>3, <2>3, PairIs, PairLists
  <2>5. Among(i' - 1 + Gone') = Among(n + 2)
    BY <2>3
  <2>6. Listed = Among(n)
    BY <2>2
  <2>. HIDE DEF n
  <2>7. Listed' = Among(n + 2)
    BY <2>3, <2>4, <2>6, AmongNext
  <2>. QED  BY <1>a, <2>1, <2>2, <2>5, <2>7
<1>4. CASE UNCHANGED vars
  <2>1. pc = "loop" /\ ~warned
    BY <1>4 DEF vars
  <2>2. last = Len(combine) /\ Listed = Among(i - 1 + Gone)
    BY <2>1 DEF IInv, ExactInv
  <2>3. Listed' = Listed /\ Gone' = Gone
    BY <1>4 DEF vars, Listed, Gone
  <2>. QED  BY <1>4, <1>a, <2>2, <2>3 DEF vars
<1>5. CASE (\E e \in Event : Record(e)) \/ LastEvent \/ TwoLosses \/ PastTheEnd \/ LoopEnds
  <2>1. CASE \E e \in Event : Record(e)
    BY <2>1, pc' = "loop" DEF Record
  <2>2. CASE LastEvent \/ TwoLosses \/ PastTheEnd \/ LoopEnds
    BY <2>2, pc' = "loop" DEF LastEvent, TwoLosses, PastTheEnd, LoopEnds, Exit
  <2>. QED  BY <1>5, <2>1, <2>2
<1>. QED  BY <1>1, <1>2, <1>3, <1>4, <1>5 DEF Next

\* Alternating events that hold a loss and a recovery are two at least, and the list the
\* loop starts with begins with a loss.
LEMMA AlternatingStart ==
  ASSUME TypeOK, Alternating, Has(Matched), Has(Dropped)
  PROVE  Len(events) >= 2 /\ Trimmed[1].reason = Dropped
<1>1. Len(events) \in Nat
  BY Lengths
<1>2. PICK k \in 1 .. Len(events) : events[k].reason = Dropped
  BY DEF Has
<1>3. PICK l \in 1 .. Len(events) : events[l].reason = Matched
  BY DEF Has
<1>4. k # l
  BY <1>2, <1>3 DEF Matched, Dropped
<1>5. Len(events) >= 2
  BY <1>1, <1>4
<1>6. events # <<>>
  BY <1>2, EmptySeq
<1>7. 1 \in 1 .. Len(events) /\ 2 \in 1 .. Len(events) /\ 1 \in 1 .. Len(events) - 1 /\ 1 + 1 = 2
  BY <1>1, <1>5
<1>8. events[1] \in Event /\ events[2] \in Event /\ events[1].reason # events[2].reason
  BY <1>7, ElementOfSeq DEF TypeOK, Alternating
<1>9. CASE events[1].reason = Matched
  <2>1. events[2].reason = Dropped
    BY <1>8, <1>9 DEF Event
  <2>2. Trimmed = Tail(events) /\ Len(Tail(events)) = Len(events) - 1
        /\ \A j \in 1 .. Len(Tail(events)) : Tail(events)[j] = events[j + 1]
    BY <1>6, <1>9, HeadTailProperties DEF Trimmed, TypeOK
  <2>3. 1 \in 1 .. Len(Tail(events))
    BY <1>1, <1>5, <2>2
  <2>. QED  BY <1>5, <1>7, <2>1, <2>2, <2>3
<1>10. CASE events[1].reason # Matched
  BY <1>5, <1>8, <1>10 DEF Trimmed, Event
<1>. QED  BY <1>9, <1>10

\* Among alternating events no iteration but a pair goes on.
LEMMA AlternatingKept == IInv /\ [Next]_vars => AlternatingInv'
<1>. SUFFICES ASSUME IInv, [Next]_vars, pc' = "loop", Alternating'
              PROVE  /\ ~warned' /\ Len(combine') >= 1 /\ i' <= Len(combine') + 1
                     /\ i' <= Len(combine') => combine'[i'].reason = Dropped
                     /\ i' > 1 => events'[i' - 1 + Gone'].reason = Matched
  BY DEF AlternatingInv, At
<1>0. /\ Len(events) \in Nat /\ Len(combine) \in Nat /\ i \in Nat /\ i >= 1 /\ TypeOK
      /\ Gone = Len(events) - Len(combine)
  BY Lengths DEF IInv, Gone
<1>a. ASSUME events' = events PROVE Alternating
  BY <1>a, Alternating' DEF Alternating
<1>1. CASE Run
  <2>1. /\ events # <<>> /\ combine' = Trimmed /\ i' = 1 /\ ~warned' /\ events' = events
        /\ Has(Matched) /\ Has(Dropped) /\ Trimmed[1].reason = Dropped
    BY <1>1, Starting
  <2>2. Len(Trimmed) \in {Len(events), Len(events) - 1}
    BY <1>0, <2>1, TrimmedIs DEF TypeOK
  <2>3. Len(events) >= 2
    BY <1>0, <1>a, <2>1, AlternatingStart
  <2>. QED  BY <1>0, <2>1, <2>2, <2>3
<1>2. CASE SkipRecovery
  <2>1. pc = "loop" /\ events' = events /\ i < Len(combine) /\ At(i) = Matched
    BY <1>2 DEF SkipRecovery, Visit
  <2>2. At(i) = Dropped
    BY <1>0, <1>a, <2>1 DEF IInv, AlternatingInv
  <2>. QED  BY <2>1, <2>2 DEF Matched, Dropped
<1>3. CASE Pair
  <2>1. /\ pc = "loop" /\ combine' = combine /\ i' = i + 2 /\ Gone' = Gone /\ events' = events
        /\ warned' = warned /\ IsOutage(i + Gone)
    BY <1>3, PairIs
  <2>2. i < Len(combine)
    BY <1>3 DEF Pair
  <2>3. ~warned /\ Len(combine) >= 1
    BY <1>a, <2>1 DEF IInv, AlternatingInv
  <2>4. /\ Gone \in Nat /\ \A k \in i .. Len(combine) : combine[k] = events[k + Gone]
    BY <2>1 DEF IInv, WalkInv
  <2>. DEFINE m == (i + Gone) + 1
  <2>5. events[m].reason = Matched /\ (i + 2) - 1 + Gone = m
    BY <1>0, <2>1, <2>4 DEF IsOutage
  <2>6. ASSUME i + 2 <= Len(combine) PROVE combine[i + 2].reason = Dropped
    <3>1. /\ m \in 1 .. Len(events) - 1 /\ m + 1 \in 1 .. Len(events) /\ (i + 2) + Gone = m + 1
          /\ i + 2 \in i .. Len(combine)
      BY <1>0, <2>4, <2>6
    <3>2. events[m].reason # events[m + 1].reason /\ events[m + 1] \in Event
      BY <1>0, <1>a, <2>1, <3>1, ElementOfSeq DEF Alternating, TypeOK
    <3>3. combine[i + 2] = events[m + 1]
      BY <2>4, <3>1
    <3>. QED  BY <2>5, <3>2, <3>3 DEF Event
  <2>7. i + 2 <= Len(combine) + 1
    BY <1>0, <2>2
  <2>. HIDE DEF m
  <2>. QED  BY <2>1, <2>3, <2>5, <2>6, <2>7
<1>4. CASE UNCHANGED vars
  <2>1. pc = "loop" /\ Alternating /\ Gone' = Gone
    BY <1>4, <1>a DEF vars, Gone
  <2>. QED  BY <1>4, <2>1 DEF vars, IInv, AlternatingInv, At
<1>5. CASE (\E e \in Event : Record(e)) \/ LastEvent \/ TwoLosses \/ PastTheEnd \/ LoopEnds
  <2>1. CASE \E e \in Event : Record(e)
    BY <2>1, pc' = "loop", IInv DEF Record
  <2>2. CASE LastEvent \/ TwoLosses \/ PastTheEnd \/ LoopEnds
    BY <2>2, pc' = "loop" DEF LastEvent, TwoLosses, PastTheEnd, LoopEnds, Exit
  <2>. QED  BY <1>5, <2>1, <2>2
<1>. QED  BY <1>1, <1>2, <1>3, <1>4, <1>5 DEF Next

\* An iteration lists real outages only, but for the one still open at the end.
LEMMA ListedKept == IInv /\ [Next]_vars => ListedWereOutages'
<1>. SUFFICES ASSUME IInv, [Next]_vars,
                     NEW k \in 1 .. Len(missing'), missing'[k].duration >= 0
              PROVE  \E j \in 1 .. Len(events') :
                       IsOutage(j)' /\ missing'[k] = OutageAt(j)'
  BY DEF ListedWereOutages
<1>0. /\ Len(events) \in Nat /\ TypeOK /\ missing \in Seq(Outage) /\ Len(missing) \in Nat
  BY Lengths, LenProperties DEF IInv, TypeOK
<1>a. ASSUME events' = events, NEW l \in 1 .. Len(missing), missing'[k] = missing[l]
      PROVE  \E j \in 1 .. Len(events') : IsOutage(j)' /\ missing'[k] = OutageAt(j)'
  <2>1. PICK j \in 1 .. Len(events) : IsOutage(j) /\ missing[l] = OutageAt(j)
    BY <1>a DEF IInv, ListedWereOutages
  <2>. QED  BY <1>a, <2>1 DEF IsOutage, OutageAt
<1>1. CASE \E e \in Event : Record(e)
  <2>1. missing' = <<>>
    BY <1>1 DEF Record, IInv, RecordInv
  <2>. QED  BY <2>1, EmptySeq
<1>2. CASE missing' = <<>>
  BY <1>2, EmptySeq
<1>3. CASE missing' = missing /\ events' = events
  BY <1>3, <1>a
<1>4. CASE LastEvent
  <2>. DEFINE o == [start |-> combine[i].time, duration |-> -1]
  <2>1. missing' = Append(missing, o) /\ events' = events
    BY <1>4 DEF LastEvent, Exit
  <2>2. o \in Outage /\ ~(o.duration >= 0)
    <3>1. combine[i] \in Event
      <4>1. pc = "loop" /\ i <= Len(combine)
        BY <1>4, Lengths DEF LastEvent, Visit, IInv
      <4>. QED  BY <4>1, Visiting
    <3>. QED  BY <3>1 DEF Event, Outage
  <2>. HIDE DEF o
  <2>3. /\ Len(missing') = Len(missing) + 1 /\ missing'[Len(missing) + 1] = o
        /\ \A l \in 1 .. Len(missing) : missing'[l] = missing[l]
    BY <1>0, <2>1, <2>2, AppendProperties
  <2>4. k # Len(missing) + 1
    BY <2>2, <2>3
  <2>5. k \in 1 .. Len(missing)
    BY <1>0, <2>3, <2>4
  <2>. QED  BY <1>a, <2>1, <2>3, <2>5
<1>5. CASE Pair
  <2>. DEFINE o == OutageAt(i + Gone)
  <2>1. /\ o \in Outage /\ missing' \in {missing, Append(missing, o)} /\ events' = events
        /\ IsOutage(i + Gone) /\ i + Gone \in 1 .. Len(events) - 1
    BY <1>5, PairIs
  <2>2. CASE missing' = Append(missing, o) /\ k = Len(missing) + 1
    <3>1. missing'[k] = o
      BY <1>0, <2>1, <2>2, AppendProperties
    <3>2. i + Gone \in 1 .. Len(events)
      BY <1>0, <2>1
    <3>3. PICK j \in 1 .. Len(events) : IsOutage(j) /\ missing'[k] = OutageAt(j)
      BY <2>1, <3>1, <3>2
    <3>. QED  BY <2>1, <3>3 DEF IsOutage, OutageAt
  <2>3. CASE missing' = Append(missing, o) /\ k # Len(missing) + 1
    <3>. HIDE DEF o
    <3>1. /\ Len(missing') = Len(missing) + 1
          /\ \A l \in 1 .. Len(missing) : missing'[l] = missing[l]
      BY <1>0, <2>1, <2>3, AppendProperties
    <3>2. k \in 1 .. Len(missing)
      BY <1>0, <2>3, <3>1
    <3>. QED  BY <1>a, <2>1, <3>1, <3>2
  <2>4. CASE missing' = missing
    BY <1>3, <2>1, <2>4
  <2>. QED  BY <2>1, <2>2, <2>3, <2>4
<1>6. CASE Run \/ SkipRecovery \/ TwoLosses \/ PastTheEnd \/ LoopEnds \/ UNCHANGED vars
  <2>1. missing' = <<>> \/ (missing' = missing /\ events' = events)
    BY <1>6 DEF Run, SkipRecovery, TwoLosses, PastTheEnd, LoopEnds, Exit, vars
  <2>. QED  BY <1>2, <1>3, <2>1
<1>. QED  BY <1>1, <1>4, <1>5, <1>6 DEF Next

\* The loop has come to the end of the events without a warning: it has listed all.
LEMMA AllListed ==
  ASSUME IInv, pc = "loop", ~warned, i >= Len(combine)
  PROVE  Listed = Expected
<1>1. /\ Len(events) \in Nat /\ Len(combine) \in Nat /\ i \in Nat /\ i >= 1 /\ events \in Seq(Event)
      /\ Gone = Len(events) - Len(combine)
  BY Lengths DEF IInv, Gone, TypeOK
<1>2. Gone \in Nat /\ Listed = Among(i - 1 + Gone)
  BY DEF IInv, WalkInv, ExactInv
<1>3. i - 1 + Gone \in Nat /\ i - 1 + Gone >= Len(events) - 1
  BY <1>1, <1>2
<1>. QED  BY <1>1, <1>2, <1>3, AmongAll

\* When the module ends, the list is exact unless it warns.
LEMMA NoWarningKept == IInv /\ [Next]_vars => NoWarningIsExact'
<1>. SUFFICES ASSUME IInv, [Next]_vars, response' = "ok", ~warned' PROVE Listed' = Expected'
  BY DEF NoWarningIsExact
<1>0. TypeOK /\ Len(events) \in Nat /\ Len(combine) \in Nat /\ i \in Nat /\ last \in Nat
  BY Lengths DEF IInv
<1>a. ASSUME UNCHANGED <<events, strict>> PROVE Expected' = Expected
  BY <1>a DEF Expected, IsOutage, OutageAt, Counts
<1>1. CASE response = "ok" /\ UNCHANGED <<missing, events, strict, warned>>
  <2>1. Listed = Expected /\ Listed' = Listed
    BY <1>1 DEF IInv, NoWarningIsExact, Listed
  <2>. QED  BY <1>1, <1>a, <2>1
<1>2. CASE response = "ok"
  <2>1. pc = "done"
    BY <1>2 DEF IInv, RecordInv
  <2>2. UNCHANGED vars
    BY <2>1 DEF Next, Record, Run, SkipRecovery, LastEvent, TwoLosses, Pair, PastTheEnd, LoopEnds, Visit
  <2>. QED  BY <1>1, <1>2, <2>2 DEF vars
<1>3. CASE Run /\ response # "ok"
  <2>1. missing' = <<>> /\ ~Has(Dropped) /\ UNCHANGED <<events, strict>>
    BY <1>3 DEF Run, Exit
  <2>2. Listed' = {}
    BY <2>1, EmptySeq DEF Listed
  <2>3. \A j : ~IsOutage(j)
    BY <1>0, <2>1 DEF Has, IsOutage
  <2>4. Expected = {}
    BY <2>3 DEF Expected
  <2>. QED  BY <1>a, <2>1, <2>2, <2>4
<1>4. CASE LoopEnds
  <2>1. /\ pc = "loop" /\ i > last /\ ~warned
        /\ UNCHANGED <<missing, events, strict>>
    BY <1>4, response' = "ok" DEF LoopEnds, Exit
  <2>2. i >= Len(combine)
    BY <1>0, <2>1 DEF IInv, ExactInv
  <2>3. Listed = Expected /\ Listed' = Listed
    BY <2>1, <2>2, AllListed DEF Listed
  <2>. QED  BY <1>a, <2>1, <2>3
<1>5. CASE LastEvent
  BY <1>5, ~warned' DEF LastEvent
<1>6. CASE response # "ok" /\ (TwoLosses \/ PastTheEnd \/ SkipRecovery \/ Pair \/ UNCHANGED vars
                                  \/ \E e \in Event : Record(e))
  BY <1>6, response' = "ok" DEF TwoLosses, PastTheEnd, SkipRecovery, Pair, Record, Exit, Continue, vars
<1>. QED  BY <1>2, <1>3, <1>4, <1>5, <1>6 DEF Next

\* When the module ends, alternating events give exactly their outages.
LEMMA ExactAtEnd == IInv /\ [Next]_vars => AlternatingIsExact'
<1>. SUFFICES ASSUME IInv, [Next]_vars, pc' = "done", Has(Matched)', Has(Dropped)', Alternating'
              PROVE  /\ response' = "ok"
                     /\ Listed' = Expected' \cup (IF events'[Len(events')].reason = Dropped
                                                  THEN {Open'} ELSE {})
  BY DEF AlternatingIsExact, Alternating
<1>0. /\ TypeOK /\ Len(events) \in Nat /\ Len(combine) \in Nat /\ i \in Nat /\ i >= 1 /\ last \in Nat
      /\ Gone = Len(events) - Len(combine)
  BY Lengths DEF IInv, Gone
<1>a. ASSUME UNCHANGED <<events, strict>>
      PROVE  Expected' = Expected /\ Open' = Open /\ Alternating /\ Has(Matched) /\ Has(Dropped)
  <2>1. Expected' = Expected /\ Open' = Open
    BY <1>a DEF Expected, IsOutage, OutageAt, Counts, Open
  <2>2. Alternating /\ Has(Matched) /\ Has(Dropped)
    BY <1>a, Alternating', Has(Matched)', Has(Dropped)' DEF Alternating, Has, Matched, Dropped
  <2>. QED  BY <2>1, <2>2
<1>b. ASSUME pc = "loop", UNCHANGED <<events, strict>>
      PROVE  /\ ~warned /\ Len(combine) >= 1 /\ i <= Len(combine) + 1
             /\ i <= Len(combine) => At(i) = Dropped
             /\ i > 1 => events[i - 1 + Gone].reason = Matched
             /\ last = Len(combine) /\ Gone \in Nat
  BY <1>a, <1>b DEF IInv, AlternatingInv, ExactInv, WalkInv
<1>1. CASE Run
  <2>1. UNCHANGED <<events, strict>>
    BY <1>1 DEF Run
  <2>2. Trimmed[1].reason = Dropped
    BY <1>0, <1>a, <2>1, AlternatingStart
  <2>. QED  BY <1>1, <1>a, <2>1, <2>2, pc' = "done" DEF Run
<1>2. CASE LastEvent
  <2>1. /\ pc = "loop" /\ i = Len(combine) /\ UNCHANGED <<events, strict>> /\ response' = "ok"
        /\ missing' = Append(missing, [start |-> combine[i].time, duration |-> -1])
    BY <1>2 DEF LastEvent, Visit, Exit
  <2>2. i <= Len(combine) /\ i >= Len(combine)
    BY <1>0, <2>1
  <2>3. ~warned /\ At(i) = Dropped /\ Gone \in Nat
    BY <1>b, <2>1, <2>2
  <2>4. Listed = Expected
    BY <2>1, <2>2, <2>3, AllListed
  <2>5. combine[i] = events[i + Gone] /\ combine[i] \in Event /\ i + Gone = Len(events)
    BY <1>0, <2>1, <2>2, Visiting
  <2>6. /\ [start |-> combine[i].time, duration |-> -1] = Open /\ Open \in Outage
        /\ events[Len(events)].reason = Dropped
    BY <2>3, <2>5 DEF Open, Event, Outage, At
  <2>7. missing' = Append(missing, Open)
    BY <2>1, <2>6
  <2>8. Listed' = Listed \cup {Open}
    <3>1. missing \in Seq(Outage)
      BY <1>0 DEF TypeOK
    <3>2. {Append(missing, Open)[k] : k \in 1 .. Len(Append(missing, Open))}
            = {missing[k] : k \in 1 .. Len(missing)} \cup {Open}
      BY <2>6, <3>1, ElementsAfter
    <3>. QED  BY <2>7, <3>2 DEF Listed
  <2>. QED  BY <1>a, <2>1, <2>4, <2>6, <2>8
<1>3. CASE TwoLosses
  <2>1. /\ pc = "loop" /\ i < Len(combine) /\ At(i) = Dropped /\ At(i + 1) = Dropped
        /\ UNCHANGED <<events, strict>>
    BY <1>3 DEF TwoLosses, Visit
  <2>2. i <= Len(combine)
    BY <1>0, <2>1
  <2>3. /\ combine[i] = events[i + Gone] /\ combine[i + 1] = events[(i + Gone) + 1]
        /\ i + Gone \in 1 .. Len(events) - 1
    BY <2>1, <2>2, Visiting
  <2>4. events[i + Gone].reason # events[(i + Gone) + 1].reason
    BY <1>a, <2>1, <2>3 DEF Alternating
  <2>. QED  BY <2>1, <2>3, <2>4 DEF At
<1>4. CASE PastTheEnd
  <2>1. pc = "loop" /\ i <= last /\ i > Len(combine) /\ UNCHANGED <<events, strict>>
    BY <1>4 DEF PastTheEnd, Visit
  <2>. QED  BY <1>0, <1>b, <2>1
<1>5. CASE LoopEnds
  <2>1. pc = "loop" /\ i > last /\ UNCHANGED <<events, strict, missing>> /\ response' = "ok"
    BY <1>5 DEF LoopEnds, Exit
  <2>2. /\ ~warned /\ i <= Len(combine) + 1 /\ last = Len(combine) /\ Len(combine) >= 1 /\ Gone \in Nat
        /\ i > 1 => events[i - 1 + Gone].reason = Matched
    BY <1>b, <2>1
  <2>3. i = Len(combine) + 1 /\ i > 1 /\ i >= Len(combine) /\ i - 1 + Gone = Len(events)
    BY <1>0, <2>1, <2>2
  <2>4. events[Len(events)].reason # Dropped
    BY <2>2, <2>3 DEF Matched, Dropped
  <2>5. Listed = Expected /\ Listed' = Listed
    BY <2>1, <2>2, <2>3, AllListed DEF Listed
  <2>. QED  BY <1>a, <2>1, <2>4, <2>5
<1>6. CASE (\E e \in Event : Record(e)) \/ SkipRecovery \/ Pair
  BY <1>6, pc' = "done" DEF Record, SkipRecovery, Pair, Visit, Continue
<1>7. CASE UNCHANGED vars
  <2>1. pc = "done" /\ UNCHANGED <<events, strict, missing, response>>
    BY <1>7, pc' = "done" DEF vars
  <2>2. /\ response = "ok"
        /\ Listed = Expected \cup (IF events[Len(events)].reason = Dropped THEN {Open} ELSE {})
    BY <1>a, <2>1 DEF IInv, AlternatingIsExact, Alternating
  <2>. QED  BY <1>a, <2>1, <2>2 DEF Listed
<1>. QED  BY <1>1, <1>2, <1>3, <1>4, <1>5, <1>6, <1>7 DEF Next

\* The invariant holds in every state of the module.
THEOREM Invariance == Spec => []IInv
<1>1. IInv /\ [Next]_vars => IInv'
  BY TypeKept, RecordKept, WalkKept, ExactKept, AlternatingKept, ListedKept, NoWarningKept,
     ExactAtEnd DEF IInv
<1>. QED  BY <1>1, InitOK, PTL DEF Spec

-----------------------------------------------------------------------------
(* What follows from it.                                                   *)

\* The lists the module keeps are lists of events and of outages, of durations not
\* negative but for the mark of the open one.
THEOREM TypeCorrect == Spec => []TypeOK
BY Invariance, PTL DEF IInv

\* However many events the loop deletes and skips, all outages it lists with a duration
\* are a loss and the recovery right after it.
THEOREM ListedAreReal == Spec => []ListedWereOutages
BY Invariance, PTL DEF IInv

\* From losses and recoveries that alternate, the module returns exactly the outages that
\* count, and the one still open.
THEOREM AlternatingAreExact == Spec => []AlternatingIsExact
BY Invariance, PTL DEF IInv

\* The list of a module that succeeds without a warning misses nothing.
THEOREM UnwarnedAreExact == Spec => []NoWarningIsExact
BY Invariance, PTL DEF IInv

=============================================================================
