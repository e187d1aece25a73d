---------------------------- MODULE PacketMissing ----------------------------
(***************************************************************************)
(* plugins/modules/packet_missing.py: the events of the traffic generator, *)
(* PacketDropped when packets start to be lost and PacketMatched when they *)
(* arrive again, are paired into the list of outages.                      *)
(*                                                                         *)
(* The loop walks the positions counted before it started, two at a time,  *)
(* while its body deletes from the list it walks.  Positions are counted   *)
(* from 1 here.                                                            *)
(***************************************************************************)
EXTENDS Integers, Sequences

CONSTANTS
  Times,     \* Event times, in ticks.
  Second,    \* Ticks in a second.
  MaxEvents  \* Bound: events recorded.

ASSUME TimesAssumption == Times \subseteq Nat
ASSUME SecondAssumption == Second \in Nat \ {0}
ASSUME MaxEventsAssumption == MaxEvents \in Nat

Dropped == "PacketDropped"
Matched == "PacketMatched"
Event   == [time : Times, reason : {Dropped, Matched}]
Outage  == [start : Times, duration : Nat \cup {-1}]

VARIABLES
  pc,        \* "record", "loop" or "done".
  strict,    \* The option.
  events,    \* matched + dropped, in the order the module sorts them.
  combine,   \* The list the loop walks and deletes from.
  i,         \* Position of the iteration.
  last,      \* Length of the list when the loop started.
  missing,   \* The outages found so far.
  warned,    \* result['warning'] is set.
  response   \* "none", "ok", "failed" or "raised".

vars == <<pc, strict, events, combine, i, last, missing, warned, response>>

TypeOK ==
  /\ pc \in {"record", "loop", "done"}
  /\ strict \in BOOLEAN /\ warned \in BOOLEAN
  /\ events \in Seq(Event) /\ combine \in Seq(Event)
  /\ i \in Nat \ {0} /\ last \in Nat
  /\ missing \in Seq(Outage)
  /\ response \in {"none", "ok", "failed", "raised"}

Init ==
  /\ pc = "record" /\ strict \in BOOLEAN
  /\ events = <<>> /\ combine = <<>> /\ missing = <<>>
  /\ i = 1 /\ last = 0 /\ warned = FALSE /\ response = "none"

\* Events are recorded over time; those of one tick are sorted with the
\* recoveries first, because sorted() is stable and matched comes first.
Record(e) ==
  /\ pc = "record" /\ Len(events) < MaxEvents
  /\ events # <<>> =>
       LET f == events[Len(events)]
       IN  \/ f.time < e.time
           \/ f.time = e.time /\ (f.reason = Matched \/ e.reason = Dropped)
  /\ events' = Append(events, e)
  /\ UNCHANGED <<pc, strict, combine, i, last, missing, warned, response>>

\* Only a run that ends well publishes what it found.
Exit(resp, found) ==
  /\ pc' = "done" /\ response' = resp
  /\ missing' = IF resp = "ok" THEN found ELSE <<>>

Has(reason) == \E k \in 1 .. Len(events) : events[k].reason = reason

\* Mutant: a recovery before the first loss is kept.
Untrimmed == events

\* One recovery before the first loss is dropped, not more.
Trimmed == IF events[1].reason = Matched THEN Tail(events) ELSE events

Run ==
  /\ pc = "record"
  /\ \/ /\ ~Has(Matched) /\ Exit("failed", <<>>)
        /\ UNCHANGED <<combine, last>>
     \/ /\ Has(Matched) /\ ~Has(Dropped) /\ Exit("ok", <<>>)
        /\ UNCHANGED <<combine, last>>
     \/ /\ Has(Matched) /\ Has(Dropped)
        /\ combine' = Trimmed
        /\ IF Trimmed[1].reason = Dropped
           THEN /\ pc' = "loop" /\ last' = Len(Trimmed)
                /\ UNCHANGED <<missing, response>>
           ELSE Exit("failed", <<>>) /\ UNCHANGED last
  /\ UNCHANGED <<strict, events, i, warned>>

-----------------------------------------------------------------------------
(* The loop, one iteration a step.                                         *)

Without(s, k) == SubSeq(s, 1, k - 1) \o SubSeq(s, k + 1, Len(s))

At(k) == combine[k].reason

\* Mutant: less than one second instead of one at most.
ShorterThanOne(d) == d \div Second < 1

\* int(diff_seconds) <= 1
Short(d) == d \div Second <= 1

Visit == pc = "loop" /\ i <= last
Continue == i' = i + 2 /\ UNCHANGED <<pc, response>>

\* A recovery where a loss should be: it is deleted if a loss follows, but the
\* next iteration goes past that loss all the same.
SkipRecovery ==
  /\ Visit /\ i < Len(combine) /\ At(i) = Matched
  /\ warned' = TRUE
  /\ combine' = IF At(i + 1) = Dropped THEN Without(combine, i) ELSE combine
  /\ Continue
  /\ UNCHANGED <<strict, events, last, missing>>

LastEvent ==
  /\ Visit /\ i = Len(combine)
  /\ warned' = TRUE
  /\ Exit("ok", Append(missing, [start |-> combine[i].time, duration |-> -1]))
  /\ UNCHANGED <<strict, events, combine, i, last>>

TwoLosses ==
  /\ Visit /\ i < Len(combine) /\ At(i) = Dropped /\ At(i + 1) = Dropped
  /\ Exit("failed", <<>>)
  /\ UNCHANGED <<strict, events, combine, i, last, warned>>

\* Mutant: the second event may be any.
PairOfAny ==
  /\ Visit /\ i < Len(combine) /\ At(i) = Dropped
  /\ LET d == combine[i + 1].time - combine[i].time
     IN  missing' = IF ~strict /\ Short(d) THEN missing
                    ELSE Append(missing, [start |-> combine[i].time, duration |-> d])
  /\ Continue
  /\ UNCHANGED <<strict, events, combine, last, warned>>

Pair ==
  /\ Visit /\ i < Len(combine) /\ At(i) = Dropped /\ At(i + 1) = Matched
  /\ LET d == combine[i + 1].time - combine[i].time
     IN  missing' = IF ~strict /\ Short(d) THEN missing
                    ELSE Append(missing, [start |-> combine[i].time, duration |-> d])
  /\ Continue
  /\ UNCHANGED <<strict, events, combine, last, warned>>

\* The position counted beforehand is not there any more: IndexError.
PastTheEnd ==
  /\ Visit /\ i > Len(combine)
  /\ Exit("raised", <<>>)
  /\ UNCHANGED <<strict, events, combine, i, last, warned>>

LoopEnds ==
  /\ pc = "loop" /\ i > last
  /\ Exit("ok", missing)
  /\ UNCHANGED <<strict, events, combine, i, last, warned>>

Next ==
  \/ \E e \in Event : Record(e)
  \/ Run \/ SkipRecovery \/ LastEvent \/ TwoLosses \/ Pair \/ PastTheEnd \/ LoopEnds

Spec == Init /\ [][Next]_vars

-----------------------------------------------------------------------------
(* Properties.                                                             *)

\* A loss at k of the recorded events, ended by the next event.
IsOutage(k) ==
  k \in 1 .. Len(events) - 1 /\ events[k].reason = Dropped /\ events[k + 1].reason = Matched
OutageAt(k) ==
  [start |-> events[k].time, duration |-> events[k + 1].time - events[k].time]
\* Less than two seconds do not count, unless the option strict is on.
Counts(o) == strict \/ o.duration >= 2 * Second
Open      == [start |-> events[Len(events)].time, duration |-> -1]

Listed   == {missing[k] : k \in 1 .. Len(missing)}
Expected == {o \in {OutageAt(k) : k \in {j \in 1 .. Len(events) : IsOutage(j)}} : Counts(o)}

\* Whatever the loop deletes and skips, it never joins a loss to a recovery that
\* did not directly follow it: all outages listed with a duration are real.
ListedWereOutages ==
  \A k \in 1 .. Len(missing) : missing[k].duration >= 0 =>
    \E j \in 1 .. Len(events) : IsOutage(j) /\ missing[k] = OutageAt(j)

\* When losses and recoveries alternate, as the traffic generator should emit
\* them, the module succeeds, with exactly the outages long enough and the one
\* still open at the end.
AlternatingIsExact ==
  /\ pc = "done" /\ Has(Matched) /\ Has(Dropped)
  /\ \A k \in 1 .. Len(events) - 1 : events[k].reason # events[k + 1].reason
  => /\ response = "ok"
     /\ Listed = Expected \cup (IF events[Len(events)].reason = Dropped THEN {Open} ELSE {})

\* Without a warning the list is exact: nothing was skipped silently.
NoWarningIsExact ==
  response = "ok" /\ ~warned => Listed = Expected

\* The module's documentation returns a message "always": the loop raises no
\* exception.
AlwaysReturns == response # "raised"
=============================================================================
