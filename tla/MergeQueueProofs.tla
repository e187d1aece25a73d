------------------------- MODULE MergeQueueProofs -------------------------
(***************************************************************************)
(* Proofs about the merge queue, for any number of pull requests, hints of *)
(* the lab and tests asked for.                                            *)
(***************************************************************************)
EXTENDS MergeQueue, TLAPS

AllQueued == \A w \in Words : cmd[w] = <<>>

\* Test w is to be run for pull request p, as far as the script could read.
Wanted(w, p) == p \in Checked \ unread /\ w \in desc[p].tests

\* The counters tell what was read of the hints.
ReadInv ==
  /\ pc = "read" \/ read = NbPRs
  /\ noCheck = read => \A p \in 1 .. read : p \notin Checked
  /\ ~force => \A p \in 1 .. read : p \in Forced => p \in unread

\* p is in the queue of test w, or a job of it has been queued.
Has(s, e)    == \E i \in DOMAIN s : s[i] = e
Queued(w, p) == Has(cmd[w], p)
Job(w, p)    == Has(jobs, <<w, p>>)

\* Append and Tail, kept folded where only their members matter.
More(s, e) == Append(s, e)
Less(s)    == Tail(s)

NoRepeat(s) == \A i, k \in DOMAIN s : s[i] = s[k] => i = k

\* What is wanted of the pull requests read is in one queue or one job, once.
QueueInv ==
  /\ pc \in {"read", "copy"} => jobs = <<>>
  /\ \A w \in Words, p \in PRs : Queued(w, p) \/ Job(w, p) <=> p <= read /\ Wanted(w, p)
  /\ \A w \in Words, p \in PRs : ~(Queued(w, p) /\ Job(w, p))
  /\ \A w \in Words : NoRepeat(cmd[w])
  /\ NoRepeat(jobs)

\* Each status the script sends has its reason, and is its last act.
VerdictInv ==
  /\ posted # "nothing" => pc = "done"
  /\ posted = "nothing" => status[2] = "job" \/ status = <<"none", "nobody">>
  /\ status = <<"success", "script">> =>
       posted \in {"No code change", "No check", "No test specified"}
  /\ posted = "No code change" => jobs = <<>> /\ ~force /\ ~code
  /\ posted = "No check" => jobs = <<>> /\ ~force /\ noCheck = NbPRs
  /\ posted = "No test specified" => jobs = <<>> /\ AllQueued
  /\ posted = "QUEUED" => AllQueued

IInv == TypeOK /\ ReadInv /\ QueueInv /\ VerdictInv

\* Before the first pull request is read nothing is queued and nothing posted.
LEMMA InitInv == Init => IInv
<1>. SUFFICES ASSUME Init PROVE IInv
  OBVIOUS
<1>1. TypeOK
  <2>1. read \in 0 .. NbPRs /\ unread \subseteq 1 .. read /\ noCheck \in 0 .. read
    BY NbPRsAssumption DEF Init
  <2>2. cmd \in [Words -> Seq(PRs)]
    BY DEF Init
  <2>3. jobs \in Seq(Words \X PRs) /\ ended \subseteq DOMAIN jobs
    BY DEF Init
  <2>4. status \in Status
    BY DEF Init, Status
  <2>. QED  BY <2>1, <2>2, <2>3, <2>4 DEF Init, TypeOK
<1>2. ReadInv
  BY NbPRsAssumption DEF Init, ReadInv
<1>3. QueueInv
  BY NbPRsAssumption DEF Init, QueueInv, Queued, Job, Has, NoRepeat, PRs
<1>4. VerdictInv
  BY DEF Init, VerdictInv
<1>. QED  BY <1>1, <1>2, <1>3, <1>4 DEF IInv

\* A round of the loop leaves what is wanted of earlier pull requests alone, and
\* queues what is wanted of its own, n.
LEMMA ReadPRQueues ==
  ASSUME TypeOK, NEW fetched \in BOOLEAN, ReadPR(fetched), NEW n, n = read + 1
  PROVE  /\ n \in PRs /\ read \in Nat /\ unread \subseteq 1 .. read /\ read' = n
         /\ unread' \subseteq unread \cup {n} /\ unread \subseteq unread'
         /\ \A w \in Words, p \in 1 .. read : Wanted(w, p)' <=> Wanted(w, p)
         /\ \A w \in Words : Wanted(w, n)' => cmd'[w] = Append(cmd[w], n)
         /\ \A w \in Words : ~Wanted(w, n)' => cmd'[w] = cmd[w]
<1>1. n \in PRs /\ read \in Nat /\ unread \subseteq 1 .. read /\ read' = n
  <2>1. read \in 0 .. NbPRs /\ unread \subseteq 1 .. read
    BY DEF TypeOK
  <2>2. read < NbPRs /\ read' = read + 1
    BY DEF ReadPR
  <2>. QED  BY <2>1, <2>2, NbPRsAssumption DEF PRs
<1>2. unread' = (IF fetched THEN unread ELSE unread \cup {n}) /\ desc' = desc
  BY DEF ReadPR
<1>3. ASSUME NEW w \in Words, NEW p \in 1 .. read PROVE Wanted(w, p)' <=> Wanted(w, p)
  BY <1>1, <1>2 DEF Wanted, Checked, PRs
<1>4. cmd \in [Words -> Seq(PRs)]
  BY DEF TypeOK
<1>5. CASE ~fetched
  <2>1. cmd' = [w \in Words |-> IF w \in {} THEN Added(cmd[w], n) ELSE cmd[w]]
    BY <1>5 DEF ReadPR, Nothing
  <2>2. \A w \in Words : cmd'[w] = cmd[w]
    BY <2>1
  <2>3. \A w \in Words : ~Wanted(w, n)'
    BY <1>2, <1>5 DEF Wanted
  <2>. QED  BY <1>1, <1>2, <1>3, <2>2, <2>3
<1>6. CASE fetched /\ "no-check" \in desc[n].hints \cap Supported
  <2>1. cmd' = cmd
    BY <1>6 DEF ReadPR
  <2>2. \A w \in Words : ~Wanted(w, n)'
    BY <1>2, <1>6 DEF Wanted, Checked
  <2>. QED  BY <1>1, <1>2, <1>3, <2>1, <2>2
<1>7. CASE fetched /\ "no-check" \notin desc[n].hints \cap Supported
  <2>1. cmd' = [w \in Words |-> IF w \in desc[n].tests THEN Added(cmd[w], n) ELSE cmd[w]]
    BY <1>7 DEF ReadPR
  <2>2. n \in Checked' /\ n \notin unread'
    BY <1>1, <1>2, <1>7 DEF Checked
  <2>3. \A w \in Words : Wanted(w, n)' <=> w \in desc[n].tests
    BY <1>2, <2>2 DEF Wanted
  <2>. QED  BY <1>1, <1>2, <1>3, <2>1, <2>3 DEF Added
<1>. QED  BY <1>5, <1>6, <1>7

\* A request to GitHub changes the status to a status, or not at all.
LEMMA SendStatusType ==
  ASSUME status \in Status, NEW state \in {"pending", "success"}, NEW why, SendStatus(state, why)
  PROVE  status' \in Status /\ posted' = why
BY DEF SendStatus, Status

\* No step takes a variable out of its type.
LEMMA TypeStep == TypeOK /\ [Next]_vars => TypeOK'
<1>. SUFFICES ASSUME TypeOK, [Next]_vars PROVE TypeOK'
  OBVIOUS
<1>1. ASSUME NEW fetched \in BOOLEAN, ReadPR(fetched) PROVE TypeOK'
  <2>. DEFINE n == read + 1
  <2>1. /\ n \in PRs /\ read \in Nat /\ unread \subseteq 1 .. read /\ read' = n
        /\ unread' \subseteq unread \cup {n}
    BY <1>1, ReadPRQueues
  <2>2. read' \in 0 .. NbPRs /\ unread' \subseteq 1 .. read'
    BY <2>1, NbPRsAssumption DEF PRs
  <2>3. noCheck' \in {noCheck, noCheck + 1} /\ force' \in BOOLEAN
    BY <1>1 DEF ReadPR, TypeOK
  <2>4. noCheck' \in 0 .. read'
    <3>1. noCheck \in 0 .. read
      BY DEF TypeOK
    <3>. QED  BY <2>1, <2>3, <3>1
  <2>5. cmd' \in [Words -> Seq(PRs)]
    <3>1. cmd \in [Words -> Seq(PRs)]
      BY DEF TypeOK
    <3>2. \A w \in Words : cmd'[w] = cmd[w] \/ cmd'[w] = Append(cmd[w], n)
      BY <1>1, ReadPRQueues
    <3>3. ASSUME NEW w \in Words PROVE cmd'[w] \in Seq(PRs)
      <4>. HIDE DEF n
      <4>1. cmd[w] \in Seq(PRs) /\ Append(cmd[w], n) \in Seq(PRs)
        BY <2>1, <3>1
      <4>. QED  BY <3>2, <4>1
    <3>4. cmd' = cmd \/ cmd' = [w \in Words |-> cmd'[w]]
      BY <1>1 DEF ReadPR
    <3>. QED  BY <3>1, <3>3, <3>4
  <2>6. UNCHANGED <<desc, code, pc, jobs, ended, posted, status>>
    BY <1>1 DEF ReadPR
  <2>. QED  BY <2>2, <2>3, <2>4, <2>5, <2>6 DEF TypeOK
<1>2. CASE CheckChange
  <2>1. status' \in Status /\ posted' \in {posted, "No code change", "No check"}
    BY <1>2, SendStatusType DEF TypeOK, CheckChange
  <2>. QED  BY <1>2, <2>1 DEF TypeOK, CheckChange, script
<1>3. CASE CopyChange
  BY <1>3 DEF TypeOK, CopyChange, Stop, script
<1>4. ASSUME NEW w \in Words, Schedule(w) PROVE TypeOK'
  <2>1. cmd[w] \in Seq(PRs) /\ cmd[w] # <<>> /\ cmd \in [Words -> Seq(PRs)] /\ jobs \in Seq(Words \X PRs)
    BY <1>4 DEF TypeOK, Schedule, ToQueue
  <2>2. Head(cmd[w]) \in PRs /\ Tail(cmd[w]) \in Seq(PRs)
    BY <2>1
  <2>3. CASE UNCHANGED <<jobs, cmd>>
    BY <1>4, <2>3 DEF TypeOK, Schedule, Stop
  <2>4. CASE jobs' = Append(jobs, <<w, Head(cmd[w])>>) /\ cmd' = [cmd EXCEPT ![w] = Tail(@)]
    <3>1. jobs' \in Seq(Words \X PRs) /\ DOMAIN jobs \subseteq DOMAIN jobs'
      BY <2>1, <2>2, <2>4
    <3>2. cmd' \in [Words -> Seq(PRs)]
      BY <2>1, <2>2, <2>4
    <3>. QED  BY <1>4, <3>1, <3>2 DEF TypeOK, Schedule, Stop
  <2>. QED  BY <1>4, <2>3, <2>4 DEF Schedule
<1>5. CASE Conclude
  <2>1. status' \in Status /\ posted' \in {"No test specified", "QUEUED"}
    BY <1>5, SendStatusType DEF TypeOK, Conclude
  <2>. QED  BY <1>5, <2>1 DEF TypeOK, Conclude, script
<1>6. ASSUME NEW j \in DOMAIN jobs, JobEnds(j) PROVE TypeOK'
  <2>1. status' \in Status
    BY <1>6 DEF JobEnds, Status
  <2>. QED  BY <1>6, <2>1 DEF TypeOK, JobEnds, script
<1>7. CASE UNCHANGED vars
  BY <1>7 DEF TypeOK, vars
<1>. QED  BY <1>1, <1>2, <1>3, <1>4, <1>5, <1>6, <1>7 DEF Next, Script, AllOver

\* The counters go on telling what was read of the hints.
LEMMA ReadStep == TypeOK /\ ReadInv /\ [Next]_vars => ReadInv'
<1>. SUFFICES ASSUME TypeOK, ReadInv, [Next]_vars PROVE ReadInv'
  OBVIOUS
<1>1. ASSUME NEW fetched \in BOOLEAN, ReadPR(fetched) PROVE ReadInv'
  <2>. DEFINE n == read + 1
  <2>1. /\ n \in PRs /\ read \in Nat /\ read' = n /\ desc' = desc
        /\ unread \subseteq unread' /\ (~fetched => n \in unread')
    BY <1>1, ReadPRQueues DEF ReadPR
  <2>2. noCheck \in 0 .. read /\ pc' = "read"
    BY <1>1 DEF TypeOK, ReadPR
  <2>3. ASSUME noCheck' = n PROVE \A p \in 1 .. n : p \notin Checked'
    <3>1. noCheck' # noCheck /\ noCheck' = noCheck + 1 /\ noCheck = read
      BY <1>1, <2>1, <2>2, <2>3 DEF ReadPR
    <3>2. fetched /\ "no-check" \in desc[n].hints \cap Supported
      BY <1>1, <3>1 DEF ReadPR, Nothing
    <3>3. \A p \in 1 .. read : p \notin Checked
      BY <3>1 DEF ReadInv
    <3>. QED  BY <2>1, <3>2, <3>3 DEF Checked
  <2>4. ASSUME ~force' PROVE \A p \in 1 .. n : p \in Forced' => p \in unread'
    <3>1. \A p \in 1 .. read : p \in Forced => p \in unread
      BY <1>1, <2>4 DEF ReadPR, ReadInv
    <3>2. fetched => n \notin Forced'
      BY <1>1, <2>1, <2>4 DEF ReadPR, Forced, Checked
    <3>3. Forced' = Forced
      BY <2>1 DEF Forced, Checked
    <3>. QED  BY <2>1, <3>1, <3>2, <3>3
  <2>. QED  BY <2>1, <2>2, <2>3, <2>4 DEF ReadInv
<1>2. CASE CheckChange
  BY <1>2 DEF ReadInv, CheckChange, SendStatus, script, Checked, Forced
<1>3. CASE CopyChange
  BY <1>3 DEF ReadInv, CopyChange, Stop, script, Checked, Forced
<1>4. ASSUME NEW w \in Words, Schedule(w) PROVE ReadInv'
  BY <1>4 DEF ReadInv, Schedule, Stop, Checked, Forced
<1>5. CASE Conclude
  BY <1>5 DEF ReadInv, Conclude, SendStatus, script, Checked, Forced
<1>6. ASSUME NEW j \in DOMAIN jobs, JobEnds(j) PROVE ReadInv'
  BY <1>6 DEF ReadInv, JobEnds, script, Checked, Forced
<1>7. CASE UNCHANGED vars
  BY <1>7 DEF ReadInv, vars, Checked, Forced
<1>. QED  BY <1>1, <1>2, <1>3, <1>4, <1>5, <1>6, <1>7 DEF Next, Script, AllOver

\* Append adds one member, and a repetition only if it was there.
LEMMA MoreMembers ==
  ASSUME NEW S, NEW s \in Seq(S), NEW e \in S
  PROVE  /\ \A p : Has(More(s, e), p) <=> Has(s, p) \/ p = e
         /\ NoRepeat(s) /\ ~Has(s, e) => NoRepeat(More(s, e))
<1>1. /\ Len(s) \in Nat /\ DOMAIN s = 1 .. Len(s) /\ DOMAIN More(s, e) = 1 .. Len(s) + 1
      /\ \A i \in 1 .. Len(s) : More(s, e)[i] = s[i]
      /\ More(s, e)[Len(s) + 1] = e
  BY DEF More
<1>2. \A i \in 1 .. Len(s) + 1 : i \in 1 .. Len(s) \/ i = Len(s) + 1
  BY <1>1
<1>3. 1 .. Len(s) \subseteq 1 .. Len(s) + 1 /\ Len(s) + 1 \in 1 .. Len(s) + 1
  BY <1>1
<1>4. ASSUME NEW p
      PROVE  Has(More(s, e), p) <=> Has(s, p) \/ p = e
  BY <1>1, <1>2, <1>3 DEF Has
<1>5. ASSUME NoRepeat(s), ~Has(s, e) PROVE NoRepeat(More(s, e))
  BY <1>1, <1>2, <1>5 DEF NoRepeat, Has
<1>. QED  BY <1>4, <1>5

\* A sequence without repetition loses its head, and nothing else.
LEMMA LessMembers ==
  ASSUME NEW S, NEW s \in Seq(S), s # <<>>, NoRepeat(s)
  PROVE  /\ Head(s) \in S /\ Less(s) \in Seq(S) /\ NoRepeat(Less(s))
         /\ Has(s, Head(s))
         /\ \A p : Has(Less(s), p) <=> Has(s, p) /\ p # Head(s)
<1>1. /\ Len(s) \in Nat \ {0} /\ DOMAIN s = 1 .. Len(s) /\ DOMAIN Less(s) = 1 .. Len(s) - 1
      /\ \A i \in 1 .. Len(s) - 1 : Less(s)[i] = s[i + 1]
      /\ Head(s) = s[1] /\ Head(s) \in S /\ Less(s) \in Seq(S)
  BY DEF Less
<1>2. \A i \in 1 .. Len(s) - 1 : i + 1 \in 1 .. Len(s) /\ i + 1 # 1
  BY <1>1
<1>3. NoRepeat(Less(s))
  BY <1>1, <1>2 DEF NoRepeat
<1>4. ASSUME NEW p
      PROVE  Has(Less(s), p) <=> Has(s, p) /\ p # Head(s)
  <2>1. ASSUME NEW i \in DOMAIN s, s[i] = p, p # Head(s)
        PROVE  \E k \in DOMAIN Less(s) : Less(s)[k] = p
    <3>1. i - 1 \in 1 .. Len(s) - 1 /\ (i - 1) + 1 = i
      BY <1>1, <2>1
    <3>. QED  BY <1>1, <2>1, <3>1
  <2>2. ASSUME NEW i \in DOMAIN Less(s), Less(s)[i] = p
        PROVE  (\E k \in DOMAIN s : s[k] = p) /\ p # Head(s)
    <3>1. i + 1 \in DOMAIN s /\ s[i + 1] = p /\ i + 1 # 1 /\ 1 \in DOMAIN s
      BY <1>1, <1>2, <2>2
    <3>. QED  BY <1>1, <3>1 DEF NoRepeat
  <2>. QED  BY <2>1, <2>2 DEF Has
<1>5. Has(s, Head(s))
  BY <1>1 DEF Has
<1>. QED  BY <1>1, <1>3, <1>4, <1>5

\* What leaves the queues and the descriptions alone keeps their invariant.
LEMMA QueueStays ==
  ASSUME QueueInv, UNCHANGED <<desc, read, unread, cmd, jobs>>,
         pc' \in {"read", "copy"} => pc \in {"read", "copy"}
  PROVE  QueueInv'
<1>1. ASSUME NEW w \in Words, NEW p \in PRs
      PROVE  /\ Queued(w, p)' <=> Queued(w, p)
             /\ Job(w, p)' <=> Job(w, p)
             /\ Wanted(w, p)' <=> Wanted(w, p)
  BY DEF Queued, Job, Wanted, Checked
<1>. QED  BY <1>1 DEF QueueInv, NoRepeat

\* Reading and queueing keep what is wanted in one queue or one job, once.
LEMMA QueueStep == TypeOK /\ QueueInv /\ [Next]_vars => QueueInv'
<1>. SUFFICES ASSUME TypeOK, QueueInv, [Next]_vars PROVE QueueInv'
  OBVIOUS
<1>. cmd \in [Words -> Seq(PRs)] /\ jobs \in Seq(Words \X PRs)
  BY DEF TypeOK
<1>1. ASSUME NEW fetched \in BOOLEAN, ReadPR(fetched), NEW n, n = read + 1 PROVE QueueInv'
  <2>1. /\ n \in PRs /\ read' = n /\ read \in Nat
        /\ \A w \in Words, p \in 1 .. read : Wanted(w, p)' <=> Wanted(w, p)
        /\ \A w \in Words : Wanted(w, n)' => cmd'[w] = More(cmd[w], n)
        /\ \A w \in Words : ~Wanted(w, n)' => cmd'[w] = cmd[w]
    BY <1>1, ReadPRQueues DEF More
  <2>2. pc' = pc /\ jobs' = jobs /\ jobs = <<>>
    BY <1>1 DEF ReadPR, QueueInv
  <2>3. \A p \in PRs : p <= n <=> p \in 1 .. read \/ p = n
    BY <1>1, <2>1 DEF PRs
  <2>4. \A p \in PRs : p <= read <=> p \in 1 .. read
    BY <2>1 DEF PRs
  <2>5. ~(n <= read)
    BY <1>1, <2>1
  <2>6. ASSUME NEW w \in Words PROVE ~Queued(w, n) /\ \A p \in PRs : ~Job(w, p) /\ ~Job(w, p)'
    BY <2>1, <2>2, <2>5 DEF QueueInv, Job, Has
  <2>7. ASSUME NEW w \in Words, NEW p \in PRs
        PROVE  Queued(w, p)' <=> Queued(w, p) \/ (p = n /\ Wanted(w, n)')
    BY <2>1, <2>6, MoreMembers DEF Queued
  <2>8. ASSUME NEW w \in Words, NEW p \in PRs
        PROVE  Queued(w, p)' \/ Job(w, p)' <=> p <= read' /\ Wanted(w, p)'
    BY <2>1, <2>3, <2>4, <2>6, <2>7 DEF QueueInv
  <2>9. ASSUME NEW w \in Words PROVE NoRepeat(cmd'[w])
    <3>1. NoRepeat(cmd[w]) /\ ~Has(cmd[w], n)
      BY <2>6 DEF QueueInv, Queued
    <3>. QED  BY <2>1, <3>1, MoreMembers
  <2>. QED  BY <2>2, <2>6, <2>8, <2>9 DEF QueueInv, NoRepeat
<1>2. CASE CheckChange
  BY <1>2, QueueStays DEF CheckChange, script
<1>3. CASE CopyChange
  BY <1>3, QueueStays DEF CopyChange, Stop, script
<1>4. ASSUME NEW w \in Words, Schedule(w), NEW h, h = Head(cmd[w]) PROVE QueueInv'
  <2>1. /\ cmd[w] \in Seq(PRs) /\ cmd[w] # <<>> /\ pc = "schedule" /\ pc' \in {"schedule", "exit 1"}
        /\ UNCHANGED <<desc, read, unread>>
    BY <1>4 DEF Schedule, ToQueue, Stop
  <2>2. /\ h \in PRs /\ NoRepeat(Less(cmd[w])) /\ Queued(w, h)
        /\ \A p \in PRs : Has(Less(cmd[w]), p) <=> Queued(w, p) /\ p # h
    BY <1>4, <2>1, LessMembers DEF QueueInv, Queued
  <2>3. CASE UNCHANGED <<jobs, cmd>>
    BY <2>1, <2>3, QueueStays
  <2>4. CASE jobs' = Append(jobs, <<w, h>>) /\ cmd' = [cmd EXCEPT ![w] = Tail(@)]
    <3>1. cmd'[w] = Less(cmd[w]) /\ \A v \in Words : v # w => cmd'[v] = cmd[v]
      BY <2>4 DEF Less
    <3>2. ASSUME NEW v \in Words, NEW p \in PRs
          PROVE  Queued(v, p)' <=> Queued(v, p) /\ <<v, p>> # <<w, h>>
      BY <2>2, <3>1 DEF Queued
    <3>3. <<w, h>> \in Words \X PRs
      BY <2>2
    <3>4. ASSUME NEW v \in Words, NEW p \in PRs
          PROVE  Job(v, p)' <=> Job(v, p) \/ <<v, p>> = <<w, h>>
      <4>. DEFINE e == <<w, h>>
                  q == <<v, p>>
                  S == Words \X PRs
      <4>1. e \in S /\ jobs \in Seq(S) /\ jobs' = More(jobs, e)
        BY <2>4, <3>3 DEF More
      <4>. HIDE DEF e, q, S
      <4>2. Has(jobs', q) <=> Has(jobs, q) \/ q = e
        BY <4>1, MoreMembers
      <4>. QED  BY <4>2 DEF Job, e, q
    <3>5. ASSUME NEW v \in Words, NEW p \in PRs
          PROVE  /\ Queued(v, p)' \/ Job(v, p)' <=> p <= read' /\ Wanted(v, p)'
                 /\ ~(Queued(v, p)' /\ Job(v, p)')
      <4>1. Wanted(v, p)' <=> Wanted(v, p)
        BY <2>1 DEF Wanted, Checked
      <4>. QED  BY <2>1, <2>2, <3>2, <3>4, <4>1 DEF QueueInv
    <3>6. \A v \in Words : NoRepeat(cmd'[v])
      BY <2>2, <3>1 DEF QueueInv
    <3>7. NoRepeat(jobs')
      <4>1. ~Has(jobs, <<w, h>>)
        BY <2>2 DEF QueueInv, Job
      <4>2. jobs' = More(jobs, <<w, h>>) /\ NoRepeat(jobs)
        BY <2>4 DEF More, QueueInv
      <4>. QED  BY <3>3, <4>1, <4>2, MoreMembers
    <3>. QED  BY <2>1, <3>5, <3>6, <3>7 DEF QueueInv, NoRepeat
  <2>. QED  BY <1>4, <2>3, <2>4 DEF Schedule
<1>5. CASE Conclude
  BY <1>5, QueueStays DEF Conclude, script
<1>6. ASSUME NEW j \in DOMAIN jobs, JobEnds(j) PROVE QueueInv'
  BY <1>6, QueueStays DEF JobEnds, script
<1>7. CASE UNCHANGED vars
  BY <1>7, QueueStays DEF vars
<1>. QED  BY <1>1, <1>2, <1>3, <1>4, <1>5, <1>6, <1>7 DEF Next, Script, AllOver

\* A status of the script comes with its reason, and nothing but jobs follows it.
LEMMA VerdictStep == TypeOK /\ QueueInv /\ VerdictInv /\ [Next]_vars => VerdictInv'
<1>. SUFFICES ASSUME TypeOK, QueueInv, VerdictInv, [Next]_vars PROVE VerdictInv'
  OBVIOUS
<1>1. ASSUME NEW fetched \in BOOLEAN, ReadPR(fetched) PROVE VerdictInv'
  BY <1>1 DEF VerdictInv, ReadPR
<1>2. CASE CheckChange
  <2>1. pc = "read" /\ jobs = <<>> /\ posted = "nothing"
    BY <1>2 DEF CheckChange, QueueInv, VerdictInv
  <2>2. CASE NoCodeChange /\ SendStatus("success", "No code change") /\ pc' = "done"
    BY <1>2, <2>1, <2>2 DEF VerdictInv, CheckChange, SendStatus, NoCodeChange, script
  <2>3. CASE NoCheck /\ SendStatus("success", "No check") /\ pc' = "done"
    BY <1>2, <2>1, <2>3 DEF VerdictInv, CheckChange, SendStatus, NoCheck, script
  <2>4. CASE pc' = "copy" /\ UNCHANGED <<posted, status>>
    BY <1>2, <2>1, <2>4 DEF VerdictInv, CheckChange
  <2>. QED  BY <1>2, <2>2, <2>3, <2>4 DEF CheckChange
<1>3. CASE CopyChange
  BY <1>3 DEF VerdictInv, CopyChange, Stop
<1>4. ASSUME NEW w \in Words, Schedule(w) PROVE VerdictInv'
  BY <1>4 DEF VerdictInv, Schedule, Stop
<1>5. CASE Conclude
  <2>1. posted = "nothing" /\ AllQueued /\ AllQueued'
    BY <1>5 DEF Conclude, VerdictInv, AllQueued, script
  <2>2. CASE jobs = <<>> /\ SendStatus("success", "No test specified")
    BY <1>5, <2>1, <2>2 DEF VerdictInv, Conclude, SendStatus, script
  <2>3. CASE SendStatus("pending", "QUEUED")
    BY <1>5, <2>1, <2>3 DEF VerdictInv, Conclude, SendStatus, script
  <2>. QED  BY <1>5, <2>2, <2>3 DEF Conclude
<1>6. ASSUME NEW j \in DOMAIN jobs, JobEnds(j) PROVE VerdictInv'
  <2>1. status'[2] = "job" /\ status' # <<"success", "script">>
    BY <1>6 DEF JobEnds
  <2>. QED  BY <1>6, <2>1 DEF VerdictInv, JobEnds, script, AllQueued
<1>7. CASE UNCHANGED vars
  BY <1>7 DEF VerdictInv, vars, AllQueued
<1>. QED  BY <1>1, <1>2, <1>3, <1>4, <1>5, <1>6, <1>7 DEF Next, Script, AllOver

\* The invariant: types, counters, queues and verdicts of dci-merge.sh agree in
\* every reachable state, whatever requests time out or fail.
THEOREM Invariance == Spec => []IInv
<1>1. Init => IInv
  BY InitInv
<1>2. IInv /\ [Next]_vars => IInv'
  BY TypeStep, ReadStep, QueueStep, VerdictStep DEF IInv
<1>. QED  BY <1>1, <1>2, PTL DEF Spec

\* The variables keep the types of the script's counters and lists.
THEOREM TypeCorrect == Spec => []TypeOK
<1>1. IInv => TypeOK
  BY DEF IInv
<1>. QED  BY <1>1, Invariance, PTL

\* The commit passes without a test only for one of the three reasons of the script
\* (dci-merge.sh:106-132, 166-169), for any number of pull requests.
THEOREM NeverPassesUntested == Spec => []PassesForReason
<1>1. ASSUME IInv PROVE PassesForReason
  <2>. SUFFICES ASSUME status = <<"success", "script">> PROVE PassesForReason
    BY DEF PassesForReason
  <2>1. posted \in {"No code change", "No check", "No test specified"} /\ pc = "done" /\ jobs = <<>>
    BY <1>1 DEF IInv, VerdictInv
  <2>2. read = NbPRs
    BY <1>1, <2>1 DEF IInv, ReadInv
  <2>3. ASSUME ~force PROVE Forced \subseteq unread
    BY <1>1, <2>2, <2>3 DEF IInv, ReadInv, Forced, Checked, PRs
  <2>4. CASE posted = "No code change"
    BY <1>1, <2>1, <2>3, <2>4 DEF IInv, VerdictInv, PassesForReason
  <2>5. CASE posted = "No check"
    <3>1. ~force /\ Checked = {}
      BY <1>1, <2>2, <2>5 DEF IInv, VerdictInv, ReadInv, Checked, PRs
    <3>. QED  BY <2>1, <2>3, <3>1 DEF PassesForReason
  <2>6. CASE posted = "No test specified"
    <3>1. ASSUME NEW p \in Checked \ unread, NEW w \in desc[p].tests \cap Words PROVE FALSE
      <4>1. p \in PRs /\ p <= read /\ Wanted(w, p)
        BY <2>2, <3>1, NbPRsAssumption DEF Checked, PRs, Wanted
      <4>2. Queued(w, p) \/ Job(w, p)
        BY <1>1, <4>1 DEF IInv, QueueInv
      <4>3. cmd[w] = <<>> /\ jobs = <<>>
        BY <1>1, <2>1, <2>6 DEF IInv, VerdictInv, AllQueued
      <4>. QED  BY <4>2, <4>3 DEF Queued, Job, Has
    <3>. QED  BY <2>1, <3>1 DEF PassesForReason
  <2>. QED  BY <2>1, <2>4, <2>5, <2>6
<1>2. IInv => PassesForReason
  BY <1>1
<1>. QED  BY <1>2, Invariance, PTL

\* Once the script has queued its tests, they are those asked for and read, each
\* once and on its own queue (dci-merge.sh:134-164).
THEOREM QueuesWhatIsAsked == Spec => []AskedIsQueued
<1>1. ASSUME IInv PROVE AskedIsQueued
  <2>. SUFFICES ASSUME posted = "QUEUED" PROVE AskedIsQueued
    BY DEF AskedIsQueued
  <2>1. AllQueued /\ read = NbPRs
    BY <1>1 DEF IInv, VerdictInv, ReadInv
  <2>2. \A j, k \in DOMAIN jobs : jobs[j] = jobs[k] => j = k
    BY <1>1 DEF IInv, QueueInv, NoRepeat
  <2>3. ASSUME NEW w \in Words, NEW p \in PRs
        PROVE  Job(w, p) <=> Wanted(w, p)
    <3>1. ~Queued(w, p)
      BY <2>1 DEF AllQueued, Queued, Has
    <3>2. p <= read
      BY <2>1, NbPRsAssumption DEF PRs
    <3>. QED  BY <1>1, <3>1, <3>2 DEF IInv, QueueInv
  <2>. QED  BY <2>2, <2>3 DEF AskedIsQueued, Job, Has, Wanted
<1>2. IInv => AskedIsQueued
  BY <1>1
<1>. QED  BY <1>2, Invariance, PTL

\* A script that stops leaves the commit to the jobs it had queued
\* (dci-merge.sh:113, 136).
THEOREM StopsInSilence == Spec => []StopIsSilent
<1>1. IInv => StopIsSilent
  BY DEF IInv, VerdictInv, StopIsSilent
<1>. QED  BY <1>1, Invariance, PTL

=============================================================================
