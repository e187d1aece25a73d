------------------------- MODULE OlmOperatorProofs -------------------------
(***************************************************************************)
(* Proofs about the role olm_operator, for any number of operators,        *)
(* versions, includes and attempts.                                        *)
(***************************************************************************)
EXTENDS OlmOperator, TLAPS

\* The version an operator moves to is a version.
LEMMA NewestType ==
  ASSUME NEW old \in 0 .. MaxVersion, NEW o, NEW b
  PROVE  /\ Newest(old, o, b) \in 0 .. MaxVersion
         /\ Newest(old, o, b) >= old
<1>1. CASE \E v \in Versions : <<o, v>> \in b /\ v > old
  <2>1. PICK v \in Versions : v = Newest(old, o, b) /\ <<o, v>> \in b /\ v > old
    BY <1>1 DEF Newest
  <2>. QED  BY <2>1, MaxVersionAssumption DEF Versions
<1>2. CASE ~ \E v \in Versions : <<o, v>> \in b /\ v > old
  BY <1>2, MaxVersionAssumption DEF Newest
<1>. QED  BY <1>1, <1>2

LEMMA InitTypes == Init => TypeOK
<1>. SUFFICES ASSUME Init PROVE TypeOK
  OBVIOUS
<1>1. PlayTypeOK
  BY MaxVersionAssumption DEF Init, PlayTypeOK, Block
<1>2. ClusterTypeOK
  BY DEF Init, ClusterTypeOK
<1>3. OlmTypeOK
  BY MaxVersionAssumption DEF Init, OlmTypeOK
<1>. QED  BY <1>1, <1>2, <1>3 DEF TypeOK

\* Every step of the role leaves the play's variables well typed.
LEMMA PlayTypeStep == TypeOK /\ [Next]_vars => PlayTypeOK'
<1>. SUFFICES ASSUME PlayTypeOK, ClusterTypeOK, OlmTypeOK, [Next]_vars PROVE PlayTypeOK'
  BY DEF TypeOK
<1>. USE TriesAssumption DEF Block, Waits
<1>1. ASSUME NEW r \in Requests, Begin(r) PROVE PlayTypeOK'
  <2>1. r.op \in Operators /\ r.op # None
    BY RequestsAssumption, NoneAssumption
  <2>2. tries' \in Nat /\ pc' = "catalog"
    BY <1>1 DEF Begin, Goto
  <2>3. last' \in [Operators -> Requests \cup {None}] /\ Req' = r
    BY <1>1, <2>1 DEF PlayTypeOK, Begin, Req
  <2>. QED
    BY <1>1, <2>1, <2>2, <2>3, MaxVersionAssumption DEF PlayTypeOK, Begin
<1>2. CASE WaitCatalog
  BY <1>2 DEF PlayTypeOK, WaitCatalog, Goto, End, Retry, playVars, Req
<1>3. CASE GetPackage
  <2>1. CASE head[cur] > 0 /\ pc' = "group"
    <3>1. cur \in Operators /\ Req \in Requests /\ target \in [Operators -> 0 .. MaxVersion]
      BY <1>3 DEF GetPackage, PlayTypeOK
    <3>2. head[cur] \in Versions /\ (Req.pin > 0 => Req.pin \in Versions)
      BY <2>1, <3>1, RequestsAssumption, MaxVersionAssumption DEF OlmTypeOK, Versions
    <3>3. /\ UNCHANGED <<todo, outcome, cur, last, runs>> /\ tries' \in Nat
          /\ \E v \in Versions : target' = [target EXCEPT ![cur] = v]
      BY <1>3, <2>1, <3>2 DEF GetPackage, Goto, End, Retry
    <3>4. target' \in [Operators -> 0 .. MaxVersion] /\ target'[cur] \in Versions
      BY <3>1, <3>3, MaxVersionAssumption DEF Versions
    <3>. QED  BY <1>3, <2>1, <3>3, <3>4 DEF GetPackage, PlayTypeOK, Req
  <2>2. CASE ~(head[cur] > 0 /\ pc' = "group")
    BY <1>3, <2>2 DEF PlayTypeOK, GetPackage, Goto, End, Retry, playVars, Req
  <2>. QED  BY <2>1, <2>2
<1>4. CASE CreateGroup
  BY <1>4 DEF PlayTypeOK, CreateGroup, Goto, playVars, Req
<1>5. CASE Subscribe
  BY <1>5 DEF PlayTypeOK, Subscribe, Goto, playVars, Req
<1>6. CASE WaitPlan
  <2>1. Matching(plans) \subseteq SUBSET CSVs
    BY DEF Matching, ClusterTypeOK
  <2>. QED  BY <1>6, <2>1 DEF PlayTypeOK, WaitPlan, Goto, Retry, playVars, Req
<1>7. CASE Approve
  BY <1>7 DEF PlayTypeOK, Approve, playVars, Req
<1>8. CASE ApprovedAll
  BY <1>8 DEF PlayTypeOK, ApprovedAll, Goto, playVars, Req
<1>9. CASE WaitCsv
  BY <1>9 DEF PlayTypeOK, WaitCsv, Goto, Retry, playVars, Req
<1>10. CASE WaitPods
  BY <1>10 DEF PlayTypeOK, WaitPods, Goto, Retry, playVars, Req
<1>11. CASE PatchSubscription
  BY <1>11 DEF PlayTypeOK, PatchSubscription, End, Req
<1>12. CASE TaskError
  BY <1>12 DEF PlayTypeOK, TaskError, Goto, End, playVars, Req
<1>13. CASE Rescue
  BY <1>13 DEF PlayTypeOK, Rescue, End, Req
<1>14. CASE Environment
  BY <1>14 DEF PlayTypeOK, Environment, Resolve, Execute, CsvSettles, PodsStart,
    CatalogFlips, Publish, playVars, Req
<1>15. CASE UNCHANGED vars
  BY <1>15 DEF PlayTypeOK, vars, playVars, Req
<1>. QED
  BY <1>1, <1>2, <1>3, <1>4, <1>5, <1>6, <1>7, <1>8, <1>9, <1>10, <1>11, <1>12, <1>13,
     <1>14, <1>15 DEF Next, Role, Tasks

\* The initial approval and the request's fields are what Subscription needs.
LEMMA RequestFields ==
  ASSUME PlayTypeOK, pc # "idle"
  PROVE  /\ cur \in Operators /\ Req \in Requests
         /\ Req.approval \in Approvals /\ InitialApproval \in Approvals
         /\ Req.group \in STRING /\ Req.validate \in BOOLEAN
<1>1. cur \in Operators /\ Req \in Requests
  BY DEF PlayTypeOK
<1>. QED  BY <1>1, RequestsAssumption DEF InitialApproval, Approvals

\* A resolution adds one plan; it is approved on the spot only if no subscription
\* asks for manual approval.
LEMMA ResolveAdds ==
  ASSUME Resolve
  PROVE  \E b \in SUBSET CSVs, auto \in BOOLEAN :
           /\ plans' = plans \cup {[csvs |-> b, approved |-> auto, auto |-> auto, done |-> FALSE]}
           /\ b # {} /\ \A c \in b : c[1] \in Subscribed
           /\ auto => \A o \in Subscribed : sub[o].approval = "Automatic"
<1>1. PICK choice \in [Subscribed -> 0 .. MaxVersion] :
        /\ {<<o, choice[o]>> : o \in {p \in Subscribed : choice[p] > 0}} # {}
        /\ plans' = plans \cup
          {[csvs |-> {<<o, choice[o]>> : o \in {p \in Subscribed : choice[p] > 0}},
            approved |-> \A o \in Subscribed : sub[o].approval = "Automatic",
            auto |-> \A o \in Subscribed : sub[o].approval = "Automatic", done |-> FALSE]}
  BY DEF Resolve
<1>. DEFINE b == {<<o, choice[o]>> : o \in {p \in Subscribed : choice[p] > 0}}
            auto == \A o \in Subscribed : sub[o].approval = "Automatic"
<1>5. b # {}
  BY <1>1
<1>2. b \in SUBSET CSVs /\ \A c \in b : c[1] \in Subscribed
  BY MaxVersionAssumption DEF Subscribed, CSVs, Versions
<1>3. auto \in BOOLEAN
  OBVIOUS
<1>4. plans' = plans \cup {[csvs |-> b, approved |-> auto, auto |-> auto, done |-> FALSE]}
  BY <1>1
<1>. HIDE DEF b
<1>. QED  BY <1>2, <1>3, <1>4, <1>5

LEMMA ClusterTypeStep == TypeOK /\ [Next]_vars => ClusterTypeOK'
<1>. SUFFICES ASSUME PlayTypeOK, ClusterTypeOK, OlmTypeOK, [Next]_vars PROVE ClusterTypeOK'
  BY DEF TypeOK
<1>1. CASE UNCHANGED <<groups, sub, plans>> /\ namespace' \in BOOLEAN
  BY <1>1 DEF ClusterTypeOK
<1>2. CASE CreateGroup
  BY <1>2, RequestFields DEF ClusterTypeOK, CreateGroup, Block
<1>3. CASE Subscribe
  <2>1. target[cur] \in Versions
    BY <1>3 DEF Subscribe, PlayTypeOK, Block
  <2>. QED  BY <1>3, <2>1, RequestFields DEF ClusterTypeOK, Subscribe
<1>4. CASE PatchSubscription
  <2>1. target[cur] \in Versions
    BY <1>4 DEF PatchSubscription, PlayTypeOK, Block
  <2>. QED  BY <1>4, <2>1, RequestFields DEF ClusterTypeOK, PatchSubscription
<1>5. CASE Approve
  BY <1>5 DEF ClusterTypeOK, Approve
<1>6. CASE Resolve
  <2>1. PICK b \in SUBSET CSVs, auto \in BOOLEAN :
          plans' = plans \cup {[csvs |-> b, approved |-> auto, auto |-> auto, done |-> FALSE]}
    BY <1>6, ResolveAdds
  <2>2. [csvs |-> b, approved |-> auto, auto |-> auto, done |-> FALSE]
          \in [csvs : SUBSET CSVs, approved : BOOLEAN, auto : BOOLEAN, done : BOOLEAN]
    OBVIOUS
  <2>. QED  BY <1>6, <2>1, <2>2 DEF ClusterTypeOK, Resolve
<1>7. CASE Execute
  BY <1>7 DEF ClusterTypeOK, Execute
<1>. QED
  BY <1>1, <1>2, <1>3, <1>4, <1>5, <1>6, <1>7
  DEF Next, Role, Tasks, Environment, Begin, WaitCatalog, GetPackage, WaitPlan, ApprovedAll, WaitCsv,
    WaitPods, TaskError, Rescue, Retry, CsvSettles, PodsStart, CatalogFlips, Publish,
    clusterVars, vars, ClusterTypeOK

LEMMA OlmTypeStep == TypeOK /\ [Next]_vars => OlmTypeOK'
<1>. SUFFICES ASSUME OlmTypeOK, [Next]_vars PROVE OlmTypeOK'
  BY DEF TypeOK
<1>1. CASE UNCHANGED <<olmVars, catalogVars>>
  BY <1>1 DEF OlmTypeOK, olmVars, catalogVars
<1>2. CASE Execute
  <2>1. PICK p \in plans :
          /\ installed' = [o \in Operators |-> Newest(installed[o], o, p.csvs)]
          /\ phase' = [o \in Operators |->
                         IF Newest(installed[o], o, p.csvs) # installed[o]
                         THEN "Installing" ELSE phase[o]]
    BY <1>2 DEF Execute
  <2>2. installed' \in [Operators -> 0 .. MaxVersion]
    BY <2>1, NewestType DEF OlmTypeOK
  <2>. QED  BY <1>2, <2>1, <2>2 DEF OlmTypeOK, Execute, catalogVars
<1>3. CASE CsvSettles
  BY <1>3 DEF OlmTypeOK, CsvSettles, catalogVars
<1>4. CASE PodsStart
  BY <1>4 DEF OlmTypeOK, PodsStart, catalogVars
<1>5. CASE CatalogFlips
  BY <1>5 DEF OlmTypeOK, CatalogFlips, olmVars
<1>6. CASE Publish
  BY <1>6, MaxVersionAssumption DEF OlmTypeOK, Publish, olmVars
<1>. QED
  BY <1>1, <1>2, <1>3, <1>4, <1>5, <1>6
  DEF Next, Role, Tasks, Environment, Begin, WaitCatalog, GetPackage, CreateGroup, Subscribe, WaitPlan,
    Approve, ApprovedAll, WaitCsv, WaitPods, PatchSubscription, TaskError, Rescue, Retry,
    Resolve, vars

\* Every variable keeps the type its declaration describes, whatever the play
\* and OLM do (roles/olm_operator/tasks/main.yml).
THEOREM TypeCorrect == Spec => []TypeOK
<1>1. TypeOK /\ [Next]_vars => TypeOK'
  BY PlayTypeStep, ClusterTypeStep, OlmTypeStep DEF TypeOK
<1>. QED  BY InitTypes, <1>1, PTL DEF Spec

-----------------------------------------------------------------------------
(* What a successful include guarantees.                                   *)

\* InstallPlans stay, and stay approved.
LEMMA PlansGrow ==
  ASSUME ClusterTypeOK, [Next]_vars
  PROVE  \A p \in plans : \E q \in plans' : q.csvs = p.csvs /\ (p.approved => q.approved)
<1>1. CASE UNCHANGED plans
  BY <1>1
<1>2. CASE Approve
  <2>1. PICK b \in todo :
          plans' = {IF p.csvs = b THEN [p EXCEPT !.approved = TRUE] ELSE p : p \in plans}
    BY <1>2 DEF Approve
  <2>2. ASSUME NEW p \in plans
        PROVE  \E q \in plans' : q.csvs = p.csvs /\ (p.approved => q.approved)
    <3>. DEFINE q == IF p.csvs = b THEN [p EXCEPT !.approved = TRUE] ELSE p
    <3>1. q \in plans'
      BY <2>1
    <3>2. q.csvs = p.csvs /\ (p.approved => q.approved)
      BY DEF ClusterTypeOK
    <3>. QED  BY <3>1, <3>2
  <2>. QED  BY <2>2
<1>3. CASE Resolve
  BY <1>3, ResolveAdds
<1>4. CASE Execute
  <2>1. PICK e \in plans : plans' = (plans \ {e}) \cup {[e EXCEPT !.done = TRUE]}
    BY <1>4 DEF Execute
  <2>2. /\ [e EXCEPT !.done = TRUE].csvs = e.csvs
        /\ [e EXCEPT !.done = TRUE].approved = e.approved
    BY DEF ClusterTypeOK
  <2>. QED  BY <2>1, <2>2
<1>. QED
  BY <1>1, <1>2, <1>3, <1>4
  DEF Next, Role, Tasks, Environment, Begin, WaitCatalog, GetPackage, CreateGroup, Subscribe, WaitPlan,
    ApprovedAll, WaitCsv, WaitPods, PatchSubscription, TaskError, Rescue, Retry, CsvSettles,
    PodsStart, CatalogFlips, Publish, clusterVars, vars

\* An operator never goes back to an older version.
LEMMA InstalledGrows ==
  ASSUME OlmTypeOK, [Next]_vars
  PROVE  \A o \in Operators : installed'[o] >= installed[o]
<1>1. CASE UNCHANGED installed
  BY <1>1, MaxVersionAssumption DEF OlmTypeOK
<1>2. CASE Execute
  BY <1>2, NewestType DEF Execute, OlmTypeOK
<1>. QED
  BY <1>1, <1>2
  DEF Next, Role, Tasks, Environment, Begin, WaitCatalog, GetPackage, CreateGroup, Subscribe, WaitPlan,
    Approve, ApprovedAll, WaitCsv, WaitPods, PatchSubscription, TaskError, Rescue, Retry,
    Resolve, CsvSettles, PodsStart, CatalogFlips, Publish, olmVars, vars

\* The approved plan of an operator remains one while its target does.
LEMMA ApprovedForStays ==
  ASSUME ClusterTypeOK, [Next]_vars, NEW o \in Operators, ApprovedFor(o), target'[o] = target[o]
  PROVE  ApprovedFor(o)'
<1>1. PICK p \in plans : p.approved /\ <<o, target[o]>> \in p.csvs
  BY DEF ApprovedFor
<1>2. PICK q \in plans' : q.csvs = p.csvs /\ (p.approved => q.approved)
  BY PlansGrow
<1>. QED  BY <1>1, <1>2 DEF ApprovedFor

\* A step can make an include successful only by the final patch.
LEMMA OnlyPatchSucceeds ==
  ASSUME PlayTypeOK, [Next]_vars, NEW o \in Operators, outcome[o] # "ok", outcome'[o] = "ok"
  PROVE  PatchSubscription /\ o = cur
<1>1. ASSUME NEW r \in Requests, Begin(r) PROVE FALSE
  BY <1>1 DEF Begin, PlayTypeOK
<1>2. PatchSubscription
  BY <1>1 DEF Next, Role, Tasks, Environment, WaitCatalog, GetPackage, CreateGroup, Subscribe, WaitPlan,
    Approve, ApprovedAll, WaitCsv, WaitPods, TaskError, Rescue, Retry, End,
    Resolve, Execute, CsvSettles, PodsStart, CatalogFlips, Publish, vars, PlayTypeOK
<1>. QED  BY <1>2 DEF PatchSubscription, End, PlayTypeOK

\* While an operator's last include counts as successful, no step changes its
\* parameters, its target or its subscription.
LEMMA OkIsStable ==
  ASSUME PlayTypeOK, ClusterTypeOK, PlayInv, [Next]_vars, NEW o \in Operators,
         outcome[o] = "ok", outcome'[o] = "ok"
  PROVE  last'[o] = last[o] /\ target'[o] = target[o] /\ sub'[o] = sub[o]
<1>1. CASE \E r \in Requests : Begin(r)
  BY <1>1 DEF Begin, PlayTypeOK, clusterVars
<1>2. CASE GetPackage
  BY <1>2 DEF GetPackage, PlayTypeOK, PlayInv, End, Retry, playVars, clusterVars
<1>3. CASE Subscribe
  BY <1>3 DEF Subscribe, PlayTypeOK, ClusterTypeOK, PlayInv, playVars
<1>4. CASE PatchSubscription
  BY <1>4 DEF PatchSubscription, End, PlayTypeOK, ClusterTypeOK, PlayInv
<1>5. CASE UNCHANGED <<last, target, sub>>
  BY <1>5
<1>. QED
  BY <1>1, <1>2, <1>3, <1>4, <1>5
  DEF Next, Role, Tasks, Environment, WaitCatalog, CreateGroup, WaitPlan, Approve, ApprovedAll, WaitCsv,
    WaitPods, TaskError, Rescue, Retry, End, Resolve, Execute, CsvSettles, PodsStart,
    CatalogFlips, Publish, playVars, clusterVars, vars

LEMMA PlayInvStep ==
  ASSUME PlayTypeOK, ClusterTypeOK, OlmTypeOK, PlayInv, [Next]_vars
  PROVE  PlayInv'
<1>1. CASE pc' = "idle"
  BY <1>1 DEF PlayInv
<1>2. CASE \E r \in Requests : Begin(r)
  <2>1. PICK r \in Requests : Begin(r)
    BY <1>2
  <2>2. r.op \in Operators
    BY RequestsAssumption
  <2>. QED  BY <2>1, <2>2 DEF Begin, Goto, Block, Waits, PlayInv, PlayTypeOK
<1>3. CASE /\ pc' # "idle" /\ UNCHANGED playVars
           /\ UNCHANGED <<pc, todo, outcome>>
  <2>1. cur \in Operators
    BY <1>3 DEF PlayTypeOK
  <2>2. ApprovedFor(cur) => ApprovedFor(cur)'
    BY <1>3, <2>1, ApprovedForStays DEF playVars
  <2>3. installed[cur] >= target[cur] => installed'[cur] >= target[cur]
    BY <2>1, InstalledGrows, OlmTypeStep, MaxVersionAssumption DEF OlmTypeOK, PlayTypeOK, TypeOK
  <2>. QED  BY <1>3, <2>1, <2>2, <2>3, PlansGrow DEF PlayInv, playVars, Csv, Req, ApprovedFor
<1>4. CASE /\ pc' \in {"package", "group", "subscribe", "plan", "rescue"}
           /\ UNCHANGED <<cur, outcome>> /\ pc # "idle"
  BY <1>4 DEF PlayInv
<1>5. CASE WaitPlan /\ pc' = "approve"
  BY <1>5 DEF WaitPlan, Matching, PlayInv, playVars, clusterVars, Csv, Goto, Retry
<1>6. CASE Approve
  <2>1. PICK b \in todo : todo' = todo \ {b} /\
          plans' = {IF p.csvs = b THEN [p EXCEPT !.approved = TRUE] ELSE p : p \in plans}
    BY <1>6 DEF Approve
  <2>2. PICK p \in plans : p.csvs = b
    BY <1>6, <2>1 DEF Approve, PlayInv
  <2>3. /\ [p EXCEPT !.approved = TRUE] \in plans'
        /\ [p EXCEPT !.approved = TRUE].approved /\ [p EXCEPT !.approved = TRUE].csvs = b
    BY <2>1, <2>2 DEF ClusterTypeOK
  <2>4. Csv \in b
    BY <1>6 DEF Approve, PlayInv
  <2>5. ApprovedFor(cur)'
    BY <1>6, <2>3, <2>4 DEF Approve, ApprovedFor, Csv, playVars
  <2>6. ASSUME NEW c \in todo' PROVE Csv \in c /\ \E q \in plans' : q.csvs = c
    <3>1. PICK q \in plans : q.csvs = c /\ Csv \in c
      BY <1>6, <2>1 DEF Approve, PlayInv
    <3>. QED  BY <3>1, PlansGrow
  <2>7. UNCHANGED <<pc, outcome, cur, target>> /\ pc = "approve" /\ Csv' = Csv
    BY <1>6 DEF Approve, playVars, Csv
  <2>. QED  BY <2>5, <2>6, <2>7 DEF PlayInv
<1>7. CASE ApprovedAll
  BY <1>7 DEF ApprovedAll, Goto, PlayInv, ApprovedFor, Req, playVars, clusterVars
<1>8. CASE (WaitCsv /\ pc' = "pods") \/ (WaitPods /\ pc' = "patch")
  <2>1. cur \in Operators /\ installed[cur] \in 0 .. MaxVersion
    BY <1>8 DEF WaitCsv, WaitPods, PlayTypeOK, OlmTypeOK
  <2>. QED
    BY <1>8, <2>1, MaxVersionAssumption
    DEF WaitCsv, WaitPods, CsvReady, Goto, Retry, PlayInv, ApprovedFor, Req, playVars, clusterVars, olmVars
<1>. QED
  BY <1>1, <1>2, <1>3, <1>4, <1>5, <1>6, <1>7, <1>8
  DEF Next, Role, Tasks, Environment, WaitCatalog, GetPackage, CreateGroup, Subscribe, WaitPlan, WaitCsv,
    WaitPods, PatchSubscription, TaskError, Rescue, Retry, Goto, End, Resolve, Execute, CsvSettles,
    PodsStart, CatalogFlips, Publish, playVars, vars

LEMMA InitInv == Init => IInv
BY InitTypes DEF IInv, Init, PlayInv, AskedApproval, OkMeansApproved

LEMMA InvStep == IInv /\ [Next]_vars => IInv'
<1>. SUFFICES ASSUME IInv, [Next]_vars PROVE IInv'
  OBVIOUS
<1>. USE DEF IInv, TypeOK
<1>1. TypeOK' /\ PlayInv'
  BY PlayTypeStep, ClusterTypeStep, OlmTypeStep, PlayInvStep
<1>2. ASSUME NEW o \in Operators, outcome'[o] = "ok", outcome[o] = "ok"
      PROVE  /\ sub'[o] # None /\ sub'[o].approval = last'[o].approval
             /\ ApprovedFor(o)' /\ (last'[o].validate => installed'[o] >= target'[o])
  <2>1. last'[o] = last[o] /\ target'[o] = target[o] /\ sub'[o] = sub[o]
    BY <1>2, OkIsStable
  <2>2. ApprovedFor(o)'
    BY <1>2, <2>1, ApprovedForStays DEF OkMeansApproved
  <2>3. last[o].validate => installed'[o] >= target[o]
    BY <1>1, <1>2, InstalledGrows, MaxVersionAssumption
    DEF OkMeansApproved, OlmTypeOK, PlayTypeOK
  <2>. QED  BY <1>2, <2>1, <2>2, <2>3 DEF AskedApproval
<1>3. ASSUME NEW o \in Operators, outcome'[o] = "ok", outcome[o] # "ok"
      PROVE  /\ sub'[o] # None /\ sub'[o].approval = last'[o].approval
             /\ ApprovedFor(o)' /\ (last'[o].validate => installed'[o] >= target'[o])
  <2>1. PatchSubscription /\ o = cur
    BY <1>3, OnlyPatchSucceeds
  <2>2. sub'[o] = [approval |-> last[o].approval, starting |-> target[o]]
    BY <2>1 DEF PatchSubscription, Req, ClusterTypeOK
  <2>3. [approval |-> last[o].approval, starting |-> target[o]] # None
    BY <2>1, NoneIsNoSubscription, RequestFields
    DEF PatchSubscription, PlayTypeOK, Block, Req
  <2>4. ApprovedFor(o) /\ (last[o].validate => installed[o] >= target[o])
    BY <2>1 DEF PatchSubscription, PlayInv, Req
  <2>. QED
    BY <2>1, <2>2, <2>3, <2>4 DEF PatchSubscription, End, ApprovedFor, olmVars
<1>. QED  BY <1>1, <1>2, <1>3 DEF AskedApproval, OkMeansApproved

\* After a successful include an InstallPlan with the target CSV is approved, and
\* a validated install has at least the target version (tasks "Approve all
\* InstallPlans" and "Wait for CSV to be ready").
THEOREM OkGuarantees == Spec => []OkMeansApproved
<1>1. IInv => OkMeansApproved
  BY DEF IInv
<1>. QED  BY InitInv, InvStep, <1>1, PTL DEF Spec

\* Once an include that asked for Manual approval has ended well, OLM approves
\* nothing in the namespace by itself until the next include for that operator:
\* the final patch has taken back the automatic approval of a pinned version, and
\* one Manual subscription is enough for all (tasks "Create subscription" and
\* "Patch subscription").
THEOREM ManualProtects == Spec => ManualHolds
<1>1. ASSUME IInv, [Next]_vars, NEW o \in Operators, outcome[o] = "ok",
             last[o].approval = "Manual", NEW p \in plans', p.auto
      PROVE  \E q \in plans : q.auto /\ q.csvs = p.csvs
  <2>1. ClusterTypeOK
    BY <1>1 DEF IInv, TypeOK
  <2>2. CASE UNCHANGED plans
    BY <1>1, <2>2
  <2>3. CASE Approve
    <3>1. PICK b \in todo :
            plans' = {IF q.csvs = b THEN [q EXCEPT !.approved = TRUE] ELSE q : q \in plans}
      BY <2>3 DEF Approve
    <3>2. PICK q \in plans : p = IF q.csvs = b THEN [q EXCEPT !.approved = TRUE] ELSE q
      BY <3>1, <1>1
    <3>. QED  BY <1>1, <2>1, <3>2 DEF ClusterTypeOK
  <2>4. CASE Resolve
    <3>1. PICK b \in SUBSET CSVs, auto \in BOOLEAN :
            /\ plans' = plans \cup
                 {[csvs |-> b, approved |-> auto, auto |-> auto, done |-> FALSE]}
            /\ auto => \A s \in Subscribed : sub[s].approval = "Automatic"
      BY <2>4, ResolveAdds
    <3>2. o \in Subscribed /\ sub[o].approval = "Manual"
      BY <1>1 DEF IInv, AskedApproval, Subscribed
    <3>3. ~auto
      BY <3>1, <3>2
    <3>. QED  BY <1>1, <3>1, <3>3
  <2>5. CASE Execute
    <3>1. PICK e \in plans : plans' = (plans \ {e}) \cup {[e EXCEPT !.done = TRUE]}
      BY <2>5 DEF Execute
    <3>. QED  BY <1>1, <2>1, <3>1 DEF ClusterTypeOK
  <2>. QED
    BY <1>1, <2>2, <2>3, <2>4, <2>5
    DEF Next, Role, Tasks, Environment, Begin, WaitCatalog, GetPackage, CreateGroup,
      Subscribe, WaitPlan, ApprovedAll, WaitCsv, WaitPods, PatchSubscription, TaskError,
      Rescue, Retry, CsvSettles, PodsStart, CatalogFlips, Publish, clusterVars, vars
<1>2. IInv /\ [Next]_vars =>
        \A o \in Operators :
          outcome[o] = "ok" /\ last[o].approval = "Manual" =>
            \A p \in plans' : p.auto => \E q \in plans : q.auto /\ q.csvs = p.csvs
  BY <1>1
<1>. QED  BY InitInv, InvStep, <1>2, PTL DEF Spec, ManualHolds

-----------------------------------------------------------------------------
(* Nothing is approved unasked.                                            *)

\* All includes ask for manual approval, and none pins a version.
AllManual == \A r \in Requests : r.approval = "Manual" /\ r.pin = 0

\* All subscriptions are manual, so no plan was approved when it was made.
ManualInv ==
  AllManual =>
    /\ \A o \in Operators : sub[o] # None => sub[o].approval = "Manual"
    /\ \A p \in plans : ~p.auto

LEMMA ManualStep ==
  ASSUME PlayTypeOK, ClusterTypeOK, ManualInv, [Next]_vars
  PROVE  ManualInv'
<1>. SUFFICES ASSUME AllManual
              PROVE  /\ \A o \in Operators : sub'[o] # None => sub'[o].approval = "Manual"
                     /\ \A p \in plans' : ~p.auto
  BY DEF ManualInv, AllManual
<1>1. /\ \A o \in Operators : sub[o] # None => sub[o].approval = "Manual"
      /\ \A p \in plans : ~p.auto
  BY DEF ManualInv
<1>2. CASE UNCHANGED <<sub, plans>>
  BY <1>1, <1>2
<1>3. CASE Subscribe \/ PatchSubscription
  <2>1. Req \in Requests /\ cur \in Operators
    BY <1>3, RequestFields DEF Subscribe, PatchSubscription
  <2>2. Req.approval = "Manual" /\ InitialApproval = "Manual"
    BY <2>1 DEF AllManual, InitialApproval
  <2>. QED  BY <1>1, <1>3, <2>1, <2>2 DEF Subscribe, PatchSubscription, ClusterTypeOK
<1>4. CASE Approve
  BY <1>1, <1>4 DEF Approve, ClusterTypeOK
<1>5. CASE Resolve
  <2>1. PICK b \in SUBSET CSVs, auto \in BOOLEAN :
          /\ plans' = plans \cup {[csvs |-> b, approved |-> auto, auto |-> auto, done |-> FALSE]}
          /\ b # {} /\ \A c \in b : c[1] \in Subscribed
          /\ auto => \A o \in Subscribed : sub[o].approval = "Automatic"
    BY <1>5, ResolveAdds
  <2>2. \E o \in Subscribed : sub[o].approval = "Manual"
    BY <1>1, <2>1 DEF Subscribed
  <2>3. auto = FALSE
    BY <2>1, <2>2
  <2>. QED  BY <1>1, <1>5, <2>1, <2>3 DEF Resolve
<1>6. CASE Execute
  BY <1>1, <1>6 DEF Execute, ClusterTypeOK
<1>. QED
  BY <1>2, <1>3, <1>4, <1>5, <1>6
  DEF Next, Role, Tasks, Environment, Begin, WaitCatalog, GetPackage, CreateGroup, WaitPlan,
    ApprovedAll, WaitCsv, WaitPods, TaskError, Rescue, Retry, CsvSettles, PodsStart,
    CatalogFlips, Publish, clusterVars, vars

\* A play whose includes all ask for manual approval and pin nothing never gives
\* OLM an InstallPlan to approve by itself (_oo_approval, "Create subscription
\* for OLM operator", "Patch subscription according to install_approval").
THEOREM NothingUnasked == Spec => []ManualMeansAsked
<1>1. Init => ManualInv
  BY DEF Init, ManualInv
<1>2. TypeOK /\ ManualInv /\ [Next]_vars => ManualInv'
  BY ManualStep DEF TypeOK
<1>3. ManualInv => ManualMeansAsked
  BY DEF ManualInv, ManualMeansAsked, AllManual
<1>. QED  BY <1>1, <1>2, <1>3, TypeCorrect, PTL DEF Spec
-----------------------------------------------------------------------------
(* The role implements the abstract life cycle.                            *)

Mode    == [o \in Operators |-> IF sub[o] = None THEN "absent" ELSE sub[o].approval]
Granted == {p.csvs : p \in {q \in plans : q.approved}}

\* The abstract variables change only with the InstallPlans, the subscriptions,
\* the targets and the installed versions.
LEMMA StutterStep ==
  ASSUME UNCHANGED <<sub, target, plans, installed>>
  PROVE  UNCHANGED Lifecycle!vars
  BY DEF Lifecycle!vars

LEMMA WantStep ==
  ASSUME NEW o \in Operators, NEW v \in 0 .. MaxVersion, target' = [target EXCEPT ![o] = v],
         UNCHANGED <<sub, plans, installed>>
  PROVE  Lifecycle!Next
<1>1. Lifecycle!Want(o)
  BY DEF Lifecycle!Want
<1>. QED  BY <1>1 DEF Lifecycle!Next

LEMMA SetModeStep ==
  ASSUME ClusterTypeOK, NEW o \in Operators, NEW a \in Approvals, NEW v \in Versions,
         sub' = [sub EXCEPT ![o] = [approval |-> a, starting |-> v]],
         UNCHANGED <<target, plans, installed>>
  PROVE  Lifecycle!Next
<1>1. [approval |-> a, starting |-> v] # None
  BY NoneIsNoSubscription
<1>2. Mode' = [Mode EXCEPT ![o] = a]
  BY <1>1 DEF Mode, ClusterTypeOK
<1>3. a \in Lifecycle!Modes \ {"absent"}
  BY DEF Lifecycle!Modes, Approvals
<1>4. Lifecycle!SetMode(o)
  BY <1>2, <1>3 DEF Lifecycle!SetMode, Mode
<1>. QED  BY <1>4 DEF Lifecycle!Next

LEMMA GrantStep ==
  ASSUME PlayTypeOK, ClusterTypeOK, PlayInv, Approve
  PROVE  Lifecycle!Next
<1>1. PICK b \in todo :
        plans' = {IF p.csvs = b THEN [p EXCEPT !.approved = TRUE] ELSE p : p \in plans}
  BY DEF Approve
<1>2. PICK p \in plans : p.csvs = b
  BY <1>1 DEF Approve, PlayInv
<1>3. Csv \in b /\ cur \in Operators /\ b \in SUBSET CSVs
  BY <1>1 DEF Approve, PlayInv, PlayTypeOK
<1>4. Granted' = Granted \cup {b}
  <2>1. ASSUME NEW q \in plans
        PROVE  /\ q.approved => q.csvs \in Granted'
               /\ q.csvs = b => b \in Granted'
    <3>. DEFINE r == IF q.csvs = b THEN [q EXCEPT !.approved = TRUE] ELSE q
    <3>1. r \in plans' /\ r.csvs = q.csvs
      BY <1>1 DEF ClusterTypeOK
    <3>2. (q.approved \/ q.csvs = b) => r.approved
      BY DEF ClusterTypeOK
    <3>. QED  BY <3>1, <3>2 DEF Granted
  <2>2. ASSUME NEW r \in plans', r.approved PROVE r.csvs \in Granted \cup {b}
    BY <1>1, <2>2 DEF Granted, ClusterTypeOK
  <2>. QED  BY <1>2, <2>1, <2>2 DEF Granted
<1>5. Lifecycle!Grant(b)
  BY <1>3, <1>4 DEF Lifecycle!Grant, Approve, Granted, Csv, playVars, olmVars
<1>6. b \in SUBSET Lifecycle!CSVs
  BY <1>3 DEF Lifecycle!CSVs, Lifecycle!Versions, CSVs, Versions
<1>. QED  BY <1>5, <1>6 DEF Lifecycle!Next

LEMMA ResolveStep ==
  ASSUME ClusterTypeOK, Resolve
  PROVE  Lifecycle!Next \/ UNCHANGED Lifecycle!vars
<1>1. PICK b \in SUBSET CSVs, auto \in BOOLEAN :
        /\ plans' = plans \cup {[csvs |-> b, approved |-> auto, auto |-> auto, done |-> FALSE]}
        /\ \A c \in b : c[1] \in Subscribed
        /\ auto => \A o \in Subscribed : sub[o].approval = "Automatic"
  BY ResolveAdds
<1>2. UNCHANGED <<sub, target, installed>>
  BY DEF Resolve, playVars, olmVars
<1>3. CASE auto
  <2>1. Granted' = Granted \cup {b}
    <3>. DEFINE n == [csvs |-> b, approved |-> auto, auto |-> auto, done |-> FALSE]
    <3>1. n.csvs = b /\ n.approved /\ plans' = plans \cup {n}
      BY <1>1, <1>3
    <3>. HIDE DEF n
    <3>2. \A q \in plans' : q \in plans \/ q = n
      BY <3>1
    <3>3. n \in plans' /\ plans \subseteq plans'
      BY <3>1
    <3>. QED  BY <3>1, <3>2, <3>3, Zenon DEF Granted
  <2>2. \A o \in Operators : Mode[o] # "Manual"
    BY <1>1, <1>3 DEF Mode, Subscribed
  <2>3. \A c \in b : Mode[c[1]] = "Automatic"
    BY <1>1, <1>3 DEF Mode, Subscribed
  <2>4. Lifecycle!AutoGrant(b)
    BY <1>2, <2>1, <2>2, <2>3 DEF Lifecycle!AutoGrant, Mode, Granted
  <2>5. b \in SUBSET Lifecycle!CSVs
    BY <1>1 DEF Lifecycle!CSVs, Lifecycle!Versions, CSVs, Versions
  <2>. QED  BY <2>4, <2>5 DEF Lifecycle!Next
<1>4. CASE ~auto
  <2>1. Granted' = Granted
    BY <1>1, <1>4 DEF Granted
  <2>. QED  BY <1>2, <2>1 DEF Lifecycle!vars, Granted
<1>. QED  BY <1>3, <1>4

LEMMA DeployStep ==
  ASSUME ClusterTypeOK, Execute
  PROVE  Lifecycle!Next
<1>1. PICK p \in plans :
        /\ p.approved
        /\ plans' = (plans \ {p}) \cup {[p EXCEPT !.done = TRUE]}
        /\ installed' = [o \in Operators |-> Newest(installed[o], o, p.csvs)]
  BY DEF Execute
<1>2. UNCHANGED <<sub, target>>
  BY DEF Execute, playVars
<1>3. /\ [p EXCEPT !.done = TRUE].csvs = p.csvs
      /\ [p EXCEPT !.done = TRUE].approved = p.approved
  BY DEF ClusterTypeOK
<1>4. Granted' = Granted /\ p.csvs \in Granted
  BY <1>1, <1>3 DEF Granted
<1>5. \A o \in Operators :
        Newest(installed[o], o, p.csvs) = Lifecycle!Newest(installed[o], o, p.csvs)
  BY DEF Newest, Lifecycle!Newest, Versions, Lifecycle!Versions
<1>6. Lifecycle!Deploy(p.csvs)
  BY <1>1, <1>2, <1>4, <1>5 DEF Lifecycle!Deploy, Granted
<1>7. p.csvs \in SUBSET Lifecycle!CSVs
  BY DEF ClusterTypeOK, Lifecycle!CSVs, Lifecycle!Versions, CSVs, Versions
<1>. QED  BY <1>6, <1>7 DEF Lifecycle!Next

\* Every behaviour of the role, OLM and the catalogs is one of the abstract life
\* cycle: what is deployed was granted, and the role grants a plan only for the
\* CSV it wants.
THEOREM Refinement == Spec => ImplementsLifecycle
<1>1. Init => Lifecycle!Init
  BY DEF Init, Lifecycle!Init
<1>2. TypeOK /\ PlayInv /\ [Next]_vars => [Lifecycle!Next]_Lifecycle!vars
  <2>. SUFFICES ASSUME PlayTypeOK, ClusterTypeOK, OlmTypeOK, PlayInv, [Next]_vars
                PROVE  Lifecycle!Next \/ UNCHANGED Lifecycle!vars
    BY DEF TypeOK
  <2>1. ASSUME NEW r \in Requests, Begin(r) PROVE Lifecycle!Next
    <3>1. r.op \in Operators /\ 0 \in 0 .. MaxVersion
      BY RequestsAssumption, MaxVersionAssumption
    <3>2. target' = [target EXCEPT ![r.op] = 0] /\ UNCHANGED <<sub, plans, installed>>
      BY <2>1 DEF Begin, clusterVars, olmVars
    <3>. QED  BY <3>1, <3>2, WantStep
  <2>2. CASE GetPackage
    <3>1. cur \in Operators /\ Req \in Requests
      BY <2>2 DEF GetPackage, PlayTypeOK
    <3>2. head[cur] \in 0 .. MaxVersion /\ Req.pin \in 0 .. MaxVersion
      BY <3>1, RequestsAssumption DEF OlmTypeOK
    <3>. QED
      BY <2>2, <3>1, <3>2, WantStep, StutterStep
      DEF GetPackage, End, Retry, playVars, clusterVars, olmVars
  <2>3. CASE Subscribe
    <3>1. cur \in Operators /\ InitialApproval \in Approvals /\ target[cur] \in Versions
      BY <2>3, RequestFields DEF Subscribe, PlayTypeOK, Block
    <3>. QED  BY <2>3, <3>1, SetModeStep DEF Subscribe, playVars, olmVars
  <2>4. CASE PatchSubscription
    <3>1. cur \in Operators /\ Req.approval \in Approvals /\ target[cur] \in Versions
      BY <2>4, RequestFields DEF PatchSubscription, PlayTypeOK, Block
    <3>. QED  BY <2>4, <3>1, SetModeStep DEF PatchSubscription, End, olmVars
  <2>5. CASE Approve
    BY <2>5, GrantStep
  <2>6. CASE Resolve
    BY <2>6, ResolveStep
  <2>7. CASE Execute
    BY <2>7, DeployStep
  <2>8. CASE UNCHANGED <<sub, target, plans, installed>>
    BY <2>8, StutterStep
  <2>. QED
    BY <2>1, <2>2, <2>3, <2>4, <2>5, <2>6, <2>7, <2>8
    DEF Next, Role, Tasks, Environment, WaitCatalog, CreateGroup, WaitPlan, ApprovedAll, WaitCsv, WaitPods,
      TaskError, Rescue, Retry, End, CsvSettles, PodsStart, CatalogFlips, Publish,
      playVars, clusterVars, olmVars, vars
<1>3. Init => PlayInv
  BY DEF Init, PlayInv
<1>4. TypeOK /\ PlayInv /\ [Next]_vars => PlayInv'
  BY PlayInvStep DEF TypeOK
<1>. QED
  BY TypeCorrect, <1>1, <1>2, <1>3, <1>4, PTL DEF Spec, ImplementsLifecycle, Lifecycle!Spec
=============================================================================
