---------------------------- MODULE OlmOperator ----------------------------
(***************************************************************************)
(* roles/olm_operator: a play installs operators, one include of the role  *)
(* after the other, into one namespace (as                                 *)
(* roles/example_cnf_deploy/tasks/deploy/sub.yml does), while OLM resolves *)
(* subscriptions into InstallPlans and the catalogs move on.               *)
(*                                                                         *)
(* OLM and the catalogs are not part of the repository: their actions are  *)
(* the weakest the role's tasks rely on.  OLM resolves all subscriptions   *)
(* of a namespace into one InstallPlan, so a plan may hold the CSVs of     *)
(* other operators than the one the role is installing.                    *)
(***************************************************************************)
EXTENDS Naturals, FiniteSets

CONSTANTS
  Operators,   \* The operators of the namespace.
  MaxVersion,  \* Bound: versions of an operator are 1..MaxVersion.
  Requests,    \* The includes of the role the play may run.
  Tries,       \* Attempts of each wait (60, 3, 120, 30 and 30 in the code).
  MaxRuns,     \* Bound: includes of the role in one behaviour.
  None         \* No operator, no subscription.

Versions  == 1 .. MaxVersion
CSVs      == Operators \X Versions
Approvals == {"Manual", "Automatic"}
Waits     == {"catalog", "package", "plan", "csv", "pods"}
Block     == {"group", "subscribe", "plan", "approve", "csv", "pods", "patch"}

ASSUME MaxVersionAssumption == MaxVersion \in Nat \ {0}
ASSUME NoneAssumption == None \notin Operators
ASSUME NoneIsNoSubscription ==
  \A a \in Approvals, v \in Versions : [approval |-> a, starting |-> v] # None
ASSUME TriesAssumption == Tries \in [Waits -> Nat]
ASSUME MaxRunsAssumption == MaxRuns \in Nat
\* pin is starting_csv, 0 for the default "".
ASSUME RequestsAssumption ==
  Requests \subseteq [op : Operators, group : STRING, approval : Approvals,
                      pin : 0 .. MaxVersion, skippable : BOOLEAN,
                      validate : BOOLEAN]

VARIABLES
  \* The play.
  pc,         \* The task of the role that runs next.
  cur,        \* The operator being installed.
  last,       \* Parameters of the last include for each operator.
  target,     \* operator_csv of that include, 0 before it is known.
  todo,       \* InstallPlans of the snapshot still to approve.
  tries,      \* Attempts left of the current wait.
  outcome,    \* How the last include for each operator ended.
  runs,       \* Includes so far.
  \* The cluster.
  namespace,  \* The namespace exists, with its labels.
  groups,     \* Names of the OperatorGroups in it.
  sub,        \* Subscriptions.
  plans,      \* InstallPlans.
  installed,  \* Version of the installed CSV, 0 if none.
  phase,      \* Its status.phase.
  podsUp,     \* All pods of the namespace are Succeeded or Running.
  ready,      \* The CatalogSource's lastObservedState is READY.
  head        \* currentCSV of the channel, 0: no PackageManifest.

playVars    == <<cur, last, target, runs>>
clusterVars == <<namespace, groups, sub, plans>>
olmVars     == <<installed, phase, podsUp>>
catalogVars == <<ready, head>>
vars == <<pc, todo, tries, outcome, playVars, clusterVars, olmVars, catalogVars>>

Req == last[cur]
Csv == <<cur, target[cur]>>

Subscribed == {o \in Operators : sub[o] # None}

PlayTypeOK ==
  /\ pc \in {"idle", "catalog", "package", "rescue"} \cup Block
  /\ cur \in Operators \cup {None}
  /\ (cur = None) <=> (pc = "idle")
  /\ last \in [Operators -> Requests \cup {None}]
  /\ pc # "idle" => Req \in Requests /\ Req.op = cur
  /\ target \in [Operators -> 0 .. MaxVersion]
  /\ pc \in Block => target[cur] \in Versions
  /\ todo \subseteq SUBSET CSVs
  /\ tries \in Nat
  /\ outcome \in [Operators -> {"none", "running", "ok", "skipped", "failed"}]
  /\ runs \in Nat

ClusterTypeOK ==
  /\ namespace \in BOOLEAN
  /\ groups \subseteq STRING
  /\ sub \in [Operators -> [approval : Approvals, starting : Versions] \cup {None}]
  /\ plans \subseteq [csvs : SUBSET CSVs, approved : BOOLEAN, auto : BOOLEAN,
                      done : BOOLEAN]

OlmTypeOK ==
  /\ installed \in [Operators -> 0 .. MaxVersion]
  /\ phase \in [Operators -> {"absent", "Installing", "Succeeded", "Failed"}]
  /\ podsUp \in BOOLEAN
  /\ ready \in BOOLEAN
  /\ head \in [Operators -> 0 .. MaxVersion]

TypeOK == PlayTypeOK /\ ClusterTypeOK /\ OlmTypeOK

Init ==
  /\ pc = "idle" /\ cur = None
  /\ last = [o \in Operators |-> None]
  /\ target = [o \in Operators |-> 0]
  /\ todo = {} /\ tries = 0 /\ runs = 0
  /\ outcome = [o \in Operators |-> "none"]
  /\ namespace = FALSE /\ groups = {}
  /\ sub = [o \in Operators |-> None]
  /\ plans = {}
  /\ installed = [o \in Operators |-> 0]
  /\ phase = [o \in Operators |-> "absent"]
  /\ podsUp = TRUE
  /\ ready \in BOOLEAN
  /\ head \in [Operators -> {0, 1}]

-----------------------------------------------------------------------------
(* The role.                                                               *)

\* Go on to task t; a wait starts with its full number of attempts.
Goto(t) ==
  /\ pc' = t
  /\ tries' = IF t \in Waits THEN Tries[t] ELSE 0

\* Mutant: the operator is still set when the include has ended.
EndKeepsOperator(result) ==
  /\ pc' = "idle" /\ tries' = 0 /\ todo' = {}
  /\ outcome' = [outcome EXCEPT ![cur] = result]
  /\ UNCHANGED <<cur, last, target, runs>>

\* The include ends; the next one may start.
End(result) ==
  /\ pc' = "idle" /\ cur' = None
  /\ tries' = 0 /\ todo' = {}
  /\ outcome' = [outcome EXCEPT ![cur] = result]
  /\ UNCHANGED <<last, target, runs>>

\* Mutant: attempts are not counted.
RetryForever ==
  /\ UNCHANGED tries
  /\ UNCHANGED <<pc, todo, outcome, playVars, clusterVars, olmVars, catalogVars>>

\* One more attempt of a wait whose condition does not hold yet.
Retry ==
  /\ tries > 0
  /\ tries' = tries - 1
  /\ UNCHANGED <<pc, todo, outcome, playVars, clusterVars, olmVars, catalogVars>>

Begin(r) ==
  /\ pc = "idle" /\ runs < MaxRuns
  /\ Goto("catalog")
  /\ cur' = r.op
  /\ last' = [last EXCEPT ![r.op] = r]
  /\ target' = [target EXCEPT ![r.op] = 0]
  /\ outcome' = [outcome EXCEPT ![r.op] = "running"]
  /\ runs' = runs + 1
  /\ UNCHANGED <<todo, clusterVars, olmVars, catalogVars>>

\* The namespace is created and labelled as soon as the catalog is READY, even
\* for a package that turns out to be missing.
WaitCatalog ==
  /\ pc = "catalog"
  /\ \/ /\ ready
        /\ Goto("package") /\ namespace' = TRUE
        /\ UNCHANGED <<todo, outcome, playVars, groups, sub, plans, olmVars, catalogVars>>
     \/ ~ready /\ Retry
     \/ /\ ~ready /\ tries = 0 /\ End("failed")
        /\ UNCHANGED <<clusterVars, olmVars, catalogVars>>

\* The manifest that is found fixes operator_csv for the rest of the include.  A
\* listing that fails counts as one that found nothing (ignore_errors).
GetPackage ==
  /\ pc = "package"
  /\ \/ /\ head[cur] > 0
        /\ Goto("group")
        /\ target' = [target EXCEPT ![cur] =
                        IF Req.pin > 0 THEN Req.pin ELSE head[cur]]
        /\ UNCHANGED <<todo, outcome, cur, last, runs>>
        /\ UNCHANGED <<clusterVars, olmVars, catalogVars>>
     \/ Retry
     \/ /\ tries = 0
        /\ End(IF Req.skippable THEN "skipped" ELSE "failed")
        /\ UNCHANGED <<clusterVars, olmVars, catalogVars>>

CreateGroup ==
  /\ pc = "group"
  /\ Goto("subscribe")
  /\ groups' = groups \cup {Req.group}
  /\ UNCHANGED <<todo, outcome, playVars, namespace, sub, plans, olmVars, catalogVars>>

\* Mutant: the first installation is always automatic.
AlwaysAutomatic == "Automatic"

\* _oo_approval: a pinned version is installed with automatic approval.
InitialApproval ==
  IF Req.approval = "Automatic" \/ Req.pin > 0 THEN "Automatic" ELSE "Manual"

Subscribe ==
  /\ pc = "subscribe"
  /\ Goto("plan")
  /\ sub' = [sub EXCEPT ![cur] = [approval |-> InitialApproval,
                                  starting |-> target[cur]]]
  /\ UNCHANGED <<todo, outcome, playVars, namespace, groups, plans, olmVars, catalogVars>>

\* Mutant: the plans of the namespace are not filtered by CSV.
AllPlans(ps) == {p.csvs : p \in ps}

\* The selection of _oo_install_plan.resources by the target CSV.
Matching(ps) == {p.csvs : p \in {q \in ps : Csv \in q.csvs}}

\* The list read by the last attempt is what the approval loop works on.
WaitPlan ==
  /\ pc = "plan"
  /\ \/ /\ Matching(plans) # {}
        /\ Goto("approve") /\ todo' = Matching(plans)
        /\ UNCHANGED <<outcome, playVars, clusterVars, olmVars, catalogVars>>
     \/ Matching(plans) = {} /\ Retry
     \/ /\ Matching(plans) = {} /\ tries = 0 /\ Goto("rescue")
        /\ UNCHANGED <<todo, outcome, playVars, clusterVars, olmVars, catalogVars>>

\* One item of the approval loop.
Approve ==
  /\ pc = "approve"
  /\ \E b \in todo :
       /\ plans' = {IF p.csvs = b THEN [p EXCEPT !.approved = TRUE] ELSE p : p \in plans}
       /\ todo' = todo \ {b}
  /\ UNCHANGED <<pc, tries, outcome, playVars, namespace, groups, sub, olmVars, catalogVars>>

ApprovedAll ==
  /\ pc = "approve" /\ todo = {}
  /\ Goto(IF Req.validate THEN "csv" ELSE "patch")
  /\ UNCHANGED <<todo, outcome, playVars, clusterVars, olmVars, catalogVars>>

\* Mutant: the CSV is found by the operator's name, whatever its version.
AnyCsvReady == phase[cur] \in {"Succeeded", "Present"}

\* The role takes a phase Present for a success too; OLM reports none of that name.
CsvReady == installed[cur] = target[cur] /\ phase[cur] \in {"Succeeded", "Present"}

WaitCsv ==
  /\ pc = "csv"
  /\ \/ /\ CsvReady /\ Goto("pods")
        /\ UNCHANGED <<todo, outcome, playVars, clusterVars, olmVars, catalogVars>>
     \/ ~CsvReady /\ Retry
     \/ /\ ~CsvReady /\ tries = 0 /\ Goto("rescue")
        /\ UNCHANGED <<todo, outcome, playVars, clusterVars, olmVars, catalogVars>>

WaitPods ==
  /\ pc = "pods"
  /\ \/ /\ podsUp /\ Goto("patch")
        /\ UNCHANGED <<todo, outcome, playVars, clusterVars, olmVars, catalogVars>>
     \/ ~podsUp /\ Retry
     \/ /\ ~podsUp /\ tries = 0 /\ Goto("rescue")
        /\ UNCHANGED <<todo, outcome, playVars, clusterVars, olmVars, catalogVars>>

\* Mutant: the subscription is patched with the approval of the installation.
PatchWithInitial ==
  /\ pc = "patch"
  /\ sub' = [sub EXCEPT ![cur] = [approval |-> InitialApproval,
                                  starting |-> target[cur]]]
  /\ End("ok")
  /\ UNCHANGED <<namespace, groups, plans, olmVars, catalogVars>>

PatchSubscription ==
  /\ pc = "patch"
  /\ sub' = [sub EXCEPT ![cur] = [approval |-> Req.approval,
                                  starting |-> target[cur]]]
  /\ End("ok")
  /\ UNCHANGED <<namespace, groups, plans, olmVars, catalogVars>>

\* A call to the API fails: inside the block the rescue takes over, outside it
\* the play stops.
TaskError ==
  /\ pc \notin {"idle", "package", "rescue"}
  /\ IF pc \in Block
     THEN Goto("rescue") /\ UNCHANGED <<todo, outcome, playVars>>
     ELSE End("failed")
  /\ UNCHANGED <<clusterVars, olmVars, catalogVars>>

\* The rescue only gathers information, and fails.
Rescue ==
  /\ pc = "rescue" /\ End("failed")
  /\ UNCHANGED <<clusterVars, olmVars, catalogVars>>

Tasks ==
  \/ WaitCatalog \/ GetPackage \/ CreateGroup \/ Subscribe \/ WaitPlan
  \/ Approve \/ ApprovedAll \/ WaitCsv \/ WaitPods \/ PatchSubscription
  \/ Rescue

Role == Tasks \/ TaskError

-----------------------------------------------------------------------------
(* OLM and the catalogs.                                                   *)

\* What the namespace lacks: the starting CSV of a new subscription, or one of
\* the versions above the installed one.
Candidates(o) ==
  IF installed[o] = 0 THEN {sub[o].starting} ELSE installed[o] + 1 .. head[o]

Resolve ==
  /\ ready /\ Cardinality(groups) = 1
  /\ \E choice \in [Subscribed -> 0 .. MaxVersion] :
       LET need == {<<o, choice[o]>> : o \in {p \in Subscribed : choice[p] > 0}}
           auto == \A o \in Subscribed : sub[o].approval = "Automatic"
       IN /\ \A o \in Subscribed :
               choice[o] \in IF Candidates(o) = {} THEN {0} ELSE Candidates(o)
          /\ need # {}
          /\ \A p \in plans : p.csvs # need
          /\ plans' = plans \cup {[csvs |-> need, approved |-> auto,
                                   auto |-> auto, done |-> FALSE]}
  /\ UNCHANGED <<pc, todo, tries, outcome, playVars, namespace, groups, sub, olmVars, catalogVars>>

\* A bundle holds one version of an operator; an older one changes nothing.
Newest(old, o, b) ==
  IF \E v \in Versions : <<o, v>> \in b /\ v > old
  THEN CHOOSE v \in Versions : <<o, v>> \in b /\ v > old
  ELSE old

\* An approved plan is executed; an operator never goes back.
Execute ==
  /\ \E p \in plans :
       /\ p.approved /\ ~p.done
       /\ plans' = (plans \ {p}) \cup {[p EXCEPT !.done = TRUE]}
       /\ installed' = [o \in Operators |-> Newest(installed[o], o, p.csvs)]
       /\ phase' = [o \in Operators |->
                      IF Newest(installed[o], o, p.csvs) # installed[o]
                      THEN "Installing" ELSE phase[o]]
  /\ podsUp' = FALSE
  /\ UNCHANGED <<pc, todo, tries, outcome, playVars, namespace, groups, sub, catalogVars>>

CsvSettles ==
  /\ \E o \in Operators, ph \in {"Succeeded", "Failed"} :
       /\ phase[o] = "Installing"
       /\ phase' = [phase EXCEPT ![o] = ph]
  /\ UNCHANGED <<pc, todo, tries, outcome, playVars, clusterVars, installed, podsUp, catalogVars>>

PodsStart ==
  /\ ~podsUp /\ podsUp' = TRUE
  /\ UNCHANGED <<pc, todo, tries, outcome, playVars, clusterVars, installed, phase, catalogVars>>

CatalogFlips ==
  /\ ready' = ~ready
  /\ UNCHANGED <<pc, todo, tries, outcome, playVars, clusterVars, olmVars, head>>

Publish ==
  /\ \E o \in Operators : head[o] < MaxVersion /\ head' = [head EXCEPT ![o] = @ + 1]
  /\ UNCHANGED <<pc, todo, tries, outcome, playVars, clusterVars, olmVars, ready>>

Environment ==
  Resolve \/ Execute \/ CsvSettles \/ PodsStart \/ CatalogFlips \/ Publish

-----------------------------------------------------------------------------
\* The play is over when its includes are used up; the cluster goes on.
Next == (\E r \in Requests : Begin(r)) \/ Role \/ Environment

Spec == Init /\ [][Next]_vars

\* Ansible runs the tasks of a play one after the other and never idles in one;
\* that a task fails is not counted on, and nothing is assumed of OLM or of the
\* catalogs.
FairSpec == Spec /\ WF_vars(Tasks)

-----------------------------------------------------------------------------
(* Properties.                                                             *)

\* From the end of a successful include that asked for Manual approval until the
\* next include for that operator, OLM approves no InstallPlan of the namespace
\* on its own.  That holds although the version was perhaps pinned and installed
\* with automatic approval, and although the include of another operator may have
\* failed between "Create subscription" and "Patch subscription" and left that
\* operator's subscription Automatic: OLM resolves the namespace as one.
ManualHolds ==
  [][\A o \in Operators :
       outcome[o] = "ok" /\ last[o].approval = "Manual" =>
         \A p \in plans' : p.auto => \E q \in plans : q.auto /\ q.csvs = p.csvs]_vars

\* An approved InstallPlan holds the CSV that was asked for.
ApprovedFor(o) == \E p \in plans : p.approved /\ <<o, target[o]>> \in p.csvs

\* A successful include leaves an approved InstallPlan with the target CSV, and
\* when it validated the install, at least that version is installed: the
\* approval loop worked on a list in which the CSV really was.
OkMeansApproved ==
  \A o \in Operators : outcome[o] = "ok" =>
    /\ ApprovedFor(o)
    /\ last[o].validate => installed[o] >= target[o]

\* After a successful include the subscription is the one that was asked for.
AskedApproval ==
  \A o \in Operators :
    outcome[o] = "ok" => sub[o] # None /\ sub[o].approval = last[o].approval

\* What makes OkMeansApproved inductive.
PlayInv ==
  \* The include under way is the only one that runs.
  /\ pc # "idle" => outcome[cur] = "running"
  \* What is still to approve holds the target CSV, and stems from a plan.
  /\ pc = "approve" => \A b \in todo : Csv \in b /\ \E p \in plans : p.csvs = b
  /\ pc = "approve" => todo # {} \/ ApprovedFor(cur)
  \* Past the loop there is an approved plan, past the waits the CSV.
  /\ pc \in {"csv", "pods", "patch"} => ApprovedFor(cur)
  /\ pc = "pods" \/ (pc = "patch" /\ Req.validate) => installed[cur] >= target[cur]

IInv == TypeOK /\ PlayInv /\ AskedApproval /\ OkMeansApproved

\* When the play asks for Manual approval everywhere and pins nothing, OLM never
\* approves an InstallPlan on its own, whichever operators share the namespace
\* and at whatever task an include failed: nothing is installed unasked.
ManualMeansAsked ==
  (\A r \in Requests : r.approval = "Manual" /\ r.pin = 0) =>
    \A p \in plans : ~p.auto

\* Every include ends, whatever OLM and the catalogs do: all waits are bounded.
EveryIncludeEnds == \A o \in Operators : outcome[o] = "running" ~> outcome[o] # "running"

\* The role and OLM together implement the abstract life cycle: what gets
\* deployed was granted, and what the role granted contains the CSV it wants.
Lifecycle == INSTANCE OperatorLifecycle WITH
  mode <- [o \in Operators |-> IF sub[o] = None THEN "absent" ELSE sub[o].approval],
  wanted <- target,
  granted <- {p.csvs : p \in {q \in plans : q.approved}},
  deployed <- installed

ImplementsLifecycle == Lifecycle!Spec

=============================================================================
