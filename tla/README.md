# Verification of the collection redhatci.ocp

TLA+ models of the parts of the collection that keep state while something else
changes it: the roles that install operators, run and move workloads and remove
nodes on a live cluster, the module that configures NetworkManager, the script
that queues tests for a merge, and the algorithms whose loops are easy to get
wrong. `PROJECT.json` lists the runs, which source
lines each definition models, the hazards and what covers them.

Run a model with `tlc -config X.cfg M` and the proofs about a module M with
`tlapm MProofs.tla`; those about DeprecatedApi and JunitReports, the filters, are
together in `FilterProofs.tla`. Every component that is modelled is proved about, and
every safety property the passing runs check is a theorem.

## 1. The system

The repository is an Ansible collection: about a hundred roles, a few modules and
filters in Python, and scripts. A role is a sequence of tasks. What it keeps
between two tasks are facts (variables of the play, which survive from role to
role) and the resources it has created on a cluster or a host. Ansible runs one
task at a time; everything that runs at the same time is on the other side:
OLM, catalogs, the Kubernetes scheduler and controllers, NetworkManager, other
users of the host, background jobs (`async`).

So the hard behaviour has a common shape. A task reads (a list of InstallPlans, a
pod and its node, a list of connections), the world moves, and a later task uses
what was read. Waits poll a bounded number of times and give up. A task that
fails stops the sequence wherever it is, and what earlier tasks did stays.

| Component | State it keeps | Operations | Interacts with | What makes it correct | Here |
|---|---|---|---|---|---|
| `roles/olm_operator` | Namespace, OperatorGroup, Subscription, approvals of InstallPlans; facts for package, CSV, plans | one include per operator: wait for catalog, find package, subscribe, approve, validate, patch | OLM, catalogs, other includes in the same namespace | only what was asked for is approved; the approval mode asked for is the one left; every include ends | modelled, proved |
| `plugins/modules/nmcli.py` | connection profiles | create, modify, delete, up, down; check mode | NetworkManager, other users of it | the stated state is reached and truthfully reported; a second run changes nothing more; no second connection of a name | modelled, proved |
| `roles/example_cnf_deploy`, migration tests | facts for old and new pod and node; cordons; a drain in the background | drain or delete the pod, wait for a new one, compare | controller, scheduler | a pass means the workload moved; nodes are given back | modelled, proved |
| `roles/example_cnf_deploy`, deployment and TRex jobs | facts on jobs that no action resets; TRexApps and their events | install operators, run jobs, retry, drain, validate | `olm_operator`, migration tests, the jobs' operator | an action that ends well has judged its own job; what a fact excuses was asked for or did happen | TRex jobs modelled, proved; `trex/job.yml` not |
| `plugins/modules/packet_missing.py` | list walked and deleted from | pair losses and recoveries | events of the traffic generator | outages listed are the ones that were | modelled, proved |
| `plugins/filter/ocp_compatibility.py`, `roles/deprecated_api` | APIs carried from version to version; the limit over namespaces | filter loop, loop over namespaces | API request counts | a version marked compatible is; the limit holds for all namespaces | modelled, proved |
| `roles/preflight` | certification project ids in facts; async containers | annotation checks, certification | `deprecated_api`, Pyxis | what passes the version check is compatible | version check only, proved |
| `roles/junit2json`, `roles/verify_tests` and their filters | XML and JSON reports in folders, the global list of reports | expand, merge, convert; read, parse, compare | each other, through folders and facts; test tools | what is listed is there and tells every case; the verdict on expected results is exact | modelled, proved |
| `hack/dci-merge.sh` | counters and queues of the script; the status of the commit | read descriptions, decide, queue, post | GitHub, dci-queue, the queued jobs | untested only for a reason; what is asked is queued once | modelled, proved |
| `roles/ocp_remove_nodes` | annotations of Machines, replicas of a MachineSet, hosts | annotate, reduce, wait, delete hosts | machine controllers, other users and earlier runs | the asked nodes go, and no other | modelled, proved |
| `get_compatible_rhocp_repo` | none | one descending loop | dnf | the latest repository | planned |
| `roles/vendors`, `boot_iso`, `boot_disk` | BMC boot device, virtual media, power | per-vendor boot sequences | BMC | the node boots from what was asked for, once | planned |
| `etcd_data`, `approve_csrs`, `sriov_config`, `apply_nmstate`, `check_resource` | MachineConfigPools, nodes, CSRs | day-2 operations | controllers | no stale "Updated" is taken for the end of a roll-out | planned |
| installers, ACM, Hypershift, ZTP | clusters and their resources | long sequences of create and wait | installers, hub | | not modelled, monitor of the agent-based installer planned |
| mirroring, registries, libvirt, PXE, BMC emulators, certification tools | files, containers, VMs | calls of external tools | | | not modelled: I/O with a retry each |

## 2. Modules

```
OperatorLifecycle          what installing operators promises
      ^ implemented by
OlmOperator  <- MCOlmOperator        (TLC instances)
      ^------- OlmOperatorProofs     (TLAPS)
Nmcli        <- MCNmcli
      ^------- NmcliProofs
CnfMigration
      ^------- CnfMigrationProofs
CnfJobs
      ^------- CnfJobsProofs
MergeQueue
      ^------- MergeQueueProofs
NodeRemoval  <- MCNodeRemoval
      ^------- NodeRemovalProofs
PacketMissing
      ^------- PacketMissingProofs
JunitReports <- MCJunitReports
DeprecatedApi
      ^------- FilterProofs          (of both)
```

A module without an MC module takes all its constants from its `.cfg`.

Conventions. One action stands for one task (or one D-Bus listing, one command,
one loop iteration), so that the world can move between any two of them. `Goto`
goes on to a task and gives a wait its attempts; `Retry` is one attempt that
found nothing. `TaskError` is a call to the API that fails. Values of `pc` are
named after the tasks. The map in `PROJECT.json` marks as external the actions of
OLM, Kubernetes and NetworkManager: they do whatever the tasks of the role
have to cope with, and never more than the tasks could see. Operators that begin
with the comment "Mutant:" are wrong versions of the definition that follows;
substituting one breaks a named property, which shows that the property depends
on that line of the code. Variables marked "History" record what happened for
the properties; no guard reads them. Each module has a `TypeOK`; runs check those
of OlmOperator and CnfJobs, and every module of proofs proves its own
(`TypeCorrect`). In JunitReports, which is proved about together with DeprecatedApi,
the names that both would have begin with JR (`JRTypeOK`, `ReportsTyped`).

### OlmOperator and OperatorLifecycle

`roles/olm_operator/tasks/main.yml`, all of it, included several times into one
namespace as `example_cnf_deploy/tasks/deploy/sub.yml` does.

* State of the play: `pc`, the operator `cur` being installed, its parameters
  `last`, its `operator_csv` (`target`), the items `todo` of the approval loop
  (fixed by the last attempt of the wait, lines 146-175), `tries`, `outcome`.
* State of the cluster: `namespace`, `groups`, `sub`, `plans`, `installed`,
  `phase`, `podsUp`, `ready`, `head` of the channel.
* A CSV is a pair of operator and version. A manifest fixes the target:
  `starting_csv` if given, the head of the channel if not.
* `InitialApproval` is `_oo_approval` (line 124): a pinned version is subscribed
  with Automatic approval, and patched to what was asked for by the last task.
* The block of lines 97-227 has a rescue that gathers information and fails.
* `Resolve` is OLM: all subscriptions of a namespace, and one OperatorGroup,
  are resolved into one InstallPlan, approved at once only if all are automatic.
  So a plan may hold CSVs of operators other than the one being installed.

`OperatorLifecycle` says the same without tasks: `mode`, `wanted`, `granted`,
`deployed`. A bundle may be deployed only if granted, and is granted for one of
two reasons: somebody wants one of its CSVs, or all subscriptions are automatic.
The mapping takes `wanted` from the targets, `granted` from the approved plans.

### Nmcli

`plugins/modules/nmcli.py`: `main`, the look-up, and create, modify, remove, up
and down. Each listing and each command is a step; a command may fail, and then
does nothing. Command lines are abstracted to the groups of options that are
treated alike (`CreateOptions`, `ModifyOptions`, `Complete`, `Follow` are tables
read off the functions of each type). A profile keeps id, uuid, type and options.
The return code handling is kept as it is: after an add only the result of the
last command counts. Somebody else may add or delete connections at any time.

### CnfMigration

`tasks/draining.yml` with its three files, and `tasks/validate/pod-delete.yml`.
Facts (`oldPod`, `oldNode`, `newPod`, `newNode`, `listed`) are set by one task and
used by later ones. The cluster recreates the pod, schedules it on any node that
is not cordoned, removes running pods for reasons of its own, and keeps
terminating pods in the listings, still in phase Running. The drain is started
with `poll: 0` and evicts in the background until it is done or killed.

### CnfJobs

`roles/example_cnf_deploy` once its operators are there: a play calls the role
with `deploy`, `deploy_extra_trex`, `validate` and `draining` in any order, and
goes on after an action that failed.

* The facts that survive: `continuous`, `skip`, `app`, `runPassed`,
  `jobFailed`, `migrate`, `duration`, `name`. No action resets them, and each
  changes what later actions look at. `Enter`, `Conclude`, `Decide` and
  `DrainVerdict` set them; `result` is the last listing, `None` when its task
  was skipped.
* A caller of the extra job and of the drain gives a name (`Extra`) or leaves the
  fact; the other settings are those of the play (`Settings`). Whether a deployment
  waits for its additional tests (`ecd_trex_tests_wait`) is left open (`CountProfiles`),
  and the deletion test may be switched off (`delete`, `ecd_validate_pod_delete`).
* `Apply` is what the template means to a TRexApp that is there already: its
  spec is patched, and the job that ran under that name stays the only one.
* The operator starts the job, and events come in the order they are emitted, at
  any time or never. `EventsExpire`: the cluster forgets them; `Seen` is what is
  left.
* `trex/tests.yml` waits for as many TestCompleted events as there are jobs with a
  duration, whosever they are (`AwaitProfiles`). A job that completes although it
  has no duration is counted too, so of a single job the end of this wait says nothing.
* Moving the pod is the module CnfMigration and one step here (`PodDelete`,
  `Drain`).

### JunitReports

The roles `junit2json` and `verify_tests` with their filters, run in any order by
a play that goes on after failures. `xml`, `json` and `dirs` are the disk, `list`
is `global_json_reports_list`. `Convert` to `WriteReport` are the tasks of
`junit2json`; `Verify` to `ParseJunitFile` those of `verify_tests`. The filters are
operators on reports, sequences of suites of cases: `Junit2obj`, `Junit2dict`,
`RegexDiff`. A regular expression is the set of the names it is found in. The
differences `RegexDiff` finds are a set, for the role only asks whether there are
any. The status of a result is whatever a tool wrote as its type or at the start of
its message; that no tool writes "passed" there for a failure is an assumption
(`StatusAssumption`), and without it the JSON report would call a failed case passed.

### MergeQueue

All of `hack/dci-merge.sh`. `ReadPR` is a round of the loop over the pull
requests, `CheckChange` the two early verdicts, `CopyChange` the copy of the
sources, `Schedule` one `dci-queue`, `Conclude` the end. Requests to GitHub may be
lost: a description that is not fetched is an empty one, a status that is not
delivered is noticed by nobody. Jobs end whenever they like, and post their
verdict on the same commit (`JobEnds`). The commands are queued in the order of
the script: all of the first queue, then the second.

### NodeRemoval

All of `roles/ocp_remove_nodes`, run several times with any worker nodes. `todo` is the
list of machines the loop works on, `kept` the number of its skipped rounds,
which becomes the number of replicas of the first MachineSet (`Reduce`) and the
number of machines to wait for. The cluster's side: `ScaleDown` prefers
annotated machines, `ScaleUp` and `Provision` make new ones on free hosts,
`Vanish` takes as long as it likes; `Other` is somebody who scales a set or
replaces a machine.

### PacketMissing

`get_missing_list` of `plugins/modules/packet_missing.py`, one iteration a step.
Positions are counted before the loop and the list shrinks inside it; Python's
`IndexError` is the action `PastTheEnd`. Events of one instant are sorted as
`sorted(matched + dropped)` does, recoveries first.

### DeprecatedApi

`ocp_compatibility` one iteration a step, inside the loop of
`roles/deprecated_api` over namespaces, and the comparison
`roles/preflight/tasks/test_validate_annotations.yml` makes with the result.
Version 4.n is the number n; `StrLeq` is the comparison of the strings, `<` on
limits that of `version(...)` in the role. The fact `da_max_compatible_ocp_version`
survives from one run of the role to the next.

## 3. Runs

| Run | What it asks | Size |
|---|---|---|
| `olm_shared` | Two operators; default, pinned and automatic includes. Approvals, what a manual include protects from, refinement | 1.2 million states |
| `olm_manual` | Only manual includes, with one or two OperatorGroups: is anything approved unasked; does every include end | 0.6 million |
| `nmcli` | Eleven kinds of call, check mode included, three runs, one change by somebody else | 0.56 million |
| `cnf_migration` | Two tests in any order on three workers | 1.0 million |
| `cnf_jobs` | Plays of three actions, default settings or one of them changed | 0.7 million, two minutes |
| `junit` | Two runs of the two roles in any order over two inputs, six sets of files left by tests | 1.6 million |
| `merge_queue` | Two pull requests with any hints and up to two tests each | 0.16 million |
| `merge_baremetal` | Is a documented test run when it is asked for (no) | small |
| `node_removal` | Two runs of the role, four machines, three hosts, two MachineSets, one change by somebody else | 0.8 million after symmetry |
| `packets` | Every list of up to six events in six ticks | 0.11 million |
| `packets_raise` | Does the loop stay in the list (no) | small |
| `deprecated` | Two APIs, four removing releases, four cluster versions on both sides of 4.10, two runs of the role, an upgrade between | 25 thousand |

### What the passing runs show

* **OkMeansApproved.** Whatever plans OLM makes, replaces and completes between the
  wait and the approvals, a successful include has an approved plan with its CSV,
  and that version or a later one if it validated.
* **ManualHolds.** From the end of a successful include that asked for Manual
  approval to the next include for that operator OLM approves no plan of the
  namespace by itself, although the version may have been pinned, hence installed
  with automatic approval, and although includes of other operators may fail
  and leave their subscriptions Automatic. What a failed include leaves to its own
  operator is not promised (see below).
* **ManualMeansAsked.** If all includes are manual and none pins a version, OLM
  approves nothing by itself, even when includes fail half-way.
* **ImplementsLifecycle.** Plans approved by the role are plans for something
  wanted, although they may carry other operators as well.
* **StatedStateReached, UnchangedIsUntouched, CheckModeForesees.** An undisturbed
  run of `nmcli` that says ok has reached its state; one that says unchanged, or
  is in check mode, has touched nothing; check mode announces every change.
* **SecondRunConverges.** One run may leave `dns` or `mtu` out, because results
  after the add are dropped; two successful runs in a row do not.
* **OneConnectionPerName.** Without somebody else, and without `id`, no two
  connections have the same name, whatever commands fail. (The look-up and the
  add are not atomic: with somebody else there may be two.)
* **PassMeansMoved.** A passed migration test has seen its pod go, and the pod in its
  facts is another one, on another node. After the deletion it is one that was not
  there when the test began, also when the facts of an earlier test are still
  set. For draining it may be one that was there, even one about to go (see below).
  **CordonsOnlyByFailures**: at most one node is lost for
  each failed test, none otherwise. **NoEvictionAfterPass**: the drain left in the
  background has nothing more to evict when the draining test passes, if its new
  pod still runs; the comparison of nodes is what ensures it.
* **OkMeansPassed.** A deployment or extra job that ends well had its own job run
  to the end, pass, and get packets back; the excuses are the facts `skip`, `app`
  and `continuous`. **FactsHaveCauses** says where those come from: the play's
  settings, or an action that ran before (a duration of -1 excuses all later jobs
  as well). **DrainVouchesForTraffic**: a drain that ends well saw packets of its
  job, or some job drained in this play failed; that failure stays
  an excuse. **ValidationTests**: in an automated play a validation that ends well
  has seen packets of some job, and has run the deletion test unless its author
  switched that off; or tests are off, and only a validation that found no packets, in
  a play that skips failures, turns them off.
* **RunConverts, ListedIsWritten, FailsForCause.** A conversion that ends well has
  told every case of every input, but for inputs of one name from two folders;
  a path in the list that leads nowhere comes from a report that could not be
  converted (it is listed before that); nothing an earlier run leaves makes a later one fail.
  **VerdictIsExact**: `verify_tests` passes exactly when all expectations are met
  in all reports they name, and a merged report in the same folder does not
  change that.
* **PassesForReason, AskedIsQueued, StopIsSilent.** A commit passes untested only
  when no code changes, everybody read says no-check, or nobody read asks for a
  test; what is asked for is queued once; a script that stops says nothing.
  A description that was not fetched counts as one that asks for nothing.
* **UnaskedSurvive.** In a first run no more machines of other nodes go than
  somebody else has made changes, although the number of replicas is from an
  old list; without changes and with one MachineSet none goes in a second run
  either. **UndisturbedIsExact**: an undisturbed first run that ends well has
  removed its nodes and hosts and nothing else; with machines in several sets
  it fails rather than delete a host in use.
* **ListedWereOutages, AlternatingIsExact, NoWarningIsExact.** Outages are not
  invented; lists that alternate, and results without a warning, are exact.
* **CompatibleIsExact.** Although APIs are forgotten on the way, the versions
  marked compatible are exactly those with nothing removed up to them.
  **LimitIsSound** over namespaces and runs, **LimitIsHighest**: it is not
  lower than something in use, now or in an earlier run, makes it,
  **AcceptedIsCompatible** for what preflight lets pass. None of them
  says anything of the empty list the filter returns on a 4.9 cluster, nor that
  preflight accepts all it could.
* **EveryIncludeEnds, TestEnds, ActionEnds, FilterReturns.** Nothing waits forever.

### Findings

Each is a run in which TLC finds a documented statement violated.

1. `packets_raise` (packet_missing.py:102): after a deletion the loop steps past
   the end of the list, and the module dies without the message it documents.
2. `merge_baremetal` (dci-merge.sh:85): CONTRIBUTING.md documents
   `TestBos2SnoBaremetal`, the script looks for `TestBos2Baremetal`; a commit that
   asks for the documented test passes with "No test specified".

Met while modelling, in the models but without a run of their own:

* `InitialApproval`: a pinned version is installed with automatic approval until
  the last task, and OLM may upgrade it before the include ends. `GetPackage`: a
  failed listing of manifests counts as an absent package.
* `connection_exists` matches names against uuids and types too
  (`ConnectionExists`); modifying a connection with `id` renames it, the second
  look-up by the old name misses it and a duplicate is created; `mtu` of an
  existing team is not modified (`ModifyOptions`).
* If a pinned include fails before its last task, its subscription stays Automatic
  (`Rescue` changes nothing), and OLM upgrades that operator, alone in its namespace,
  although the caller asked for Manual.
* The draining test "confirms that a new testpmd-app pod has been created"
  (testpmd-validation.yml:52), but compares names and nodes only. Its
  wait takes the first pod of the list, which may have been there before:
  a pod an earlier drain moved, terminating while its replacement already runs on
  the first node, passes for new (`WaitNewFirst`; `PassMeansMoved` is silent there).
* `ecd_try_running_migration_tests` is "always to try to run the migration test,
  unless TRex job failed before" (the role's README.md:65). One validation that finds
  no packets yet turns it off for good, and later ones end well without a test though
  packets are back (`Decide`).
* `ecd_trex_tests_wait` is to "wait until the end of the profile duration"
  (README.md:61), but completions are only counted: those of jobs without a duration
  stand in for those with one, which may still run (`AwaitProfiles`).
* A job is judged by events found by its name (`Seen`): those of an earlier job of
  that name, which the template patches rather than restarts, count for a later action.
* After a repeated recovery the loop of PacketMissing steps over the next outage;
  a last recovery is listed as an open outage (`LastEvent`).
* With three removing releases the APIs of the first are missing from the third;
  a declared range that ends with the highest compatible version is refused; on
  4.9 the comparison of strings gives an empty list (`StrLeq`, `Limit`).
* The copy of a merged report creates no folder (merge.yml:23), which
  convert.yml does later: a merged run into a new folder fails (`CannotWrite`).
* With machines in several MachineSets the first set gets the number of all,
  so a second run, finding more replicas than machines, may delete machines
  nobody asked for; with one set a third run may, after two failures.
  A second run after a time-out may count right by accident, end well, and
  delete a host whose machine still runs.
* "QUEUED" is posted last and may cover the verdict of a job that has ended
  already (`Conclude` after `JobEnds`).

### Bounds, and why they are enough

* Attempts of a wait are 0 or 1 instead of 3 to 120. The world may move any
  number of steps between two attempts, so a further attempt only repeats one;
  both ways out of a wait, and one more attempt, occur.
* Two operators: an include and its neighbour in the namespace. Two versions:
  installed and newer. Two includes: the first may leave anything behind for
  the second.
* `nmcli`: three runs are needed for two undisturbed ones after any other; four
  uuids: one profile of each of the three names and one the other user adds. Names are "eth0",
  "br-ex" and "bridge", which is also the type of "br-ex", so that the look-up of "bridge"
  finds the other connection by its type.
* Migration: three workers (README of the role: one is the traffic generator's),
  three pods: one replaced on the same node before the cordon still leaves
  one to move to.
* Jobs: an action, one that inherits its facts, and one that inherits from both;
  four names: a deployment's, an extra one, a profile with and one without a
  duration. A play differs from the defaults in one setting; two together
  would add plays that excuse more, which is where the properties say less.
* Reports: two runs are any role after any; two inputs and two entries are the
  first and the last of a loop. The reports have the outcomes that the filters
  treat differently, in one and two suites.
* Merge: two pull requests, one with a hint and one without; two tests of one
  make both a queue of two and two queues. The proofs drop this bound.
* Nodes: three hosts, one to remove, one to keep and one free; a
  fourth machine name for a replacement. Names are symmetric: no action or property
  singles one out.
* Packets: six events allow for a regular pair on either side of every
  irregularity; half seconds because durations are truncated to seconds.
* Versions go up to 99 (`MaxMinor`), as the filter's do when the maximum is a
  one-digit version and the current one has two digits.

`CHECK_DEADLOCK FALSE` is set for `packets*` and `deprecated`, programs that
end, and for `node_removal`, where after the last run the controllers come to
rest. The others stutter explicitly (`Done`, `AllOver`) or never stop, because the
cluster does not.

### Fairness

`WF_vars(Tasks)` in the roles: Ansible starts the next task when one returns, and
each attempt of a wait is followed by the next or by giving up. `TaskError` is left
out: termination must not rest on something failing. In CnfJobs `Tasks` are those of
the role in an action; whether a play has a next action is left open, as are all
events of the jobs. `WF_vars(Next)` for the filter and the loop around it, a single
program that waits for nobody. No fairness is assumed of OLM, catalogs, Kubernetes,
NetworkManager or other users.

## 4. Proofs

`OlmOperatorProofs` is checked by TLAPS to the last leaf, for any set of
operators, number of versions, set of includes, attempts and length of the play.
Assumptions are those named in `OlmOperator`: at least one version; None is
neither an operator nor a subscription; attempts are naturals; includes are
records of the parameters of the role.

* `TypeCorrect`: `Spec => []TypeOK`. Besides types it says that `cur` is set
  exactly while an include runs, and that a target is known inside the block.
* `OkGuarantees`: `Spec => []OkMeansApproved`. It is not inductive: it speaks of
  includes that have ended, and its truth is decided tasks earlier. `PlayInv` adds
  what the tasks rely on meanwhile: the items still to approve hold the target CSV
  and belong to plans that exist; an item approved leaves an approved plan; past the
  loop that plan is there; past the wait for the CSV the version is installed.
  `AskedApproval`: the subscription of a successful include has the approval mode
  asked for, also while others run. `IInv` is the conjunction, and TLC was used to
  check it on the instance of `olm_manual`. The lemmas `PlansGrow`, `InstalledGrows`
  and `ApprovedForStays` say that the steps of OLM and of later includes take none
  of it back: bundles, approvals and installed versions only grow.
* `ManualProtects`: `Spec => ManualHolds`, from `AskedApproval`: a plan is automatic
  only if all subscriptions are, and the one of the successful include is not.
* `NothingUnasked`: `Spec => []ManualMeansAsked`. The invariant `ManualInv` adds
  that all subscriptions are manual, also between the first installation and the
  patch; a plan is made for at least one subscription, so it is not automatic.
* `Refinement`: `Spec => ImplementsLifecycle`. Each action is a step of
  `OperatorLifecycle` or a stutter: `Begin` and `GetPackage` are `Want`,
  `Subscribe` and `PatchSubscription` are `SetMode`, `Approve` is `Grant` (by
  `PlayInv` the bundle holds the target), `Resolve` is `AutoGrant` when all
  are automatic, `Execute` is `Deploy`.

`MergeQueueProofs` is checked likewise, for any number of pull requests, any hints
the lab lets pass and any number of tests. Assumptions are those named in
`MergeQueue`: the number of pull requests is a natural, and the lab supports no
other hints than the two.

* `Invariance`: `Spec => []IInv`, the conjunction of types and three parts, each
  with a lemma for its step. `ReadInv`: while pull requests are read,
  `noCheck = read` means that all of them said no-check, and no `force` means that
  those who force could not be read. `QueueInv`: what is wanted of the pull
  requests read is in one queue or one job, once, and nothing else is; reading
  appends to a queue (`ReadPRQueues`), scheduling moves its head to the jobs
  (`LessMembers`, `MoreMembers`). `VerdictInv`: every status the script sends
  has its reason, and is its last act.
* `TypeCorrect`, `NeverPassesUntested`, `QueuesWhatIsAsked` and `StopsInSilence`
  follow from it. None of the properties is inductive: they speak of the end of
  the script, the counters and queues are filled long before.

The other modules of proofs follow the same plan: `Invariance` is `Spec => []IInv`,
proved from `InitInv` or `InitOK` and one lemma for each conjunct of `IInv` and
each action that disturbs it; the theorems follow from it. TLC checked each `IInv`
on the instance of the module's run as well. Hardly a property is inductive by
itself: most speak of the end of a run and are decided tasks earlier.

`CnfMigrationProofs`: any finite set of nodes, any numbers of pods, attempts and
tests. `PodInv`: at most one pod is pending or running, and a pod gets its node once.
`FactsInv`: a pod in the facts was on the node in the facts, and that stays true
although the facts are of an earlier test. `TestInv`: what the tasks have seen so far
(`Arrived`: after a deletion the new pod is one that was not listed; the fact
is always set, for when as many run as were listed and the old one is gone, one of them
is new, `Newcomers`);
`PassedHasMoved` is read off its last line. `EvictInv`: the background drain of a
running test evicts pods of the old node only, so when a new pod runs on another one
it has nothing left to evict (`DrainHasDone`, an action property). `CordonInv` sets the
node of the running test apart: the others that are cordoned are no more than the
failures (`FailuresCordon`).

`CnfJobsProofs`: any number of actions and attempts, any settings; the five names
are what the model distinguishes. That events only grow (`EventsStay`), and that a
listing shows no more than was emitted (`SeenIsEmitted`), are the lemmas everything
rests on. `PlayInv` ties tasks to actions, `JobInv` says what each task knows of its
job (`OkPassed`), `CauseInv` why the facts are set (`FactsCaused`, and from it, with
`MigrateStep` for the steps that turn tests off, the action property
`ValidationsTest`). `DrainVouchesForTraffic` is its own invariant once `CauseInv` is
there (`DrainVouches`).

`NodeRemovalProofs`: any finite set of machines (`MachinesAssumption`), any hosts,
MachineSets, runs and changes. The number of replicas is counted from an old list
while machines come and go, so the invariant keeps accounts. `SurplusInv`: there is
a set of surplus machines such that each set fits its replicas without them, and the
machines lost, the surplus and those the count under way will leave out (`Owed`) are,
taken together, no more than the changes made by others: each is owed to a change
of its own. `UnaskedAreSafe` is that for the machines lost; its second part, on two
undisturbed runs with one set, is `SecondInv`. `QuietInv` and `ReducedInv`
describe an undisturbed first run before and after it reduces the set: either just
the marked machines are too many, or the first set has too few and none goes; the wait
then decides (`UndisturbedRemoves`, with `PulledInv`). The lemmas before them count
sets of machines that gain or lose one.

`FilterProofs`, first part: any APIs, releases, clusters, namespaces and runs of
`deprecated_api`. Versions are numbers below 100 (`VersionsAssumption`).
`DigitsAssumption` is a fact of the releases: from a cluster of one digit no release
of two is later as a string, which is so from 4.8 on and for releases before 4.80;
APIs are counted from 4.9 on. `FilterInv`: the versions passed are in the list, each
marked exactly, and what is carried is empty exactly as long as nothing was removed;
that is why forgetting APIs does no harm (`FilterIsExact`). `LimitInv`: up to the
limit of one namespace nothing is removed, and the version after it removes something.
`FoundInv` carries both over namespaces, runs and upgrades (`SoundLimit`,
`HighestLimit`), and `AcceptedAreCompatible` follows. `StringOrder` and `TwoDigits`
relate the comparison of strings to that of numbers.

`FilterProofs`, second part: `junit2json` and `verify_tests` with any reports the tests
leave, any number of inputs, entries, expected results and roles. Assumptions are that
None and what is no report are neither reports nor "passed" (`NoReports`), the types of
the constants, and `StatusAssumption`. The invariant `ReportsInv` has five parts.

* `FilesInv`: merging makes nothing worse. A merged report is never broken, is truthful
  as those of the tools are, and if it cannot be converted, then neither can a report
  the tests have left.
* `ListInv` says the same of a listed path without a file, hence `ListedAreWritten`.
* `ConvertInv` is the account of a run of `junit2json`: `Expanded` inputs are there and
  in order; a merged report is `Consolidated`, that is, it has the suites of all inputs,
  also when it has just overwritten one of them, the merged report of an earlier run;
  of the `Converted` inputs the last of each name is in its file. `RunsConvert` and
  `FailuresHaveCauses` are its last two conjuncts.
* `VerifyInv`: the entries of `tests_to_verify` gone by are `Verified`, and so are the
  files of the current one but those still to parse. It counts merged reports in, as the
  code does; `VerifiedIs` shows that a merged report of the reports of the folder
  makes no difference (`VerdictsAreExact`).

What the filters compute for all reports rests on `FlattenElements`: a sequence of
sequences, flattened, has their elements and no other. `FlattenSeq` is a fold, defined
by choosing a recursive function. `ChainExists` shows that there is one, `FlattenElements`
follows it along the sequence, and both argue by the least length for which
they would fail (`LeastExists`), which takes the place of an induction. `BadIs`,
`ConvertedTells`, `MergedIs` and `NoDifferences` then say what `Junit2obj`, `Merged` and
`RegexDiff` do, and the rest of the proof uses nothing else of them.

`PacketMissingProofs`: any number of events at any times, any length of a second.
`WalkInv` is the key: however many events were deleted, what the loop has not come to
is the end of the events, shifted by the number of those gone. Hence whatever is
listed is a pair of neighbours (`ListedAreReal`). `ExactInv`: up to the first
warning nothing was deleted in the loop and what is listed is just what counts so far
(`UnwarnedAreExact`). `AlternatingInv`: in lists that alternate each iteration begins
at a loss (`AlternatingAreExact`).

`NmcliProofs`: any requests, names, option values, numbers of runs and of changes by
others. `NamesAssumption` says that names others use are strings. `StageInv` and
`UntouchedInv` say where a run is and that nothing is touched before its first
command; with them `StatedIsReached`, `UnchangedAreUntouched` and `CheckForesees` are
inductive. `SecondConverges` needs `HistoryInv` (what a row of successes says of the
run before), `AgainInv` (a further run with the same parameters finds the
connection, so it modifies) and `ModifiedInv` (what it modified is still there at the
second listing). `OnePerName` holds although commands fail: the add is reached only
when the look-up found nothing.

Only model-checked: liveness (`EveryIncludeEnds`, `TestEnds`, `ActionEnds`,
`FilterReturns`), for which the prover has no rules for fairness here, and the two
properties that do not hold, of which TLC shows a counterexample.

## 5. Not modelled

Contents of resources, templates, logs and JUnit texts; wording of messages;
time other than the times of events. Waits are counted in attempts, not seconds. The
JSON of nmcli and of API request counts is taken as parsed. In `nmcli`, options
of one group are set together. Deleting namespaces, operators and subscriptions
is left out: no task of these roles does it. Limits of the newer models:

* CnfJobs: `trex/job.yml`, which starts profiles as plain Jobs, is left out;
  callers of an include change the name of the job only; an earlier play may
  have left jobs, but only in plays with the default settings.
* JunitReports: reports have the root `testsuites`; times, counters and texts of
  cases are left out; the play runs on the controller, where both roles find their files.
* MergeQueue: command lines of the tests are left out. That jobs post on the
  status the script posts on is taken from the `statuses_url` the script writes
  into `github.json` for them; which hints a lab supports is its own configuration.
* NodeRemoval: a node is called like its host; two MachineSets; machines of
  control planes are not listed by the role and not modelled.

Components that are not modelled are listed with the reason in `PROJECT.json`:
long sequences of templates and shell commands (installers, mirroring, helper
services), where a model would only repeat the order of the tasks, vendored
code, and those planned below.

## 6. Plan

Next modules, in this order:

1. `BareMetalBoot`: boot sequences of `roles/vendors`; abstract specification
   "boots once from the given image".
2. `NodeRollout`: MachineConfigPools in `check_resource`, `sriov_config`,
   `etcd_data`, `apply_nmstate`. Property: a wait does not take the state before
   the change for the one after it.
3. `Preflight`: `cert_project_id` and other facts across operators and
   containers. Property: results go to the project of their container.
4. `CompatibleRepo`: against a reference definition; a failing dnf counts as a
   repository that does not exist.
5. `InstallMonitor`, `StorageTester`, ACM and hosted clusters; `trex/job.yml`.

Proofs to add: for the next modules, their invariants, written with them.
