------------------------------ MODULE CnfJobs ------------------------------
(***************************************************************************)
(* roles/example_cnf_deploy: the TRex jobs a play runs one after another,  *)
(* with the actions deploy, deploy_extra_trex, validate and draining.      *)
(* What an action learns it keeps in facts, and no later action resets     *)
(* them; what a job did is learnt from its events, found by its name.      *)
(*                                                                         *)
(* External: the operator that turns a TRexApp into a job, the events of   *)
(* that job, their expiry.  Moving the pod (CnfMigration) is one step.     *)
(***************************************************************************)
EXTENDS Naturals, Sequences, FiniteSets

CONSTANTS
  App,          \* Name of the job of a deployment ("trex-app").
  Extra,        \* Name a caller gives to an extra job.
  Finite, Unset,  \* Names of the profiles of a test configuration: one has a
                \* duration, the other has none.
  Tries,        \* Attempts of each wait but the first.
  MaxActions,   \* Bound: actions in one play.
  MaxChanges,   \* Bound: settings in which a play differs from the defaults.
  None          \* Undefined.

Names == {App, Extra, Finite, Unset}

ASSUME NamesAssumption == Cardinality(Names \cup {None}) = 5
ASSUME BoundsAssumption == Tries \in Nat /\ MaxActions \in Nat /\ MaxChanges \in Nat

Reasons   == {"TestStarted", "TestCompleted", "TestPassed", "TestFailed", "PacketMatched"}
Verdicts  == {"TestPassed", "TestFailed"}
Durations == {"finite", "endless"}   \* "endless" is -1, continuous burst mode.

\* Variables of the play that its author sets: ecd_trex_duration,
\* ecd_trex_continuous_mode, ecd_trex_tests_skip_failures, ecd_run_deployment = 1,
\* ecd_enable_trex_app, ecd_trex_test_config, ecd_validate_pod_delete.
Settings == [duration: Durations, continuous: BOOLEAN, skip: BOOLEAN,
             deployment: BOOLEAN, app: BOOLEAN, tests: {<<>>, <<Unset, Finite>>},
             delete: BOOLEAN]

Defaults == [duration |-> "finite", continuous |-> FALSE, skip |-> FALSE,
             deployment |-> TRUE, app |-> TRUE, tests |-> <<>>,
             delete |-> TRUE]

\* Plays that leave all but MaxChanges of them alone.
Plays == {p \in Settings : Cardinality({v \in DOMAIN p : p[v] # Defaults[v]}) <= MaxChanges}

VARIABLES
  play,      \* The settings of the play.
  pc,        \* Next task, "idle" between actions.
  action,    \* The action that runs, or the last one.
  tries,     \* Attempts left of the current wait.
  outcome,   \* How the last action ended.
  actions,   \* Actions started.
  name,      \* Fact ecd_trex_app_cr_name.
  job,       \* The name this action uses: the caller's, or the fact.
  duration,  \* Fact ecd_trex_duration.
  continuous, skip, app,  \* Facts of the same names.
  runPassed, \* Fact ecd_trex_app_run_passed.
  jobFailed, \* Fact ecd_trex_job_failed.
  migrate,   \* Fact ecd_try_running_migration_tests.
  result,    \* Fact ecd_trex_result: reasons listed, None if undefined.
  todo,      \* Profiles still to create.
  spec,      \* spec.duration of each TRexApp: "absent", "unset" or a duration.
  load,      \* What the job of each TRexApp was started with.
  emitted,   \* Events of each job.
  expired,   \* Jobs whose events the cluster has dropped.
  drained    \* History: jobs the draining action has judged.

facts   == <<name, duration, continuous, skip, app, runPassed, jobFailed, migrate, result>>
cluster == <<spec, load, emitted, expired>>
control == <<pc, action, tries, outcome, actions, job, todo>>
vars == <<play, control, facts, cluster, drained>>

TypeOK ==
  /\ play \in Settings
  /\ pc \in {"idle", "create", "started", "completed", "verdict", "judge", "matched",
             "conclude", "profiles", "await", "decide", "v_matched", "delete",
             "enter", "move", "retrieve", "d_completed", "d_verdict", "d_matched"}
  /\ action \in {"none", "deploy", "extra", "validate", "draining"}
  /\ tries \in 0 .. Tries /\ actions \in 0 .. MaxActions
  /\ outcome \in {"none", "running", "ok", "failed"}
  /\ name \in Names /\ job \in Names
  /\ duration \in Durations /\ continuous \in BOOLEAN /\ skip \in BOOLEAN
  /\ app \in BOOLEAN /\ runPassed \in BOOLEAN /\ jobFailed \in BOOLEAN
  /\ migrate \in BOOLEAN /\ result \in (SUBSET Reasons) \cup {None}
  /\ todo \in {<<>>, <<Finite>>, <<Unset, Finite>>}
  /\ spec \in [Names -> Durations \cup {"absent", "unset"}]
  /\ load \in [Names -> Durations \cup {"absent", "unset"}]
  /\ emitted \in [Names -> SUBSET Reasons]
  /\ expired \subseteq Names /\ drained \subseteq Names

\* An earlier play may have left jobs.
Init ==
  /\ play \in Plays
  /\ pc = "idle" /\ action = "none" /\ tries = 0 /\ outcome = "none" /\ actions = 0
  /\ name = App /\ job = App /\ todo = <<>>
  /\ duration = play.duration /\ continuous = play.continuous
  /\ skip = play.skip /\ app = play.app
  /\ runPassed = FALSE /\ jobFailed = FALSE /\ migrate = TRUE /\ result = None
  /\ \E before \in {{}} \cup {b \in {{App, Extra}} : play = Defaults} :
       spec = [n \in Names |-> IF n \in before THEN "finite" ELSE "absent"]
  /\ load = spec
  /\ emitted = [n \in Names |-> {}] /\ expired = {} /\ drained = {}

\* What a listing of the events of job n shows.
Seen(n) == IF n \in expired THEN {} ELSE emitted[n]
Shows(reason) == {n \in Names : reason \in Seen(n)}

-----------------------------------------------------------------------------
(* Tasks.                                                                  *)

Waits == {"started", "completed", "verdict", "matched", "await", "v_matched",
          "d_completed", "d_verdict", "d_matched"}

\* TestStarted is waited for half the duration, and half of -1 rounds to nothing:
\* in continuous burst mode the event is looked for once.
Goto(l) ==
  /\ pc' = l
  /\ tries' = IF l \in Waits /\ ~(l = "started" /\ duration = "endless") THEN Tries ELSE 0
  /\ UNCHANGED outcome

End(how) == pc' = "idle" /\ tries' = 0 /\ outcome' = how

\* Mutant: attempts are not counted.
RetryForever(found) == ~found /\ UNCHANGED <<pc, tries, outcome>>

\* Mutant: the wait never gives up by itself, and its count runs on.
RetryPastZero(found) == ~found /\ tries' = tries - 1 /\ UNCHANGED <<pc, outcome>>

\* One attempt of a wait that does not find what it waits for.
Retry(found) ==
  /\ ~found
  /\ IF tries > 0 THEN tries' = tries - 1 /\ UNCHANGED <<pc, outcome>> ELSE End("failed")

WaitFor(l, found, success) ==
  /\ pc = l
  /\ (found /\ success) \/ Retry(found)

Start(a) ==
  /\ pc = "idle" /\ actions < MaxActions
  /\ action' = a /\ actions' = actions + 1 /\ outcome' = "running" /\ tries' = 0
  /\ job' \in IF a \in {"extra", "draining"} THEN {name, Extra} ELSE {name}
  /\ pc' = CASE a \in {"deploy", "extra"} -> "enter"
             [] a = "validate"            -> "decide"
             [] a = "draining"            -> "move"
  /\ result' = None  \* Not read again before it is set.
  /\ UNCHANGED <<play, todo, name, duration, continuous, skip, app, runPassed, jobFailed,
                 migrate, cluster, drained>>

\* Mutant: failures are skipped, but jobs are still started.
EnterKeepsApp ==
  /\ pc = "enter"
  /\ skip' = (skip \/ (action = "deploy" /\ ~play.deployment))
  /\ continuous' = (continuous \/ duration = "endless")
  /\ Goto(IF app THEN "create" ELSE "conclude")
  /\ UNCHANGED <<play, action, actions, job, todo, name, duration, app, runPassed, jobFailed,
                 migrate, result, cluster, drained>>

\* deploy/app.yml and the head of trex/retry-trex.yml.
Enter ==
  /\ pc = "enter"
  /\ LET manual == action = "deploy" /\ ~play.deployment
     IN  app' = (app /\ ~manual) /\ skip' = (skip \/ manual)
  /\ continuous' = (continuous \/ duration = "endless")
  /\ Goto(IF app' THEN "create" ELSE "conclude")
  /\ UNCHANGED <<play, action, actions, job, todo, name, duration, runPassed, jobFailed,
                 migrate, result, cluster, drained>>

\* A TRexApp that is there already is patched, and no second job is started.
Apply(n, d) ==
  /\ spec' = [spec EXCEPT ![n] = IF d = "unset" /\ @ # "absent" THEN @ ELSE d]
  /\ load' = [load EXCEPT ![n] = IF @ = "absent" THEN d ELSE @]
  /\ UNCHANGED <<emitted, expired>>

fixed == <<play, action, actions, job>>

Create ==
  /\ pc = "create" /\ Goto("started") /\ Apply(job, duration)
  /\ UNCHANGED <<fixed, todo, facts, drained>>

\* A task that is skipped sets its result too: to something without resources.
WaitStarted ==
  /\ WaitFor("started", "TestStarted" \in Seen(job),
             Goto(IF continuous THEN "conclude" ELSE "completed"))
  /\ result' = IF continuous THEN None ELSE result
  /\ UNCHANGED <<fixed, todo, name, duration, continuous, skip, app, runPassed, jobFailed,
                 migrate, cluster, drained>>

WaitCompleted ==
  /\ WaitFor("completed", "TestCompleted" \in Seen(job), Goto("verdict"))
  /\ UNCHANGED <<fixed, todo, facts, cluster, drained>>

WaitVerdict ==
  /\ WaitFor("verdict", Seen(job) \cap Verdicts # {}, Goto("judge"))
  /\ result' = Seen(job)
  /\ UNCHANGED <<fixed, todo, name, duration, continuous, skip, app, runPassed, jobFailed,
                 migrate, cluster, drained>>

\* Mutant: the event that is looked for is not the one that is fatal.
JudgeCompleted ==
  /\ pc = "judge"
  /\ IF "TestCompleted" \notin result /\ ~skip THEN End("failed")
     ELSE Goto(IF skip THEN "conclude" ELSE "matched")
  /\ result' = IF skip THEN None ELSE result
  /\ UNCHANGED <<fixed, todo, name, duration, continuous, skip, app, runPassed, jobFailed,
                 migrate, cluster, drained>>

\* Fail if TestFailed event is present.
Judge ==
  /\ pc = "judge"
  /\ IF "TestFailed" \in result /\ ~skip THEN End("failed")
     ELSE Goto(IF skip THEN "conclude" ELSE "matched")
  /\ result' = IF skip THEN None ELSE result
  /\ UNCHANGED <<fixed, todo, name, duration, continuous, skip, app, runPassed, jobFailed,
                 migrate, cluster, drained>>

WaitMatched ==
  /\ WaitFor("matched", "PacketMatched" \in Seen(job), Goto("conclude"))
  /\ result' = Seen(job) \cap {"PacketMatched"}
  /\ UNCHANGED <<fixed, todo, name, duration, continuous, skip, app, runPassed, jobFailed,
                 migrate, cluster, drained>>

\* The rest of the TRexApp block, the check of retry-trex.yml, and what
\* deploy/app.yml does next.
Conclude ==
  /\ pc = "conclude"
  /\ runPassed' = (runPassed \/ (app /\ result \notin {None, {}} /\ ~continuous))
  /\ IF ~runPassed' /\ ~skip /\ ~continuous THEN End("failed") /\ UNCHANGED todo
     ELSE IF action = "deploy" /\ app /\ play.tests # <<>> /\ ~continuous
     THEN Goto("profiles") /\ todo' = play.tests
     ELSE End("ok") /\ UNCHANGED todo
  /\ UNCHANGED <<fixed, name, duration, continuous, skip, app, jobFailed, migrate, result,
                 cluster, drained>>

\* trex/profile.yml, for one item of ecd_trex_test_config.
CreateProfile ==
  /\ pc = "profiles" /\ todo # <<>>
  /\ name' = Head(todo) /\ todo' = Tail(todo)
  /\ Apply(Head(todo), IF Head(todo) = Finite THEN "finite" ELSE "unset")
  /\ UNCHANGED <<fixed, pc, tries, outcome, duration, continuous, skip, app, runPassed,
                 jobFailed, migrate, result, drained>>

\* ecd_trex_apps_count: jobs with a duration, and not an endless one.
Counted == {n \in Names : spec[n] = "finite"}

\* The rest of trex/tests.yml is for callers who set ecd_trex_tests_wait.
CountProfiles ==
  /\ pc = "profiles" /\ todo = <<>>
  /\ \E wait \in BOOLEAN : IF wait THEN Goto("await") ELSE End("ok")
  /\ UNCHANGED <<fixed, todo, facts, cluster, drained>>

\* As many TestCompleted events as jobs, whosever they are.
AwaitProfiles ==
  /\ WaitFor("await", Cardinality(Shows("TestCompleted")) >= Cardinality(Counted), End("ok"))
  /\ UNCHANGED <<fixed, todo, facts, cluster, drained>>

\* validate.yml and validate/migrate.yml.
Decide ==
  /\ pc = "decide"
  /\ migrate' = (migrate /\ ~(play.deployment /\ skip /\ Shows("PacketMatched") = {}))
  /\ IF play.deployment /\ migrate' THEN Goto("v_matched") ELSE End("ok")
  /\ UNCHANGED <<fixed, todo, name, duration, continuous, skip, app, runPassed, jobFailed,
                 result, cluster, drained>>

\* Mutant: the listing is not looked at.
TestWithoutTraffic ==
  /\ pc = "v_matched" /\ IF play.delete THEN Goto("delete") ELSE End("ok")
  /\ UNCHANGED <<fixed, todo, facts, cluster, drained>>

\* The deletion test may be switched off (ecd_validate_pod_delete).
WaitTraffic ==
  /\ WaitFor("v_matched", Shows("PacketMatched") # {},
             IF play.delete THEN Goto("delete") ELSE End("ok"))
  /\ UNCHANGED <<fixed, todo, facts, cluster, drained>>

PodDelete ==
  /\ pc = "delete" /\ End("ok")
  /\ UNCHANGED <<fixed, todo, facts, cluster, drained>>

\* draining.yml: moving the pod, then draining/trex-validation.yml.
Drain ==
  /\ pc = "move" /\ Goto("retrieve")
  /\ UNCHANGED <<fixed, todo, facts, cluster, drained>>

\* A duration of -1 is replaced by ecd_default_trex_duration.
RetrieveDuration ==
  /\ pc = "retrieve"
  /\ IF spec[job] \in Durations
     THEN duration' = "finite" /\ Goto("d_completed")
     ELSE UNCHANGED duration /\ End("failed")
  /\ UNCHANGED <<fixed, todo, name, continuous, skip, app, runPassed, jobFailed, migrate,
                 result, cluster, drained>>

DrainCompleted ==
  /\ WaitFor("d_completed", "TestCompleted" \in Seen(job), Goto("d_verdict"))
  /\ UNCHANGED <<fixed, todo, facts, cluster, drained>>

\* ecd_trex_job_failed is set, and set back by nothing.
DrainVerdict ==
  /\ pc = "d_verdict"
  /\ LET verdict == Seen(job) \cap Verdicts
     IN  \/ /\ verdict # {}
            /\ jobFailed' = (jobFailed \/ "TestFailed" \in verdict)
            /\ drained' = drained \cup {job}
            /\ IF jobFailed' THEN End("ok") ELSE Goto("d_matched")
         \/ Retry(verdict # {}) /\ UNCHANGED <<jobFailed, drained>>
  /\ UNCHANGED <<fixed, todo, name, duration, continuous, skip, app, runPassed, migrate,
                 result, cluster>>

\* Mutant: the wait for packets gives up without failing.
DrainMatchedOrNot ==
  /\ pc = "d_matched" /\ End("ok")
  /\ UNCHANGED <<fixed, todo, facts, cluster, drained>>

DrainMatched ==
  /\ WaitFor("d_matched", "PacketMatched" \in Seen(job), End("ok"))
  /\ UNCHANGED <<fixed, todo, facts, cluster, drained>>

\* A call to the API or to oc fails, or the pod is not moved.
TaskError ==
  /\ pc # "idle" /\ End("failed")
  /\ UNCHANGED <<fixed, todo, facts, cluster, drained>>

Tasks ==
  \/ Enter \/ Create \/ WaitStarted \/ WaitCompleted \/ WaitVerdict \/ Judge \/ WaitMatched
  \/ Conclude \/ CreateProfile \/ CountProfiles \/ AwaitProfiles
  \/ Decide \/ WaitTraffic \/ PodDelete
  \/ Drain \/ RetrieveDuration \/ DrainCompleted \/ DrainVerdict \/ DrainMatched

Role == Tasks \/ TaskError

-----------------------------------------------------------------------------
(* The jobs and their events.                                              *)

Emit(n, reason) ==
  /\ reason \notin emitted[n] /\ n \notin expired
  /\ emitted' = [emitted EXCEPT ![n] = @ \cup {reason}]
  /\ UNCHANGED <<play, control, facts, spec, load, expired, drained>>

JobStarts == \E n \in Names : load[n] # "absent" /\ Emit(n, "TestStarted")

\* Some of the traffic comes back; a job that fails in the end may see that too.
PacketsMatch == \E n \in Names : "TestStarted" \in emitted[n] /\ Emit(n, "PacketMatched")

\* An endless job does not complete.
JobCompletes ==
  \E n \in Names : "TestStarted" \in emitted[n] /\ load[n] # "endless" /\ Emit(n, "TestCompleted")

JobVerdict ==
  \E n \in Names, v \in Verdicts :
    "TestCompleted" \in emitted[n] /\ emitted[n] \cap Verdicts = {} /\ Emit(n, v)

\* The cluster keeps events for a limited time.
EventsExpire ==
  \E n \in Names :
    /\ emitted[n] \cap Verdicts # {} /\ n \notin expired /\ expired' = expired \cup {n}
    /\ UNCHANGED <<play, control, facts, spec, load, emitted, drained>>

Cluster == JobStarts \/ PacketsMatch \/ JobCompletes \/ JobVerdict \/ EventsExpire

Done == pc = "idle" /\ actions = MaxActions /\ UNCHANGED vars

Next == (\E a \in {"deploy", "extra", "validate", "draining"} : Start(a)) \/ Role \/ Cluster \/ Done

Spec == Init /\ [][Next]_vars

\* The play never idles in a task; of the jobs and their events nothing is assumed.
FairSpec == Spec /\ WF_vars(Tasks)

-----------------------------------------------------------------------------
(* Properties.                                                             *)

Sound(n) == {"TestCompleted", "TestPassed", "PacketMatched"} \subseteq emitted[n]

\* A deployment or an extra job that ends well has had its job judged: it ran to
\* its end, passed, and packets came back.  Only a caller who asked not to look,
\* and continuous mode, are excused.
OkMeansPassed ==
  outcome = "ok" /\ action \in {"deploy", "extra"} /\ app /\ ~skip /\ ~continuous
    => Sound(job)

\* A drain that ends well has seen packets of its job come back, unless a job
\* drained in this play failed: that one, or an earlier one whose failure stays.
DrainVouchesForTraffic ==
  outcome = "ok" /\ action = "draining"
    => \/ "PacketMatched" \in emitted[job]
       \/ \E n \in drained : "TestFailed" \in emitted[n]

\* Facts that no action resets were set for a reason that holds for good: what
\* they excuse later was asked for, or happened, in this play.
FactsHaveCauses ==
  /\ runPassed => \E n \in Names : Sound(n)
  /\ jobFailed => \E n \in drained : "TestFailed" \in emitted[n]
  /\ continuous => play.continuous \/ play.duration = "endless"
  /\ skip /\ ~play.skip => ~app
  /\ ~migrate => skip

\* In an automated play a validation that ends well has tested: packets of some
\* job had come back, and the pod was deleted unless the author has switched that
\* test off.  Or testing is off for the rest of the play, whatever traffic there is
\* now; only a validation that found no packets when it looked turns it off, and
\* only in a play that skips failures ("Do not try migration tests if previous
\* TRex job failed").
ValidationTests ==
  [][/\ action = "validate" /\ outcome = "running" /\ outcome' = "ok" /\ play.deployment
       => \/ /\ \E n \in Names : "PacketMatched" \in emitted[n]
             /\ pc = IF play.delete THEN "delete" ELSE "v_matched"
          \/ ~migrate'
     /\ migrate' # migrate => action = "validate" /\ play.skip /\ Shows("PacketMatched") = {}]_vars

\* Every action of the play ends.
ActionEnds == pc # "idle" ~> pc = "idle"
=============================================================================
