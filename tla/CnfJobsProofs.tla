--------------------------- MODULE CnfJobsProofs ---------------------------
(***************************************************************************)
(* Proofs about the TRex jobs of example_cnf_deploy, for any number of     *)
(* actions and attempts, and plays that change any settings.               *)
(***************************************************************************)
EXTENDS CnfJobs, TLAPS

JobTasks   == {"enter", "create", "started", "completed", "verdict", "judge", "matched",
               "conclude", "profiles", "await"}
ValidTasks == {"decide", "v_matched", "delete"}
DrainTasks == {"move", "retrieve", "d_completed", "d_verdict", "d_matched"}

\* Each action runs its own tasks, and runs until it has an outcome.
PlayInv ==
  /\ outcome = "running" <=> pc # "idle"
  /\ pc \in JobTasks => action \in {"deploy", "extra"}
  /\ pc \in ValidTasks => action = "validate"
  /\ pc \in DrainTasks => action = "draining"

\* What is known of the job of a deployment or an extra job, task by task.
JobInv ==
  /\ pc \in {"verdict", "judge", "matched"} => "TestCompleted" \in emitted[job]
  /\ pc = "judge" => result \in SUBSET emitted[job] /\ result \cap Verdicts # {}
  /\ pc = "matched" => "TestPassed" \in emitted[job]
  /\ pc = "conclude" /\ app /\ ~continuous /\ (~skip \/ result \notin {None, {}}) => Sound(job)
  /\ pc \in {"profiles", "await"} /\ app /\ ~skip /\ ~continuous => Sound(job)
  /\ OkMeansPassed

\* Why the facts are as they are.
CauseInv ==
  /\ FactsHaveCauses
  /\ duration = "endless" => play.duration = "endless"
  /\ skip => play.skip \/ ~play.deployment
  /\ pc = "delete" => play.delete /\ \E n \in Names : "PacketMatched" \in emitted[n]

IInv == TypeOK /\ PlayInv /\ JobInv /\ CauseInv /\ DrainVouchesForTraffic

\* The jobs of an earlier play have told nothing yet, and no fact is set.
LEMMA InitInv == Init => IInv
<1>. SUFFICES ASSUME Init PROVE IInv
  OBVIOUS
<1>1. play \in Settings
  BY DEF Init, Plays
<1>2. TypeOK
  <2>1. spec \in [Names -> Durations \cup {"absent", "unset"}] /\ load = spec
    BY DEF Init, Durations
  <2>2. emitted \in [Names -> SUBSET Reasons]
    BY DEF Init
  <2>3. duration \in Durations /\ continuous \in BOOLEAN /\ skip \in BOOLEAN /\ app \in BOOLEAN
    BY <1>1 DEF Init, Settings
  <2>4. tries \in 0 .. Tries /\ actions \in 0 .. MaxActions
    BY BoundsAssumption DEF Init
  <2>5. /\ pc = "idle" /\ action = "none" /\ outcome = "none" /\ name = App /\ job = App
        /\ todo = <<>> /\ runPassed = FALSE /\ jobFailed = FALSE /\ migrate = TRUE
        /\ result = None /\ expired = {} /\ drained = {}
    BY DEF Init
  <2>. QED  BY <1>1, <2>1, <2>2, <2>3, <2>4, <2>5 DEF TypeOK, Names
<1>3. PlayInv /\ JobInv /\ CauseInv /\ DrainVouchesForTraffic
  BY <1>1 DEF Init, PlayInv, JobInv, CauseInv, DrainVouchesForTraffic, JobTasks, ValidTasks,
    DrainTasks, OkMeansPassed, FactsHaveCauses, Settings
<1>. QED  BY <1>2, <1>3 DEF IInv

\* What the tasks of an action leave alone.
LEMMA RoleFrame ==
  ASSUME Role
  PROVE  pc # "idle" /\ UNCHANGED <<fixed, emitted, expired>>
BY DEF Role, Tasks, Enter, Create, WaitStarted, WaitCompleted, WaitVerdict, Judge, WaitMatched, Conclude,
  CreateProfile, CountProfiles, AwaitProfiles, Decide, WaitTraffic, PodDelete, Drain,
  RetrieveDuration, DrainCompleted, DrainVerdict, DrainMatched, TaskError, WaitFor, Apply,
  cluster, fixed

\* What the cluster leaves alone, and that jobs take no event back.
LEMMA ClusterFrame ==
  ASSUME TypeOK, Cluster
  PROVE  /\ UNCHANGED <<play, control, facts, spec, load, drained>>
         /\ emitted' \in [Names -> SUBSET Reasons] /\ expired' \subseteq Names
         /\ \A n \in Names : emitted[n] \subseteq emitted'[n]
<1>1. ASSUME NEW n \in Names, NEW reason \in Reasons, Emit(n, reason)
      PROVE  /\ UNCHANGED <<play, control, facts, spec, load, expired, drained>>
             /\ emitted' \in [Names -> SUBSET Reasons]
             /\ \A k \in Names : emitted[k] \subseteq emitted'[k]
  BY <1>1 DEF Emit, TypeOK
<1>2. CASE EventsExpire
  BY <1>2 DEF EventsExpire, TypeOK
<1>. QED  BY <1>1, <1>2 DEF Cluster, JobStarts, PacketsMatch, JobCompletes, JobVerdict,
  Verdicts, Reasons, TypeOK

\* No step takes an event of a job back.
LEMMA EventsStay ==
  ASSUME TypeOK, [Next]_vars
  PROVE  \A n \in Names : emitted[n] \subseteq emitted'[n] /\ (Sound(n) => Sound(n)')
<1>1. \A n \in Names : emitted[n] \subseteq emitted'[n]
  BY RoleFrame, ClusterFrame DEF Next, Start, Done, cluster, vars
<1>. QED  BY <1>1 DEF Sound

\* A listing shows no more than the job emitted.
LEMMA SeenIsEmitted ==
  ASSUME TypeOK, NEW n \in Names
  PROVE  Seen(n) \subseteq emitted[n] /\ Seen(n) \subseteq Reasons
BY DEF Seen, TypeOK

\* No step takes a variable out of its type.
LEMMA TypeStep == TypeOK /\ [Next]_vars => TypeOK'
<1>. SUFFICES ASSUME TypeOK, [Next]_vars PROVE TypeOK'
  OBVIOUS
<1>. USE BoundsAssumption
<1>1. ASSUME NEW a \in {"deploy", "extra", "validate", "draining"}, Start(a) PROVE TypeOK'
  BY <1>1 DEF TypeOK, Start, cluster, Names
<1>2. CASE Enter
  BY <1>2 DEF Enter, TypeOK, Waits, Goto, End, Retry, WaitFor, fixed, facts, cluster
<1>3. CASE Create
  BY <1>3 DEF Create, Apply, TypeOK, Waits, Goto, End, Retry, WaitFor, fixed, facts, cluster
<1>4. CASE WaitStarted
  BY <1>4 DEF WaitStarted, TypeOK, Waits, Goto, End, Retry, WaitFor, fixed, facts, cluster
<1>5. CASE WaitCompleted
  BY <1>5 DEF WaitCompleted, TypeOK, Waits, Goto, End, Retry, WaitFor, fixed, facts, cluster
<1>6. CASE WaitVerdict
  BY <1>6, SeenIsEmitted DEF WaitVerdict, TypeOK, Waits, Goto, End, Retry, WaitFor, fixed, facts, cluster
<1>7. CASE Judge
  BY <1>7 DEF Judge, TypeOK, Waits, Goto, End, Retry, WaitFor, fixed, facts, cluster
<1>8. CASE WaitMatched
  BY <1>8, SeenIsEmitted DEF WaitMatched, TypeOK, Waits, Goto, End, Retry, WaitFor, fixed, facts, cluster
<1>9. CASE Conclude
  BY <1>9 DEF Conclude, Settings, TypeOK, Waits, Goto, End, Retry, WaitFor, fixed, facts, cluster
<1>10. CASE CreateProfile
  <2>1. Head(todo) \in {Finite, Unset} /\ todo' \in {<<>>, <<Finite>>}
    <3>1. /\ Head(<<Finite>>) = Finite /\ Tail(<<Finite>>) = <<>>
          /\ Head(<<Unset, Finite>>) = Unset /\ Tail(<<Unset, Finite>>) = <<Finite>>
      OBVIOUS
    <3>. QED  BY <1>10, <3>1 DEF CreateProfile, TypeOK
  <2>2. /\ spec' \in [Names -> Durations \cup {"absent", "unset"}]
        /\ load' \in [Names -> Durations \cup {"absent", "unset"}]
    BY <1>10, <2>1 DEF CreateProfile, Apply, TypeOK, Durations
  <2>. QED  BY <1>10, <2>1, <2>2 DEF CreateProfile, Apply, TypeOK, Names, fixed
<1>11. CASE CountProfiles
  BY <1>11 DEF CountProfiles, TypeOK, Waits, Goto, End, Retry, WaitFor, fixed, facts, cluster
<1>12. CASE AwaitProfiles
  BY <1>12 DEF AwaitProfiles, TypeOK, Waits, Goto, End, Retry, WaitFor, fixed, facts, cluster
<1>13. CASE Decide
  BY <1>13 DEF Decide, TypeOK, Waits, Goto, End, Retry, WaitFor, fixed, facts, cluster
<1>14. CASE WaitTraffic
  BY <1>14 DEF WaitTraffic, TypeOK, Waits, Goto, End, Retry, WaitFor, fixed, facts, cluster
<1>15. CASE PodDelete
  BY <1>15 DEF PodDelete, TypeOK, Waits, Goto, End, Retry, WaitFor, fixed, facts, cluster
<1>16. CASE Drain
  BY <1>16 DEF Drain, TypeOK, Waits, Goto, End, Retry, WaitFor, fixed, facts, cluster
<1>17. CASE RetrieveDuration
  BY <1>17 DEF RetrieveDuration, Durations, TypeOK, Waits, Goto, End, Retry, WaitFor, fixed, facts, cluster
<1>18. CASE DrainCompleted
  BY <1>18 DEF DrainCompleted, TypeOK, Waits, Goto, End, Retry, WaitFor, fixed, facts, cluster
<1>19. CASE DrainVerdict
  <2>1. jobFailed' \in BOOLEAN /\ drained' \subseteq Names
    BY <1>19 DEF DrainVerdict, TypeOK
  <2>2. /\ pc' \in {"idle", "d_verdict", "d_matched"} /\ tries' \in 0 .. Tries
        /\ outcome' \in {"ok", "failed", outcome}
    BY <1>19 DEF DrainVerdict, TypeOK, Waits, Goto, End, Retry
  <2>. QED  BY <1>19, <2>1, <2>2 DEF DrainVerdict, TypeOK, fixed, cluster
<1>20. CASE DrainMatched
  BY <1>20 DEF DrainMatched, TypeOK, Waits, Goto, End, Retry, WaitFor, fixed, facts, cluster
<1>21. CASE TaskError
  BY <1>21 DEF TaskError, TypeOK, Waits, Goto, End, Retry, WaitFor, fixed, facts, cluster
<1>22. CASE Cluster
  BY <1>22, ClusterFrame DEF TypeOK, control, facts
<1>23. CASE UNCHANGED vars
  BY <1>23 DEF TypeOK, vars, control, facts, cluster
<1>. QED
  BY <1>1, <1>2, <1>3, <1>4, <1>5, <1>6, <1>7, <1>8, <1>9, <1>10, <1>11, <1>12, <1>13,
     <1>14, <1>15, <1>16, <1>17, <1>18, <1>19, <1>20, <1>21, <1>22, <1>23 DEF Next, Role, Tasks, Done

\* Each task is followed by one of its own action, or by the end of the action.
LEMMA PlayStep == TypeOK /\ PlayInv /\ [Next]_vars => PlayInv'
<1>. SUFFICES ASSUME TypeOK, PlayInv, [Next]_vars PROVE PlayInv'
  OBVIOUS
<1>. USE DEF JobTasks, ValidTasks, DrainTasks
<1>1. ASSUME NEW a \in {"deploy", "extra", "validate", "draining"}, Start(a) PROVE PlayInv'
  BY <1>1 DEF PlayInv, Start
<1>2. ASSUME Role PROVE PlayInv'
  <2>1. action' = action /\ pc # "idle" /\ outcome = "running"
    BY <1>2, RoleFrame DEF PlayInv, fixed
  <2>2. /\ pc' = "idle" => outcome' \in {"ok", "failed"}
        /\ pc' # "idle" => outcome' = outcome
    BY <1>2 DEF Role, Tasks, Enter, Create, WaitStarted, WaitCompleted, WaitVerdict, Judge, WaitMatched, Conclude,
      CreateProfile, CountProfiles, AwaitProfiles, Decide, WaitTraffic, PodDelete, Drain,
      RetrieveDuration, DrainCompleted, DrainVerdict, DrainMatched, TaskError,
      Goto, End, Retry, WaitFor
  <2>3. CASE pc \in JobTasks
    <3>1. pc' \in JobTasks \cup {"idle"}
      BY <1>2, <2>3 DEF Role, Tasks, Enter, Create, WaitStarted, WaitCompleted, WaitVerdict, Judge, WaitMatched,
        Conclude, CreateProfile, CountProfiles, AwaitProfiles, Decide, WaitTraffic,
        PodDelete, Drain, RetrieveDuration, DrainCompleted, DrainVerdict, DrainMatched,
        TaskError, Goto, End, Retry, WaitFor
    <3>. QED  BY <2>1, <2>2, <2>3, <3>1 DEF PlayInv
  <2>4. CASE pc \in ValidTasks
    <3>1. pc' \in ValidTasks \cup {"idle"}
      BY <1>2, <2>4 DEF Role, Tasks, Enter, Create, WaitStarted, WaitCompleted, WaitVerdict, Judge, WaitMatched,
        Conclude, CreateProfile, CountProfiles, AwaitProfiles, Decide, WaitTraffic,
        PodDelete, Drain, RetrieveDuration, DrainCompleted, DrainVerdict, DrainMatched,
        TaskError, Goto, End, Retry, WaitFor
    <3>. QED  BY <2>1, <2>2, <2>4, <3>1 DEF PlayInv
  <2>5. CASE pc \in DrainTasks
    <3>1. pc' \in DrainTasks \cup {"idle"}
      BY <1>2, <2>5 DEF Role, Tasks, Enter, Create, WaitStarted, WaitCompleted, WaitVerdict, Judge, WaitMatched,
        Conclude, CreateProfile, CountProfiles, AwaitProfiles, Decide, WaitTraffic,
        PodDelete, Drain, RetrieveDuration, DrainCompleted, DrainVerdict, DrainMatched,
        TaskError, Goto, End, Retry, WaitFor
    <3>. QED  BY <2>1, <2>2, <2>5, <3>1 DEF PlayInv
  <2>6. pc \in JobTasks \cup ValidTasks \cup DrainTasks
    BY <2>1 DEF TypeOK
  <2>. QED  BY <2>3, <2>4, <2>5, <2>6
<1>3. CASE Cluster \/ UNCHANGED vars
  <2>1. UNCHANGED <<pc, action, outcome>>
    BY <1>3, ClusterFrame DEF vars, control
  <2>. QED  BY <2>1 DEF PlayInv
<1>. QED  BY <1>1, <1>2, <1>3 DEF Next, Done

\* The tasks of a job look at the events of that job, and at no other.
LEMMA JobStep == TypeOK /\ PlayInv /\ JobInv /\ [Next]_vars => JobInv'
<1>. SUFFICES ASSUME TypeOK, PlayInv, JobInv, [Next]_vars PROVE JobInv'
  OBVIOUS
<1>1. job \in Names
  BY DEF TypeOK
<1>2. Seen(job) \subseteq emitted[job] /\ Seen(job) \subseteq Reasons
  BY <1>1, SeenIsEmitted
<1>3. ASSUME Role PROVE UNCHANGED <<play, action, job, emitted>> /\ (Sound(job) => Sound(job)')
  BY <1>3, RoleFrame DEF fixed, Sound
<1>4. ASSUME Role, pc' = "idle", outcome' = "failed" PROVE JobInv'
  BY <1>4 DEF JobInv, OkMeansPassed
<1>5. ASSUME NEW a \in {"deploy", "extra", "validate", "draining"}, Start(a) PROVE JobInv'
  BY <1>5 DEF JobInv, OkMeansPassed, Start, PlayInv
<1>6. CASE Enter
  BY <1>6 DEF JobInv, OkMeansPassed, Enter, Goto, PlayInv
<1>7. CASE Create
  BY <1>7 DEF JobInv, OkMeansPassed, Create, Goto, PlayInv
<1>8. CASE WaitStarted
  BY <1>3, <1>8 DEF JobInv, OkMeansPassed, WaitStarted, WaitFor, Goto, Retry, End, PlayInv, Role, Tasks
<1>9. CASE WaitCompleted
  BY <1>2, <1>3, <1>9 DEF JobInv, OkMeansPassed, WaitCompleted, WaitFor, Goto, Retry, End, PlayInv, Role, Tasks
<1>10. CASE WaitVerdict
  BY <1>2, <1>3, <1>10 DEF JobInv, OkMeansPassed, WaitVerdict, WaitFor, Goto, Retry, End, PlayInv, Role, Tasks
<1>11. CASE Judge
  BY <1>3, <1>11 DEF JobInv, OkMeansPassed, Judge, Goto, End, PlayInv, Verdicts, Role, Tasks
<1>12. CASE WaitMatched
  <2>1. "PacketMatched" \in Seen(job) => Sound(job)
    BY <1>2, <1>12 DEF WaitMatched, WaitFor, JobInv, Sound
  <2>. QED
    BY <1>3, <1>12, <2>1 DEF JobInv, OkMeansPassed, WaitMatched, WaitFor, Goto, Retry, End, PlayInv, Role, Tasks
<1>13. CASE Conclude
  <2>1. app /\ ~skip /\ ~continuous => Sound(job)'
    BY <1>3, <1>13 DEF Conclude, JobInv, Role, Tasks
  <2>. QED
    BY <1>13, <2>1 DEF JobInv, OkMeansPassed, Conclude, Goto, End, fixed
<1>14. CASE CreateProfile
  BY <1>3, <1>14 DEF JobInv, OkMeansPassed, CreateProfile, PlayInv, Role, Tasks, fixed
<1>15. CASE CountProfiles
  BY <1>3, <1>15 DEF JobInv, OkMeansPassed, CountProfiles, Goto, End, PlayInv, Role, Tasks, fixed, facts
<1>16. CASE AwaitProfiles
  BY <1>3, <1>16 DEF JobInv, OkMeansPassed, AwaitProfiles, WaitFor, Retry, End, Role, Tasks, fixed, facts
<1>17. CASE pc \in ValidTasks \cup DrainTasks /\ Role
  <2>1. action' \notin {"deploy", "extra"} /\ pc' \in ValidTasks \cup DrainTasks \cup {"idle"}
    BY <1>3, <1>17, PlayStep, TypeStep DEF PlayInv, ValidTasks, DrainTasks, JobTasks, TypeOK
  <2>. QED  BY <2>1 DEF JobInv, OkMeansPassed, ValidTasks, DrainTasks
<1>18. CASE TaskError
  BY <1>4, <1>18 DEF TaskError, End, Role
<1>19. CASE Cluster \/ UNCHANGED vars
  <2>1. UNCHANGED <<play, control, facts, drained>>
    BY <1>19, ClusterFrame DEF vars
  <2>2. emitted[job] \subseteq emitted'[job] /\ (Sound(job) => Sound(job)')
    BY <1>1, <2>1, EventsStay DEF Sound, control
  <2>. QED  BY <2>1, <2>2 DEF JobInv, OkMeansPassed, control, facts
<1>20. Decide \/ WaitTraffic \/ PodDelete \/ Drain \/ RetrieveDuration \/ DrainCompleted
         \/ DrainVerdict \/ DrainMatched => pc \in ValidTasks \cup DrainTasks
  BY DEF Decide, WaitTraffic, PodDelete, Drain, RetrieveDuration, DrainCompleted,
    DrainVerdict, DrainMatched, WaitFor, ValidTasks, DrainTasks
<1>. QED
  BY <1>5, <1>6, <1>7, <1>8, <1>9, <1>10, <1>11, <1>12, <1>13, <1>14, <1>15, <1>16, <1>17, <1>18,
    <1>19, <1>20 DEF Next, Role, Tasks, Done

\* A fact is set by a task that has seen its cause, and causes stay.
LEMMA CauseStep ==
  TypeOK /\ JobInv /\ CauseInv /\ [Next]_vars => CauseInv'
<1>. SUFFICES ASSUME TypeOK, JobInv, CauseInv, [Next]_vars PROVE CauseInv'
  OBVIOUS
<1>1. \A n \in Names : emitted[n] \subseteq emitted'[n] /\ (Sound(n) => Sound(n)')
  BY EventsStay
<1>2. \A n \in Names : Seen(n) \subseteq emitted[n]
  BY SeenIsEmitted
<1>3. job \in Names /\ play \in Settings
  BY DEF TypeOK
<1>4. play' = play
  BY RoleFrame, ClusterFrame DEF Next, Start, Done, fixed, vars
\* Each clause, if the variables it is about stay as they are.
<1>5. ASSUME UNCHANGED runPassed PROVE runPassed' => \E n \in Names : Sound(n)'
  BY <1>1, <1>5 DEF CauseInv, FactsHaveCauses
<1>6. ASSUME UNCHANGED <<jobFailed, drained>>
      PROVE  jobFailed' => \E n \in drained' : "TestFailed" \in emitted'[n]
  BY <1>1, <1>6 DEF CauseInv, FactsHaveCauses, TypeOK
<1>7. ASSUME UNCHANGED <<skip, app, continuous, duration, migrate>>
      PROVE  /\ continuous' => play'.continuous \/ play'.duration = "endless"
             /\ skip' /\ ~play'.skip => ~app'
             /\ ~migrate' => skip'
             /\ duration' = "endless" => play'.duration = "endless"
             /\ skip' => play'.skip \/ ~play'.deployment
  BY <1>4, <1>7 DEF CauseInv, FactsHaveCauses
<1>8. ASSUME pc = "delete" PROVE play'.delete /\ \E n \in Names : "PacketMatched" \in emitted'[n]
  BY <1>1, <1>4, <1>8 DEF CauseInv
<1>9. ASSUME NEW a \in {"deploy", "extra", "validate", "draining"}, Start(a) PROVE CauseInv'
  BY <1>5, <1>6, <1>7, <1>9 DEF Start, CauseInv, FactsHaveCauses
<1>10. CASE Enter
  <2>1. UNCHANGED <<runPassed, jobFailed, drained, duration, migrate>> /\ pc' # "delete"
    BY <1>10 DEF Enter, Goto
  <2>2. /\ continuous' => play.continuous \/ play.duration = "endless"
        /\ skip' => play.skip \/ ~play.deployment
        /\ skip' /\ ~play.skip => ~app'
        /\ skip => skip'
    BY <1>10 DEF Enter, CauseInv, FactsHaveCauses, TypeOK
  <2>. QED  BY <1>4, <1>5, <1>6, <2>1, <2>2 DEF CauseInv, FactsHaveCauses
<1>11. CASE Conclude
  <2>1. runPassed' => \E n \in Names : Sound(n)'
    <3>1. app /\ result \notin {None, {}} /\ ~continuous => Sound(job)
      BY <1>11 DEF Conclude, JobInv
    <3>. QED  BY <1>1, <1>3, <1>11, <3>1 DEF Conclude, CauseInv, FactsHaveCauses
  <2>2. UNCHANGED <<jobFailed, drained, skip, app, continuous, duration, migrate>> /\ pc' # "delete"
    BY <1>11 DEF Conclude, Goto, End
  <2>. QED  BY <1>6, <1>7, <2>1, <2>2 DEF CauseInv, FactsHaveCauses
<1>12. CASE Decide
  <2>1. UNCHANGED <<runPassed, jobFailed, drained, skip, app, continuous, duration>> /\ pc' # "delete"
    BY <1>12 DEF Decide, Goto, End
  <2>2. ~migrate' => skip
    BY <1>12 DEF Decide, CauseInv, FactsHaveCauses
  <2>. QED  BY <1>4, <1>5, <1>6, <2>1, <2>2 DEF CauseInv, FactsHaveCauses
<1>13. CASE WaitTraffic
  <2>1. pc' = "delete" => play'.delete /\ \E n \in Names : "PacketMatched" \in emitted'[n]
    BY <1>1, <1>2, <1>4, <1>13 DEF WaitTraffic, WaitFor, Retry, End, Shows
  <2>2. UNCHANGED facts /\ UNCHANGED drained
    BY <1>13 DEF WaitTraffic
  <2>. QED  BY <1>5, <1>6, <1>7, <2>1, <2>2 DEF facts, CauseInv, FactsHaveCauses
<1>14. CASE RetrieveDuration
  <2>1. duration' \in {duration, "finite"} /\ pc' # "delete"
        /\ UNCHANGED <<runPassed, jobFailed, drained, skip, app, continuous, migrate>>
    BY <1>14 DEF RetrieveDuration, Goto, End
  <2>. QED  BY <1>4, <1>5, <1>6, <2>1 DEF CauseInv, FactsHaveCauses
<1>15. CASE DrainVerdict
  <2>1. jobFailed' => \E n \in drained' : "TestFailed" \in emitted'[n]
    <3>1. drained \subseteq drained' /\ (jobFailed' /\ ~jobFailed => job \in drained' /\ "TestFailed" \in Seen(job))
      <4>1. CASE UNCHANGED <<jobFailed, drained>>
        BY <4>1
      <4>2. CASE /\ jobFailed' = (jobFailed \/ "TestFailed" \in Seen(job) \cap Verdicts)
                 /\ drained' = drained \cup {job}
        BY <4>2
      <4>. QED  BY <1>15, <4>1, <4>2 DEF DrainVerdict
    <3>. QED  BY <1>1, <1>2, <1>3, <3>1 DEF CauseInv, FactsHaveCauses, TypeOK
  <2>2. UNCHANGED <<runPassed, skip, app, continuous, duration, migrate>> /\ pc' # "delete"
    BY <1>15 DEF DrainVerdict, Goto, Retry, End
  <2>. QED  BY <1>5, <1>7, <2>1, <2>2 DEF CauseInv, FactsHaveCauses
<1>16. CASE Create \/ WaitStarted \/ WaitCompleted \/ WaitVerdict \/ Judge \/ WaitMatched
         \/ CreateProfile \/ CountProfiles \/ AwaitProfiles
         \/ PodDelete \/ Drain \/ DrainCompleted \/ DrainMatched \/ TaskError
  <2>1. /\ UNCHANGED <<runPassed, jobFailed, drained, skip, app, continuous, duration, migrate>>
        /\ pc' # "delete"
    BY <1>16 DEF Create, WaitStarted, WaitCompleted, WaitVerdict, Judge, WaitMatched,
      CreateProfile, CountProfiles, AwaitProfiles, PodDelete, Drain, DrainCompleted,
      DrainMatched, TaskError, Goto, End, Retry, WaitFor, facts
  <2>. QED  BY <1>5, <1>6, <1>7, <2>1 DEF CauseInv, FactsHaveCauses
<1>17. CASE Cluster \/ UNCHANGED vars
  <2>1. UNCHANGED <<play, control, facts, drained>>
    BY <1>17, ClusterFrame DEF vars
  <2>. QED  BY <1>5, <1>6, <1>7, <1>8, <2>1 DEF control, facts, CauseInv, FactsHaveCauses
<1>. QED
  BY <1>9, <1>10, <1>11, <1>12, <1>13, <1>14, <1>15, <1>16, <1>17 DEF Next, Role, Tasks, Done

\* A drain ends well after the packets of its job, or after a failure that stays.
LEMMA DrainStep ==
  TypeOK /\ PlayInv /\ CauseInv /\ DrainVouchesForTraffic /\ [Next]_vars
    => DrainVouchesForTraffic'
<1>. SUFFICES ASSUME TypeOK, PlayInv, CauseInv, DrainVouchesForTraffic, [Next]_vars,
                     outcome' = "ok", action' = "draining"
              PROVE  \/ "PacketMatched" \in emitted'[job']
                     \/ \E n \in drained' : "TestFailed" \in emitted'[n]
  BY DEF DrainVouchesForTraffic
<1>1. \A n \in Names : emitted[n] \subseteq emitted'[n]
  BY EventsStay
<1>2. job \in Names /\ drained \subseteq Names
  BY DEF TypeOK
<1>3. CASE DrainVerdict
  <2>1. jobFailed'
    BY <1>3 DEF DrainVerdict, Goto, Retry, End, PlayInv
  <2>2. drained \subseteq drained' /\ (~jobFailed => job \in drained' /\ "TestFailed" \in Seen(job))
    BY <1>3, <2>1 DEF DrainVerdict
  <2>. QED  BY <1>1, <1>2, <2>2, SeenIsEmitted DEF CauseInv, FactsHaveCauses
<1>4. CASE DrainMatched
  <2>1. "PacketMatched" \in Seen(job) /\ job' = job
    BY <1>4 DEF DrainMatched, WaitFor, Retry, PlayInv, End, fixed
  <2>. QED  BY <1>1, <1>2, <2>1, SeenIsEmitted
<1>5. CASE Role /\ ~DrainVerdict /\ ~DrainMatched
  <2>1. action = "draining" /\ pc # "idle" /\ outcome = "running"
    BY <1>5, RoleFrame DEF fixed, PlayInv
  <2>2. pc \in DrainTasks
    BY <2>1 DEF PlayInv, TypeOK, DrainTasks, JobTasks, ValidTasks
  <2>3. Drain \/ RetrieveDuration \/ DrainCompleted \/ TaskError
    BY <1>5, <2>2 DEF Role, Tasks, DrainTasks, Enter, Create, WaitStarted, WaitCompleted,
      WaitVerdict, Judge, WaitMatched, Conclude, CreateProfile, CountProfiles, AwaitProfiles,
      Decide, WaitTraffic, PodDelete, WaitFor
  <2>4. outcome' # "ok"
    BY <2>1, <2>3 DEF Drain, RetrieveDuration, DrainCompleted, TaskError, WaitFor, Goto, Retry, End
  <2>. QED  BY <2>4
<1>6. CASE ~Role
  <2>1. UNCHANGED <<outcome, action, job, drained>>
    BY <1>6, ClusterFrame DEF Next, Start, Done, vars, control
  <2>. QED  BY <1>1, <1>2, <2>1 DEF DrainVouchesForTraffic
<1>. QED  BY <1>3, <1>4, <1>5, <1>6

\* The invariant: facts, events and outcomes of example_cnf_deploy's actions agree
\* in every reachable state.
THEOREM Invariance == Spec => []IInv
<1>1. Init => IInv
  BY InitInv
<1>2. IInv /\ [Next]_vars => IInv'
  BY TypeStep, PlayStep, JobStep, CauseStep, DrainStep DEF IInv
<1>. QED  BY <1>1, <1>2, PTL DEF Spec

\* The variables keep the types of the facts, TRexApps and events they model.
THEOREM TypeCorrect == Spec => []TypeOK
<1>1. IInv => TypeOK
  BY DEF IInv
<1>. QED  BY <1>1, Invariance, PTL

\* A deployment or extra job that ends well has had its own job pass (trex/app.yml:87-179).
THEOREM OkPassed == Spec => []OkMeansPassed
<1>1. IInv => OkMeansPassed
  BY DEF IInv, JobInv
<1>. QED  BY <1>1, Invariance, PTL

\* A drain that ends well has seen its packets, or follows a failure that is kept
\* in ecd_trex_job_failed (draining/trex-validation.yml:33-64).
THEOREM DrainVouches == Spec => []DrainVouchesForTraffic
<1>1. IInv => DrainVouchesForTraffic
  BY DEF IInv
<1>. QED  BY <1>1, Invariance, PTL

\* Facts that no action resets were set for a reason that still holds.
THEOREM FactsCaused == Spec => []FactsHaveCauses
<1>1. IInv => FactsHaveCauses
  BY DEF IInv, CauseInv
<1>. QED  BY <1>1, Invariance, PTL

\* Only the decision of a validation touches the fact, and it turns testing off.
LEMMA MigrateStep ==
  ASSUME TypeOK, PlayInv, CauseInv, [Next]_vars, migrate' # migrate
  PROVE  action = "validate" /\ play.skip /\ Shows("PacketMatched") = {}
<1>1. Decide
  BY ClusterFrame DEF Next, Role, Tasks, Start, Done, Enter, Create, WaitStarted,
    WaitCompleted, WaitVerdict, Judge, WaitMatched, Conclude, CreateProfile, CountProfiles,
    AwaitProfiles, WaitTraffic, PodDelete, Drain, RetrieveDuration, DrainCompleted,
    DrainVerdict, DrainMatched, TaskError, vars, facts
<1>2. play.deployment /\ skip /\ Shows("PacketMatched") = {}
  BY <1>1 DEF Decide, TypeOK
<1>. QED  BY <1>1, <1>2 DEF Decide, PlayInv, ValidTasks, CauseInv

\* A validation that ends well has tested, or testing was turned off for want of
\* packets, in the play that skips failures (validate/migrate.yml:16-51).
THEOREM ValidationsTest == Spec => ValidationTests
<1>1. ASSUME IInv, [Next]_vars, action = "validate", outcome = "running", outcome' = "ok",
             play.deployment, migrate'
      PROVE  /\ \E n \in Names : "PacketMatched" \in emitted[n]
             /\ pc = IF play.delete THEN "delete" ELSE "v_matched"
  <2>1. Role /\ pc # "idle"
    BY <1>1, ClusterFrame DEF IInv, PlayInv, Next, Start, Done, vars, control
  <2>2. pc \in ValidTasks
    BY <1>1, <2>1 DEF IInv, PlayInv, TypeOK, DrainTasks, JobTasks, ValidTasks
  <2>3. Decide \/ WaitTraffic \/ PodDelete \/ TaskError
    BY <2>1, <2>2 DEF Role, Tasks, ValidTasks, Enter, Create, WaitStarted, WaitCompleted,
      WaitVerdict, Judge, WaitMatched, Conclude, CreateProfile, CountProfiles, AwaitProfiles,
      Drain, RetrieveDuration, DrainCompleted, DrainVerdict, DrainMatched, WaitFor
  <2>4. ~Decide /\ ~TaskError
    BY <1>1 DEF Decide, Goto, TaskError, End
  <2>5. CASE PodDelete
    BY <1>1, <2>5 DEF PodDelete, IInv, CauseInv
  <2>6. CASE WaitTraffic
    <3>1. ~play.delete /\ pc = "v_matched" /\ Shows("PacketMatched") # {}
      BY <1>1, <2>6 DEF WaitTraffic, WaitFor, Goto, Retry, End
    <3>. QED  BY <1>1, <3>1, SeenIsEmitted DEF Shows, IInv
  <2>. QED  BY <2>3, <2>4, <2>5, <2>6
<1>2. IInv /\ [Next]_vars =>
        [/\ action = "validate" /\ outcome = "running" /\ outcome' = "ok" /\ play.deployment
            => \/ /\ \E n \in Names : "PacketMatched" \in emitted[n]
                  /\ pc = IF play.delete THEN "delete" ELSE "v_matched"
               \/ ~migrate'
         /\ migrate' # migrate =>
              action = "validate" /\ play.skip /\ Shows("PacketMatched") = {}]_vars
  BY <1>1, MigrateStep DEF IInv
<1>. QED  BY <1>2, Invariance, PTL DEF Spec, ValidationTests

=============================================================================
