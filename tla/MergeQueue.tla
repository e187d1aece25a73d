----------------------------- MODULE MergeQueue -----------------------------
(***************************************************************************)
(* hack/dci-merge.sh, run by GitHub for a group of pull requests about to  *)
(* be merged: it reads what their descriptions ask for, queues the tests   *)
(* of the BOS2 lab and posts the status of the commit.  No command of the  *)
(* script is checked but dci-queue and cd.                                 *)
(*                                                                         *)
(* External: the API of GitHub, dci-queue, and the queued jobs, which post *)
(* their verdict on the same commit while the script may still run.        *)
(***************************************************************************)
EXTENDS Naturals, Sequences, FiniteSets

CONSTANTS
  NbPRs,      \* Pull requests in the group.
  Supported,  \* Hints that SUPPORTED_HINTS of the lab lets pass.
  MaxTests    \* Bound: tests asked for by one pull request.

ASSUME NbPRsAssumption == NbPRs \in Nat /\ MaxTests \in Nat
ASSUME SupportedAssumption == Supported \subseteq {"no-check", "force-check"}

PRs == 1 .. NbPRs

\* Documented in CONTRIBUTING.md:106-108, and the words the script looks for, in the
\* order in which it fills their queues.
Documented == {"TestBos2", "TestBos2Sno", "TestBos2SnoBaremetal"}
Commands   == <<"TestBos2", "TestBos2Sno", "TestBos2Baremetal">>
Words      == {Commands[k] : k \in DOMAIN Commands}

Description == [hints : SUBSET {"no-check", "force-check"},
                tests : {t \in SUBSET (Documented \cup Words) : Cardinality(t) <= MaxTests}]

Nothing == [hints |-> {}, tests |-> {}]

VARIABLES
  desc,     \* The descriptions on GitHub.
  code,     \* The group changes a file under roles/ or plugins/.
  pc,       \* Next step of the script.
  read,     \* Pull requests read.
  unread,   \* History: those whose description could not be fetched.
  noCheck,  \* NB_NOCHECK.
  force,    \* FORCE_CHECK.
  cmd,      \* CMD, CMD_SNO and CMD_SNO_BM: what is left to queue of each.
  jobs,     \* Jobs queued: the command and the pull request.
  ended,    \* Those that have ended.
  posted,   \* The status the script has sent, if it has.
  status    \* What the commit shows: the state, and who posted it.

vars == <<desc, code, pc, read, unread, noCheck, force, cmd, jobs, ended, posted, status>>
script == <<read, unread, noCheck, force, cmd, jobs>>

Init ==
  /\ desc \in [PRs -> Description] /\ code \in BOOLEAN
  /\ pc = "read" /\ read = 0 /\ unread = {} /\ noCheck = 0 /\ force = FALSE
  /\ cmd = [w \in Words |-> <<>>] /\ jobs = <<>> /\ ended = {}
  /\ posted = "nothing" /\ status = <<"none", "nobody">>

-----------------------------------------------------------------------------

\* curl -s: an answer that is lost is noticed by nobody.
SendStatus(state, why) ==
  /\ posted' = why
  /\ \/ status' = <<state, "script">>
     \/ UNCHANGED status

\* Mutant: CMD=(...) for CMD+=(...).
Replaced(list, p) == <<p>>

Added(list, p) == Append(list, p)

\* One round of the loop over the pull requests.  A description that cannot be
\* fetched is an empty one.
ReadPR(fetched) ==
  /\ pc = "read" /\ read < NbPRs
  /\ read' = read + 1
  /\ unread' = IF fetched THEN unread ELSE unread \cup {read + 1}
  /\ LET d == IF fetched THEN desc[read + 1] ELSE Nothing
         hints == d.hints \cap Supported
     IN  IF "no-check" \in hints
         THEN noCheck' = noCheck + 1 /\ UNCHANGED <<force, cmd>>
         ELSE /\ force' = (force \/ "force-check" \in hints)
              /\ cmd' = [w \in Words |-> IF w \in d.tests THEN Added(cmd[w], read + 1) ELSE cmd[w]]
              /\ UNCHANGED noCheck
  /\ UNCHANGED <<desc, code, pc, jobs, ended, posted, status>>

\* Mutant: one pull request with the hint is enough.
SomeNoCheck == ~force /\ noCheck >= 1

NoCodeChange == ~force /\ ~code
NoCheck      == ~force /\ noCheck >= 1 /\ noCheck = NbPRs

CheckChange ==
  /\ pc = "read" /\ read = NbPRs
  /\ \/ NoCodeChange /\ SendStatus("success", "No code change") /\ pc' = "done"
     \/ ~NoCodeChange /\ NoCheck /\ SendStatus("success", "No check") /\ pc' = "done"
     \/ ~NoCodeChange /\ ~NoCheck /\ pc' = "copy" /\ UNCHANGED <<posted, status>>
  /\ UNCHANGED <<desc, code, script, ended>>

\* Mutant: a trap reports the failure of the script.
StopLoudly == pc' = "exit 1" /\ SendStatus("failure", "nothing")

Stop == pc' = "exit 1" /\ UNCHANGED <<posted, status>>

\* The copy of the sources the jobs run from; without its folder the script stops.
CopyChange ==
  /\ pc = "copy"
  /\ \/ pc' = "schedule" /\ UNCHANGED <<posted, status>>
     \/ Stop
  /\ UNCHANGED <<desc, code, script, ended>>

\* The queues are filled one after the other.
ToQueue(w) ==
  \E k \in DOMAIN Commands : /\ Commands[k] = w /\ cmd[w] # <<>>
                             /\ \A l \in 1 .. k - 1 : cmd[Commands[l]] = <<>>

\* A job that cannot be queued ends the script, those queued before stay.
Schedule(w) ==
  /\ pc = "schedule" /\ ToQueue(w)
  /\ \/ /\ jobs' = Append(jobs, <<w, Head(cmd[w])>>)
        /\ cmd' = [cmd EXCEPT ![w] = Tail(@)]
        /\ UNCHANGED <<pc, posted, status>>
     \/ Stop /\ UNCHANGED <<jobs, cmd>>
  /\ UNCHANGED <<desc, code, read, unread, noCheck, force, ended>>

Conclude ==
  /\ pc = "schedule" /\ \A w \in Words : cmd[w] = <<>>
  /\ pc' = "done"
  /\ IF jobs = <<>> THEN SendStatus("success", "No test specified") ELSE SendStatus("pending", "QUEUED")
  /\ UNCHANGED <<desc, code, script, ended>>

\* A job may end at any time after it was queued.
JobEnds(j) ==
  /\ j \in DOMAIN jobs \ ended
  /\ ended' = ended \cup {j}
  /\ \E verdict \in {"success", "failure"} : status' = <<verdict, "job">>
  /\ UNCHANGED <<desc, code, pc, script, posted>>

Script == \/ \E fetched \in BOOLEAN : ReadPR(fetched)
          \/ CheckChange \/ CopyChange
          \/ \E w \in Words : Schedule(w)
          \/ Conclude

AllOver == pc \in {"done", "exit 1"} /\ ended = DOMAIN jobs /\ UNCHANGED vars

Next == \/ Script
        \/ \E j \in DOMAIN jobs : JobEnds(j)
        \/ AllOver

Spec == Init /\ [][Next]_vars

-----------------------------------------------------------------------------
(* Properties.                                                             *)

Status == {"none", "pending", "success", "failure"} \X {"nobody", "script", "job"}

\* The variables have the types of the script's counters and lists.
TypeOK ==
  /\ desc \in [PRs -> Description] /\ code \in BOOLEAN /\ force \in BOOLEAN
  /\ pc \in {"read", "copy", "schedule", "done", "exit 1"}
  /\ read \in 0 .. NbPRs /\ unread \subseteq 1 .. read /\ noCheck \in 0 .. read
  /\ cmd \in [Words -> Seq(PRs)] /\ jobs \in Seq(Words \X PRs)
  /\ ended \subseteq DOMAIN jobs
  /\ posted \in {"nothing", "No code change", "No check", "No test specified", "QUEUED"}
  /\ status \in Status

\* Pull requests whose tests count, and those that force them.
Checked == {p \in PRs : "no-check" \notin desc[p].hints \cap Supported}
Forced  == {p \in Checked : "force-check" \in desc[p].hints \cap Supported}

\* The commit passes without a test only when no pull request of the group asks for
\* one, or they change no code, or all say no-check; and with force-check only in
\* the first case.  A description that could not be fetched is the one exception:
\* it counts as one that asks for nothing (dci-merge.sh:57-104, 166-169).
PassesForReason ==
  status = <<"success", "script">> =>
    /\ jobs = <<>>
    /\ \/ Forced \subseteq unread /\ (~code \/ Checked = {})
       \/ \A p \in Checked \ unread : desc[p].tests \cap Words = {}

\* When the script ends well without a verdict of its own, each test that was asked
\* for and read is queued once, on its queue, and no other; one pull request with
\* no-check takes nothing from the others (dci-merge.sh:134-164).
AskedIsQueued ==
  posted = "QUEUED" =>
    /\ \A j, k \in DOMAIN jobs : jobs[j] = jobs[k] => j = k
    /\ \A w \in Words, p \in PRs :
         (\E j \in DOMAIN jobs : jobs[j] = <<w, p>>)
           <=> p \in Checked \ unread /\ w \in desc[p].tests

\* A script that stops in the middle has posted nothing: what the commit shows is
\* the verdict of a job it had queued before, if anything (dci-merge.sh:113, 136).
StopIsSilent ==
  pc = "exit 1" => posted = "nothing" /\ (status[2] = "job" \/ status = <<"none", "nobody">>)

\* CONTRIBUTING.md:108 documents TestBos2SnoBaremetal for a "baremetal SNO node in
\* the BOS2 lab"; the script looks for TestBos2Baremetal.  A commit does not pass
\* untested when a documented test was asked for, read, and not waived.
DocumentedIsTested ==
  posted = "No test specified" =>
    \A p \in Checked \ unread : desc[p].tests \cap Documented = {}

=============================================================================
