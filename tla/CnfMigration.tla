---------------------------- MODULE CnfMigration ----------------------------
(***************************************************************************)
(* roles/example_cnf_deploy: the two tests that move the CNF application   *)
(* to another node.  "drain" is tasks/draining.yml, "delete" is            *)
(* tasks/validate/pod-delete.yml.  Both cordon the node, remove the pod,   *)
(* wait for its replacement, and uncordon the node at the end only.        *)
(*                                                                         *)
(* Kubernetes is not part of the repository: a controller keeps one        *)
(* replica (size: 1 in the CRs of templates/), the scheduler places it on  *)
(* any node that is not cordoned, and pods may go for reasons of their own.*)
(***************************************************************************)
EXTENDS Naturals, FiniteSets

CONSTANTS
  Nodes,    \* Worker nodes.
  MaxPods,  \* Bound: CNF pods created in one behaviour.
  Tries,    \* Attempts of each wait (24, 12 and 60 in the code).
  MaxRuns,  \* Bound: tests run.
  None      \* Undefined.

ASSUME BoundsAssumption == MaxPods \in Nat \ {0} /\ Tries \in Nat /\ MaxRuns \in Nat
ASSUME NodesAssumption == IsFiniteSet(Nodes) /\ None \notin Nodes
ASSUME NoneAssumption == None \notin Nat

Pods == 1 .. MaxPods

VARIABLES
  pc,           \* Next task, "idle" between tests.
  test,         \* The test that runs: "drain" or "delete".
  tries,        \* Attempts left of the current wait.
  outcome,      \* How the last test ended.
  failed,       \* Tests that failed.
  runs,         \* Tests started.
  oldPod, oldNode,  \* Facts: the pod to move and its node.
  newPod, newNode,  \* Facts: its replacement.
  listed,       \* Facts: the pods listed at the start.
  schedulable,  \* Nodes that are not cordoned.
  node,         \* Node of each pod, None before it is scheduled.
  phase,        \* Phase of each pod, "absent" before and after its life.
  born,         \* Pods created so far.
  trexNode,     \* Node of the TRex server.
  evicting      \* Pods the background drain has still to get rid of.

facts   == <<oldPod, oldNode, newPod, newNode, listed>>
podVars == <<node, phase, born>>
fixed   == <<test, runs, trexNode>>
vars == <<pc, tries, outcome, failed, schedulable, evicting, facts, podVars, fixed>>

TypeOK ==
  /\ pc \in {"idle", "gather", "cordon", "remove", "wait_gone", "wait_new",
             "assert", "uncordon", "compare"}
  /\ test \in {"drain", "delete"} /\ tries \in 0 .. Tries
  /\ outcome \in {"none", "running", "ok", "failed"}
  /\ runs \in 0 .. MaxRuns /\ failed \in 0 .. runs
  /\ oldPod \in Pods \cup {None} /\ newPod \in Pods \cup {None}
  /\ oldNode \in Nodes \cup {None} /\ newNode \in Nodes \cup {None}
  /\ listed \subseteq Pods /\ evicting \subseteq Pods
  /\ schedulable \subseteq Nodes
  /\ node \in [Pods -> Nodes \cup {None}]
  /\ phase \in [Pods -> {"absent", "Pending", "Running", "Terminating"}]
  /\ born \in 0 .. MaxPods /\ trexNode \in Nodes

Present == {p \in Pods : phase[p] # "absent"}
Running == {p \in Pods : phase[p] = "Running"}
\* status.phase stays Running, and the containers ready, while a pod goes.
Leaving == {p \in Pods : phase[p] = "Terminating" /\ node[p] # None}

Init ==
  /\ pc = "idle" /\ test = "drain" /\ tries = 0 /\ outcome = "none"
  /\ failed = 0 /\ runs = 0
  /\ oldPod = None /\ oldNode = None /\ newPod = None /\ newNode = None
  /\ listed = {} /\ evicting = {} /\ schedulable = Nodes
  /\ trexNode \in Nodes
  /\ \E n \in Nodes \ {trexNode} : node = [p \in Pods |-> IF p = 1 THEN n ELSE None]
  /\ phase = [p \in Pods |-> IF p = 1 THEN "Running" ELSE "absent"]
  /\ born = 1

-----------------------------------------------------------------------------
(* The tests.                                                              *)

Goto(l) ==
  /\ pc' = l
  /\ tries' = IF l \in {"wait_gone", "wait_new"} THEN Tries ELSE 0
  /\ UNCHANGED <<outcome, failed>>

\* A task fails and the play stops there: nothing uncordons the node.
Fail ==
  /\ pc' = "idle" /\ tries' = 0 /\ outcome' = "failed" /\ failed' = failed + 1

\* Mutant: attempts are not counted.
RetryForever == UNCHANGED <<tries, pc, outcome, failed>>

Retry ==
  /\ tries > 0 /\ tries' = tries - 1
  /\ UNCHANGED <<pc, outcome, failed>>

\* Facts are left from an earlier test of the same kind in the same play; a new
\* play has none.  (The two kinds use facts of different names.)
Start(t) ==
  /\ pc = "idle" /\ runs < MaxRuns
  /\ test' = t /\ runs' = runs + 1
  /\ pc' = "gather" /\ tries' = 0 /\ outcome' = "running"
  /\ \/ t = test /\ UNCHANGED facts
     \/ /\ oldPod' = None /\ oldNode' = None /\ newPod' = None /\ newNode' = None
        /\ listed' = {}
  /\ UNCHANGED <<failed, schedulable, evicting, podVars, trexNode>>

\* resources[0] is any pod of the list; one without a node has no nodeName.
Gather ==
  /\ pc = "gather"
  /\ \/ \E p \in Present :
          /\ node[p] # None
          /\ oldPod' = p /\ oldNode' = node[p] /\ listed' = Present
          /\ Goto("cordon")
     \/ /\ Present = {} \/ \E p \in Present : node[p] = None
        /\ Fail /\ UNCHANGED <<oldPod, oldNode, listed>>
  /\ UNCHANGED <<newPod, newNode, schedulable, evicting, podVars, fixed>>

Cordon ==
  /\ pc = "cordon" /\ Goto("remove")
  /\ schedulable' = schedulable \ {oldNode}
  /\ UNCHANGED <<evicting, facts, podVars, fixed>>

\* The drain is started and left to itself; the deletion is a request followed
\* by a wait.
Remove ==
  /\ pc = "remove" /\ oldNode \notin schedulable /\ Goto("wait_gone")
  /\ IF test = "drain"
     THEN /\ evicting' = {p \in Present : node[p] = oldNode}
          /\ UNCHANGED phase
     ELSE /\ phase' = [phase EXCEPT ![oldPod] = IF @ = "absent" THEN @ ELSE "Terminating"]
          /\ UNCHANGED evicting
  /\ UNCHANGED <<schedulable, facts, node, born, fixed>>

WaitGone ==
  /\ pc = "wait_gone"
  /\ \/ phase[oldPod] = "absent" /\ Goto("wait_new")
     \/ phase[oldPod] # "absent" /\ Retry
     \/ phase[oldPod] # "absent" /\ tries = 0 /\ Fail
  /\ UNCHANGED <<schedulable, evicting, facts, podVars, fixed>>

\* Draining looks at the first pod of the list, whichever that is, and takes it
\* if it runs, even one that is about to go.  An empty list has no resources[0],
\* which is an error in the condition of the wait.
WaitNewFirst ==
  /\ pc = "wait_new" /\ test = "drain"
  /\ \/ \E p \in Running \cup Leaving : newPod' = p /\ newNode' = node[p] /\ Goto("assert")
     \/ Present \ Running # {} /\ Retry /\ UNCHANGED <<newPod, newNode>>
     \/ /\ Present = {} \/ (Present \ Running # {} /\ tries = 0)
        /\ Fail /\ UNCHANGED <<newPod, newNode>>
  /\ UNCHANGED <<oldPod, oldNode, listed, schedulable, evicting, podVars, fixed>>

\* Mutant: the node is not compared with the one that is drained.
AssertMovedSomewhere ==
  /\ pc = "assert"
  /\ IF newNode # trexNode /\ newPod # oldPod THEN Goto("uncordon") ELSE Fail
  /\ UNCHANGED <<schedulable, evicting, facts, podVars, fixed>>

AssertMoved ==
  /\ pc = "assert"
  /\ IF newNode \notin {oldNode, trexNode} /\ newPod # oldPod
     THEN Goto("uncordon") ELSE Fail
  /\ UNCHANGED <<schedulable, evicting, facts, podVars, fixed>>

\* Deleting waits for as many pods in phase Running as were listed, those about
\* to go included, and takes the node of one that was not listed.
WaitNewCount ==
  /\ pc = "wait_new" /\ test = "delete"
  /\ \E going \in SUBSET Leaving :
       LET shown     == Running \cup going
           arrived   == Cardinality(shown) = Cardinality(listed)
           newcomers == shown \ listed
       IN  \/ /\ arrived /\ Goto("uncordon")
              /\ \/ \E p \in newcomers : newPod' = p /\ newNode' = node[p]
                 \/ newcomers = {} /\ UNCHANGED <<newPod, newNode>>
           \/ ~arrived /\ Retry /\ UNCHANGED <<newPod, newNode>>
           \/ ~arrived /\ tries = 0 /\ Fail /\ UNCHANGED <<newPod, newNode>>
  /\ UNCHANGED <<oldPod, oldNode, listed, schedulable, evicting, podVars, fixed>>

Succeed ==
  /\ pc' = "idle" /\ outcome' = "ok" /\ UNCHANGED <<tries, failed>>

\* Mutant: the node given back is that of the new pod.
UncordonNewNode ==
  /\ pc = "uncordon"
  /\ schedulable' = schedulable \cup ({newNode} \ {None})
  /\ IF test = "drain" THEN Succeed ELSE Goto("compare")
  /\ UNCHANGED <<evicting, facts, podVars, fixed>>

Uncordon ==
  /\ pc = "uncordon"
  /\ schedulable' = schedulable \cup {oldNode}
  /\ IF test = "drain" THEN Succeed ELSE Goto("compare")
  /\ UNCHANGED <<evicting, facts, podVars, fixed>>

\* Mutant: the nodes are not compared.
CompareNothing ==
  /\ pc = "compare" /\ Succeed
  /\ UNCHANGED <<schedulable, evicting, facts, podVars, fixed>>

CompareNodes ==
  /\ pc = "compare"
  /\ IF newNode \in {oldNode, None} THEN Fail ELSE Succeed
  /\ UNCHANGED <<schedulable, evicting, facts, podVars, fixed>>

\* A call to the API or to oc fails.
TaskError ==
  /\ pc # "idle" /\ Fail
  /\ UNCHANGED <<schedulable, evicting, facts, podVars, fixed>>

Tasks ==
  \/ Gather \/ Cordon \/ Remove \/ WaitGone \/ WaitNewFirst \/ AssertMoved
  \/ WaitNewCount \/ Uncordon \/ CompareNodes

Role == Tasks \/ TaskError

-----------------------------------------------------------------------------
(* Kubernetes and the background drain.                                    *)

playVars == <<pc, tries, outcome, failed, facts, fixed>>

Recreate ==
  /\ \A p \in Pods : phase[p] \notin {"Pending", "Running"}
  /\ born < MaxPods
  /\ born' = born + 1
  /\ phase' = [phase EXCEPT ![born + 1] = "Pending"]
  /\ UNCHANGED <<node, schedulable, evicting, playVars>>

Schedule ==
  /\ \E p \in Pods, n \in schedulable :
       /\ phase[p] = "Pending"
       /\ phase' = [phase EXCEPT ![p] = "Running"]
       /\ node' = [node EXCEPT ![p] = n]
  /\ UNCHANGED <<born, schedulable, evicting, playVars>>

Disrupt ==
  /\ \E p \in Running : phase' = [phase EXCEPT ![p] = "Terminating"]
  /\ UNCHANGED <<node, born, schedulable, evicting, playVars>>

Vanish ==
  /\ \E p \in Pods : phase[p] = "Terminating" /\ phase' = [phase EXCEPT ![p] = "absent"]
  /\ UNCHANGED <<node, born, schedulable, evicting, playVars>>

\* oc adm drain evicts the pods it found on the node and waits for them to go.
Evict ==
  /\ \E p \in evicting : phase[p] = "Running" /\ phase' = [phase EXCEPT ![p] = "Terminating"]
  /\ UNCHANGED <<node, born, schedulable, evicting, playVars>>

\* It ends when they are gone, or is killed after its 60 seconds (async: 60).
DrainEnds ==
  /\ evicting # {} /\ evicting' = {}
  /\ UNCHANGED <<podVars, schedulable, playVars>>

Cluster == Recreate \/ Schedule \/ Disrupt \/ Vanish \/ Evict \/ DrainEnds

Done == pc = "idle" /\ runs = MaxRuns /\ UNCHANGED vars

Next == (\E t \in {"drain", "delete"} : Start(t)) \/ Role \/ Cluster \/ Done

Spec == Init /\ [][Next]_vars

\* The play never idles in a task; that a task fails is not counted on, and of
\* the cluster nothing is assumed.
FairSpec == Spec /\ WF_vars(Tasks)

-----------------------------------------------------------------------------
(* Properties.                                                             *)

\* A test that passed has seen its pod go, and another one, the one in the facts,
\* on another node.  For draining that node is not the traffic generator's
\* either, but the pod may be one that was there when the test began.  After the
\* deletion it is one that was not: the facts of an earlier test are never taken
\* for the result, although no task resets them ("Set new CNFApp node name").
PassMeansMoved ==
  outcome = "ok" =>
    /\ phase[oldPod] = "absent"
    /\ newPod \in Pods \ {oldPod}
    /\ newNode = node[newPod] /\ newNode \in Nodes \ {oldNode}
    /\ test = "drain" => newNode # trexNode
    /\ test = "delete" => newPod \notin listed

\* When the draining test passes, and the pod it took for the new one still
\* runs, the drain left in the background has no pod to evict any more, not even
\* one created on the node between the listing and the cordon: it does not
\* disturb what runs after the test.
NoEvictionAfterPass ==
  [][test = "drain" /\ outcome = "running" /\ outcome' = "ok" /\ phase[newPod] = "Running"
       => \A p \in evicting : phase[p] # "Running"]_vars

\* Tests that pass give the node back.  A failed one may keep it, but only one:
\* nodes are lost to failures alone, and never two to the same one.
CordonsOnlyByFailures ==
  Cardinality(Nodes \ schedulable) <= failed + (IF outcome = "running" THEN 1 ELSE 0)

\* The wait for a replacement never hangs: every test ends.
TestEnds == pc # "idle" ~> pc = "idle"
=============================================================================
