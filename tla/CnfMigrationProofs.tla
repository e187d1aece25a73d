------------------------- MODULE CnfMigrationProofs -------------------------
(***************************************************************************)
(* Proofs about the migration tests of example_cnf_deploy, for any number  *)
(* of nodes, pods, attempts and tests.                                     *)
(***************************************************************************)
EXTENDS CnfMigration, FiniteSetTheorems, TLAPS

\* A pod gets its node once, when it leaves Pending, and at most one is to stay.
PodInv ==
  /\ \A p \in Pods : p > born => phase[p] = "absent" /\ node[p] = None
  /\ \A p \in Pods : phase[p] = "Pending" => node[p] = None
  /\ \A p \in Pods : phase[p] = "Running" => node[p] # None
  /\ \A p, q \in Pods :
       phase[p] \in {"Pending", "Running"} /\ phase[q] \in {"Pending", "Running"} => p = q

\* A test that runs has not failed yet.
PlayInv == (outcome = "running" <=> pc # "idle") /\ (pc # "idle" => failed < runs)

\* A pod in the facts was on the node in the facts, and that stays true.
Fact(p, n) == IF p = None THEN n = None ELSE p <= born /\ n = node[p] /\ n # None

FactsInv ==
  /\ Fact(oldPod, oldNode) /\ Fact(newPod, newNode)
  /\ pc \notin {"idle", "gather"} => oldPod # None

Moved == newPod # None /\ newPod # oldPod /\ newNode # oldNode

\* What each test knows of the new pod besides, once it has been found.
Arrived ==
  /\ test = "drain" => newNode # trexNode
  /\ test = "delete" => newPod \notin listed

\* What the tasks of a test have seen so far.
TestInv ==
  /\ pc \in {"wait_new", "assert", "uncordon", "compare"} => phase[oldPod] = "absent"
  /\ pc = "assert" => test = "drain" /\ newPod # None
  /\ pc = "uncordon" /\ test = "drain" => Moved
  /\ pc = "compare" => test = "delete"
  /\ pc \notin {"idle", "gather"} => oldPod \in listed
  /\ pc \in {"uncordon", "compare"} => Arrived
  /\ outcome = "ok" => oldPod # None /\ phase[oldPod] = "absent" /\ Moved /\ Arrived

\* The background drain of the test that runs evicts pods of the old node only.
EvictInv ==
  test = "drain" /\ pc \in {"wait_gone", "wait_new", "assert", "uncordon"}
    => \A p \in evicting : node[p] = oldNode

Cordoned == Nodes \ schedulable

\* But for the node of the test that runs, each cordoned one is owed to a failure.
CordonInv ==
  IF pc \in {"remove", "wait_gone", "wait_new", "assert", "uncordon"}
  THEN Cardinality(Cordoned \ {oldNode}) <= failed
  ELSE Cardinality(Cordoned) <= failed

IInv == TypeOK /\ PlayInv /\ PodInv /\ FactsInv /\ TestInv /\ EvictInv /\ CordonInv

\* Nothing has been tested yet, and the only pod runs.
LEMMA InitInv == Init => IInv
<1>. SUFFICES ASSUME Init PROVE IInv
  OBVIOUS
<1>1. TypeOK
  BY BoundsAssumption DEF Init, TypeOK, Pods
<1>2. PodInv
  BY BoundsAssumption, NodesAssumption DEF Init, PodInv, Pods
<1>3. PlayInv /\ FactsInv /\ TestInv /\ EvictInv
  BY DEF Init, PlayInv, FactsInv, TestInv, EvictInv, Fact
<1>4. CordonInv
  <2>1. Cordoned = {} /\ pc = "idle" /\ failed = 0
    BY DEF Init, Cordoned
  <2>. QED  BY <2>1, FS_EmptySet DEF CordonInv
<1>. QED  BY <1>1, <1>2, <1>3, <1>4 DEF IInv

\* A task goes on, tries again, or ends the test.
Control ==
  /\ pc' \in {"idle", "gather", "cordon", "remove", "wait_gone", "wait_new",
              "assert", "uncordon", "compare"}
  /\ tries' \in 0 .. Tries
  /\ outcome' \in {"ok", "failed", outcome}
  /\ failed' = IF outcome' = "failed" /\ pc' = "idle" THEN failed + 1 ELSE failed
  /\ pc' = "idle" <=> outcome' # "running"

\* Every task of a running test is one of the three.
LEMMA RoleControl ==
  ASSUME TypeOK, PlayInv, Role
  PROVE  Control /\ pc # "idle"
<1>. USE BoundsAssumption DEF TypeOK, PlayInv, Control, Goto, Retry, Fail, Succeed
<1>1. CASE Gather
  BY <1>1 DEF Gather
<1>2. CASE Cordon
  BY <1>2 DEF Cordon
<1>3. CASE Remove
  BY <1>3 DEF Remove
<1>4. CASE WaitGone
  BY <1>4 DEF WaitGone
<1>5. CASE WaitNewFirst
  BY <1>5 DEF WaitNewFirst
<1>6. CASE AssertMoved
  BY <1>6 DEF AssertMoved
<1>7. CASE WaitNewCount
  BY <1>7 DEF WaitNewCount
<1>8. CASE Uncordon
  BY <1>8 DEF Uncordon
<1>9. CASE CompareNodes
  BY <1>9 DEF CompareNodes
<1>10. CASE TaskError
  BY <1>10 DEF TaskError
<1>. QED  BY <1>1, <1>2, <1>3, <1>4, <1>5, <1>6, <1>7, <1>8, <1>9, <1>10 DEF Role, Tasks

\* No step takes a variable out of its type, and a test fails once.
LEMMA TypeStep == TypeOK /\ PlayInv /\ FactsInv /\ [Next]_vars => TypeOK' /\ PlayInv'
<1>. SUFFICES ASSUME TypeOK, PlayInv, FactsInv, [Next]_vars PROVE TypeOK' /\ PlayInv'
  OBVIOUS
<1>. USE BoundsAssumption
<1>1. ASSUME NEW t \in {"drain", "delete"}, Start(t) PROVE TypeOK' /\ PlayInv'
  BY <1>1 DEF TypeOK, PlayInv, Start, podVars, facts
<1>2. CASE Role
  <2>1. UNCHANGED fixed
    BY <1>2 DEF Role, Tasks, Gather, Cordon, Remove, WaitGone, WaitNewFirst, AssertMoved,
      WaitNewCount, Uncordon, CompareNodes, TaskError
  <2>2. /\ pc' \in {"idle", "gather", "cordon", "remove", "wait_gone", "wait_new",
                    "assert", "uncordon", "compare"}
        /\ tries' \in 0 .. Tries /\ outcome' \in {"none", "running", "ok", "failed"}
        /\ failed' \in 0 .. runs' /\ PlayInv'
    BY <1>2, <2>1, RoleControl DEF Control, TypeOK, PlayInv, fixed
  <2>3. /\ oldPod' \in Pods \cup {None} /\ oldNode' \in Nodes \cup {None}
        /\ listed' \subseteq Pods
    <3>1. CASE Gather
      BY <3>1 DEF Gather, TypeOK, Present
    <3>2. CASE ~Gather
      BY <1>2, <3>2 DEF Role, Tasks, Cordon, Remove, WaitGone, WaitNewFirst, AssertMoved,
        WaitNewCount, Uncordon, CompareNodes, TaskError, TypeOK, facts
    <3>. QED  BY <3>1, <3>2
  <2>4. newPod' \in Pods \cup {None} /\ newNode' \in Nodes \cup {None}
    <3>1. CASE WaitNewFirst
      BY <3>1 DEF WaitNewFirst, TypeOK, Running, Leaving
    <3>2. CASE WaitNewCount
      BY <3>2 DEF WaitNewCount, TypeOK, Running, Leaving
    <3>3. CASE ~WaitNewFirst /\ ~WaitNewCount
      BY <1>2, <3>3 DEF Role, Tasks, Gather, Cordon, Remove, WaitGone, AssertMoved,
        Uncordon, CompareNodes, TaskError, TypeOK, facts
    <3>. QED  BY <3>1, <3>2, <3>3
  <2>5. /\ evicting' \subseteq Pods /\ UNCHANGED <<node, born>>
        /\ phase' \in [Pods -> {"absent", "Pending", "Running", "Terminating"}]
    <3>1. CASE Remove
      BY <3>1 DEF Remove, TypeOK, Present
    <3>2. CASE ~Remove
      BY <1>2, <3>2 DEF Role, Tasks, Gather, Cordon, WaitGone, WaitNewFirst, AssertMoved,
        WaitNewCount, Uncordon, CompareNodes, TaskError, TypeOK, podVars
    <3>. QED  BY <3>1, <3>2
  <2>6. schedulable' \subseteq Nodes
    <3>1. CASE Cordon
      BY <3>1 DEF Cordon, TypeOK
    <3>2. CASE Uncordon
      BY <3>2 DEF Uncordon, TypeOK, FactsInv, Fact
    <3>3. CASE ~Cordon /\ ~Uncordon
      BY <1>2, <3>3 DEF Role, Tasks, Gather, Remove, WaitGone, WaitNewFirst, AssertMoved,
        WaitNewCount, CompareNodes, TaskError, TypeOK
    <3>. QED  BY <3>1, <3>2, <3>3
  <2>. QED  BY <2>1, <2>2, <2>3, <2>4, <2>5, <2>6 DEF TypeOK, fixed
<1>3. CASE Cluster
  <2>1. UNCHANGED <<schedulable, playVars>>
    BY <1>3 DEF Cluster, Recreate, Schedule, Disrupt, Vanish, Evict, DrainEnds
  <2>2. evicting' \subseteq Pods /\ born' \in 0 .. MaxPods
    BY <1>3 DEF Cluster, Recreate, Schedule, Disrupt, Vanish, Evict, DrainEnds, TypeOK, podVars
  <2>3. /\ node' \in [Pods -> Nodes \cup {None}]
        /\ phase' \in [Pods -> {"absent", "Pending", "Running", "Terminating"}]
    BY <1>3 DEF Cluster, Recreate, Schedule, Disrupt, Vanish, Evict, DrainEnds, TypeOK, podVars
  <2>. QED  BY <2>1, <2>2, <2>3 DEF TypeOK, PlayInv, playVars, facts, fixed
<1>4. CASE UNCHANGED vars
  BY <1>4 DEF TypeOK, PlayInv, vars, facts, podVars, fixed
<1>. QED  BY <1>1, <1>2, <1>3, <1>4 DEF Next, Done

\* The tasks change no pod, but for the one the deletion test asks to go.
LEMMA RolePods ==
  ASSUME Role
  PROVE  /\ UNCHANGED <<node, born, test, runs, trexNode>>
         /\ phase' = phase \/ (Remove /\ phase' = [phase EXCEPT ![oldPod] =
                                                     IF @ = "absent" THEN @ ELSE "Terminating"])
BY DEF Role, Tasks, Gather, Cordon, Remove, WaitGone, WaitNewFirst, AssertMoved, WaitNewCount,
  Uncordon, CompareNodes, TaskError, podVars, fixed

\* A pod that has a node keeps it, and one that is gone does not come back.
LEMMA PodsGrow ==
  ASSUME TypeOK, PodInv, [Next]_vars
  PROVE  /\ \A p \in Pods : p <= born => p <= born'
         /\ \A p \in Pods : node[p] # None => node'[p] = node[p]
         /\ \A p \in Pods : p <= born /\ phase[p] = "absent" => phase'[p] = "absent"
<1>. USE DEF TypeOK
<1>1. ASSUME NEW t \in {"drain", "delete"}, Start(t) PROVE UNCHANGED podVars
  BY <1>1 DEF Start
<1>2. CASE Role
  BY <1>2, RolePods, BoundsAssumption DEF Pods
<1>3. CASE Recreate
  BY <1>3, BoundsAssumption DEF Recreate, Pods
<1>4. CASE Schedule
  BY <1>4, BoundsAssumption DEF Schedule, PodInv
<1>5. CASE Disrupt \/ Vanish \/ Evict \/ DrainEnds
  BY <1>5, BoundsAssumption DEF Disrupt, Vanish, Evict, DrainEnds, podVars, Running
<1>6. CASE UNCHANGED vars
  BY <1>6, BoundsAssumption DEF vars, podVars
<1>. QED
  BY <1>1, <1>2, <1>3, <1>4, <1>5, <1>6, BoundsAssumption DEF Next, Done, Cluster, podVars

\* The controller keeps one replica, and the scheduler gives it a node.
LEMMA PodStep == TypeOK /\ FactsInv /\ PodInv /\ [Next]_vars => PodInv'
<1>. SUFFICES ASSUME TypeOK, FactsInv, PodInv, [Next]_vars PROVE PodInv'
  OBVIOUS
<1>. USE DEF TypeOK
<1>1. ASSUME NEW t \in {"drain", "delete"}, Start(t) PROVE PodInv'
  BY <1>1 DEF Start, podVars, PodInv
<1>2. CASE Role
  BY <1>2, RolePods DEF PodInv
<1>3. CASE Recreate
  <2>1. born + 1 \in Pods /\ node[born + 1] = None /\ \A p \in Pods : p > born + 1 => p > born
    BY <1>3, BoundsAssumption DEF Recreate, Pods, PodInv
  <2>. QED  BY <1>3, <2>1 DEF Recreate, PodInv
<1>4. CASE Schedule
  BY <1>4, NodesAssumption DEF Schedule, PodInv
<1>5. CASE Disrupt
  BY <1>5 DEF Disrupt, PodInv, Running
<1>6. CASE Vanish
  BY <1>6 DEF Vanish, PodInv
<1>7. CASE Evict
  BY <1>7 DEF Evict, PodInv
<1>8. CASE DrainEnds
  BY <1>8 DEF DrainEnds, podVars, PodInv
<1>9. CASE UNCHANGED vars
  BY <1>9 DEF vars, podVars, PodInv
<1>. QED  BY <1>1, <1>2, <1>3, <1>4, <1>5, <1>6, <1>7, <1>8, <1>9 DEF Next, Done, Cluster

\* A fact about a pod stays true while it is kept.
LEMMA FactStays ==
  ASSUME TypeOK, PodInv, [Next]_vars, NEW p \in Pods \cup {None}, NEW n, Fact(p, n)
  PROVE  Fact(p, n)'
BY PodsGrow, BoundsAssumption DEF Fact, TypeOK, Pods

\* The facts of a play are about pods that were on the nodes the facts name.
LEMMA FactsStep == TypeOK /\ PodInv /\ FactsInv /\ [Next]_vars => FactsInv'
<1>. SUFFICES ASSUME TypeOK, PodInv, FactsInv, [Next]_vars PROVE FactsInv'
  OBVIOUS
<1>1. ASSUME NEW p \in Pods, phase[p] # "absent", node[p] # None, NEW n, n = node[p],
             UNCHANGED <<node, born>>
      PROVE  Fact(p, n)' /\ p # None
  BY <1>1, NoneAssumption, BoundsAssumption DEF Fact, PodInv, Pods, TypeOK
<1>2. ASSUME UNCHANGED <<oldPod, oldNode>> PROVE Fact(oldPod, oldNode)'
  BY <1>2, FactStays DEF FactsInv, Fact, TypeOK
<1>3. ASSUME UNCHANGED <<newPod, newNode>> PROVE Fact(newPod, newNode)'
  BY <1>3, FactStays DEF FactsInv, Fact, TypeOK
<1>4. ASSUME NEW t \in {"drain", "delete"}, Start(t) PROVE FactsInv'
  BY <1>2, <1>3, <1>4 DEF Start, facts, FactsInv, Fact
<1>5. CASE Gather
  <2>1. CASE \E p \in Present : node[p] # None /\ oldPod' = p /\ oldNode' = node[p]
    BY <1>1, <1>3, <1>5, <2>1 DEF Gather, Present, podVars, FactsInv, Fact
  <2>2. CASE UNCHANGED <<oldPod, oldNode>> /\ pc' = "idle"
    BY <1>2, <1>3, <1>5, <2>2 DEF Gather, FactsInv
  <2>. QED  BY <1>5, <2>1, <2>2 DEF Gather, Fail
<1>6. CASE WaitNewFirst
  <2>1. CASE \E p \in Running \cup Leaving : newPod' = p /\ newNode' = node[p]
    BY <1>1, <1>2, <1>6, <2>1 DEF WaitNewFirst, Running, Leaving, podVars, FactsInv, Fact, PodInv
  <2>2. CASE UNCHANGED <<newPod, newNode>>
    BY <1>2, <1>3, <1>6, <2>2 DEF WaitNewFirst, FactsInv
  <2>. QED  BY <1>6, <2>1, <2>2 DEF WaitNewFirst
<1>7. CASE WaitNewCount
  <2>1. CASE \E p \in Running \cup Leaving : newPod' = p /\ newNode' = node[p]
    BY <1>1, <1>2, <1>7, <2>1 DEF WaitNewCount, Running, Leaving, podVars, FactsInv, Fact, PodInv
  <2>2. CASE UNCHANGED <<newPod, newNode>>
    BY <1>2, <1>3, <1>7, <2>2 DEF WaitNewCount, FactsInv
  <2>. QED  BY <1>7, <2>1, <2>2 DEF WaitNewCount
<1>8. CASE Cordon \/ Remove \/ WaitGone \/ AssertMoved \/ Uncordon \/ CompareNodes \/ TaskError
  <2>1. UNCHANGED facts /\ (pc' \notin {"idle", "gather"} => pc \notin {"idle", "gather"})
    BY <1>8 DEF Cordon, Remove, WaitGone, AssertMoved, Uncordon, CompareNodes, TaskError,
      Goto, Retry, Fail, Succeed
  <2>. QED  BY <1>2, <1>3, <2>1 DEF facts, FactsInv
<1>9. CASE Cluster \/ UNCHANGED vars
  <2>1. UNCHANGED playVars
    BY <1>9 DEF Cluster, Recreate, Schedule, Disrupt, Vanish, Evict, DrainEnds, vars, playVars
  <2>. QED  BY <1>2, <1>3, <2>1 DEF playVars, facts, FactsInv
<1>. QED  BY <1>4, <1>5, <1>6, <1>7, <1>8, <1>9 DEF Next, Role, Tasks, Done

\* As many pods as were listed, and the old one is not among them: another one
\* must be.
LEMMA Newcomers ==
  ASSUME NEW shown, listed \subseteq Pods, oldPod \in listed, oldPod \notin shown,
         Cardinality(shown) = Cardinality(listed)
  PROVE  shown \ listed # {}
<1>. SUFFICES ASSUME shown \ listed = {} PROVE FALSE
  OBVIOUS
<1>1. IsFiniteSet(listed)
  <2>1. 1 \in Int /\ MaxPods \in Int
    BY BoundsAssumption
  <2>2. IsFiniteSet(Pods)
    BY <2>1, FS_Interval DEF Pods
  <2>. QED  BY <2>2, FS_Subset
<1>2. /\ IsFiniteSet(listed \ {oldPod})
      /\ Cardinality(listed \ {oldPod}) = Cardinality(listed) - 1
  BY <1>1, FS_RemoveElement
<1>3. shown \subseteq listed \ {oldPod}
  OBVIOUS
<1>4. /\ Cardinality(shown) <= Cardinality(listed \ {oldPod})
      /\ Cardinality(listed) \in Nat
  BY <1>1, <1>2, <1>3, FS_Subset, FS_CardinalityType
<1>. QED  BY <1>2, <1>4

\* What a test has seen stays true until it ends, and after.
LEMMA TestStep == TypeOK /\ PlayInv /\ PodInv /\ FactsInv /\ TestInv /\ [Next]_vars => TestInv'
<1>. SUFFICES ASSUME TypeOK, PlayInv, PodInv, FactsInv, TestInv, [Next]_vars PROVE TestInv'
  OBVIOUS
<1>1. ASSUME oldPod # None, phase[oldPod] = "absent" PROVE phase'[oldPod] = "absent"
  BY <1>1, PodsGrow DEF FactsInv, Fact, TypeOK
<1>2. ASSUME NEW t \in {"drain", "delete"}, Start(t) PROVE TestInv'
  BY <1>2 DEF Start, TestInv
<1>3. CASE Gather \/ Cordon \/ Remove \/ TaskError
  BY <1>3 DEF Gather, Cordon, Remove, TaskError, Goto, Fail, TestInv, PlayInv, Present, facts
<1>4. CASE WaitGone
  BY <1>1, <1>4 DEF WaitGone, Goto, Retry, Fail, TestInv, PlayInv, FactsInv, podVars, facts
<1>5. CASE WaitNewFirst
  <2>1. (\E p \in Running \cup Leaving : newPod' = p) => newPod' # None
    BY NoneAssumption, BoundsAssumption DEF Running, Leaving, Pods
  <2>. QED
    BY <1>1, <1>5, <2>1 DEF WaitNewFirst, Goto, Retry, Fail, TestInv, PlayInv, FactsInv,
      podVars, fixed
<1>6. CASE AssertMoved
  BY <1>1, <1>6 DEF AssertMoved, Goto, Fail, TestInv, PlayInv, FactsInv, Moved, Arrived,
    podVars, facts, fixed
<1>7. CASE WaitNewCount
  <2>1. PICK going \in SUBSET Leaving :
          \/ /\ Cardinality(Running \cup going) = Cardinality(listed)
             /\ Goto("uncordon")
             /\ \/ \E p \in (Running \cup going) \ listed : newPod' = p
                \/ (Running \cup going) \ listed = {}
          \/ Retry
          \/ Fail
    BY <1>7 DEF WaitNewCount
  <2>2. oldPod \in listed /\ oldPod \notin Running \cup going /\ listed \subseteq Pods
    BY <1>7 DEF WaitNewCount, TestInv, Running, Leaving, TypeOK
  <2>3. pc' = "uncordon" => newPod' \notin listed
    BY <1>7, <2>1, <2>2, Newcomers DEF WaitNewCount, Retry, Fail
  <2>. QED
    BY <1>1, <1>7, <2>1, <2>3 DEF WaitNewCount, Goto, Retry, Fail, TestInv, PlayInv, FactsInv,
      Arrived, podVars, fixed
<1>8. CASE Uncordon
  BY <1>1, <1>8 DEF Uncordon, Goto, Succeed, TestInv, PlayInv, FactsInv, Moved, Arrived,
    podVars, facts, fixed, TypeOK
<1>9. CASE CompareNodes
  <2>1. newNode \notin {oldNode, None} => newPod # None /\ newPod # oldPod
    BY DEF FactsInv, Fact
  <2>. QED
    BY <1>1, <1>9, <2>1 DEF CompareNodes, Succeed, Fail, TestInv, PlayInv, FactsInv, Moved,
      Arrived, podVars, facts, fixed
<1>10. CASE Cluster \/ UNCHANGED vars
  <2>1. UNCHANGED playVars
    BY <1>10 DEF Cluster, Recreate, Schedule, Disrupt, Vanish, Evict, DrainEnds, vars, playVars
  <2>. QED  BY <1>1, <2>1 DEF playVars, facts, fixed, TestInv, FactsInv, PlayInv, Moved, Arrived
<1>. QED
  BY <1>2, <1>3, <1>4, <1>5, <1>6, <1>7, <1>8, <1>9, <1>10 DEF Next, Role, Tasks, Done

\* A pod the drain may evict was on the old node when it was listed, and still is.
LEMMA EvictStep == TypeOK /\ PodInv /\ FactsInv /\ EvictInv /\ [Next]_vars => EvictInv'
<1>. SUFFICES ASSUME TypeOK, PodInv, FactsInv, EvictInv, [Next]_vars PROVE EvictInv'
  OBVIOUS
<1>1. ASSUME NEW t \in {"drain", "delete"}, Start(t) PROVE EvictInv'
  BY <1>1 DEF Start, EvictInv
<1>2. CASE Gather \/ Cordon \/ TaskError
  BY <1>2 DEF Gather, Cordon, TaskError, Goto, Fail, EvictInv
<1>3. CASE Remove
  BY <1>3 DEF Remove, EvictInv, facts, fixed
<1>4. CASE WaitGone \/ WaitNewFirst \/ AssertMoved \/ WaitNewCount \/ Uncordon \/ CompareNodes
  <2>1. UNCHANGED <<test, oldNode, evicting, node>>
    BY <1>4 DEF WaitGone, WaitNewFirst, AssertMoved, WaitNewCount, Uncordon, CompareNodes,
      facts, podVars, fixed
  <2>2. test = "drain" /\ pc' \in {"wait_gone", "wait_new", "assert", "uncordon"}
          => pc \in {"wait_gone", "wait_new", "assert", "uncordon"}
    BY <1>4 DEF WaitGone, WaitNewFirst, AssertMoved, WaitNewCount, Uncordon, CompareNodes,
      Goto, Retry, Fail, Succeed
  <2>. QED  BY <2>1, <2>2 DEF EvictInv
<1>5. CASE Cluster \/ UNCHANGED vars
  <2>1. UNCHANGED playVars /\ evicting' \subseteq evicting
    BY <1>5 DEF Cluster, Recreate, Schedule, Disrupt, Vanish, Evict, DrainEnds, vars, playVars
  <2>2. pc # "idle" /\ pc # "gather" => oldNode # None
    BY DEF FactsInv, Fact
  <2>. QED  BY <2>1, <2>2, PodsGrow DEF playVars, facts, fixed, EvictInv, TypeOK
<1>. QED  BY <1>1, <1>2, <1>3, <1>4, <1>5 DEF Next, Role, Tasks, Done

\* Taking one node away changes the number of cordoned ones by one at most.
LEMMA CordonedSize ==
  ASSUME TypeOK
  PROVE  /\ Cardinality(Cordoned) \in Nat /\ Cardinality(Cordoned \ {oldNode}) \in Nat
         /\ Cardinality(Cordoned \ {oldNode}) <= Cardinality(Cordoned)
         /\ Cardinality(Cordoned) <= Cardinality(Cordoned \ {oldNode}) + 1
<1>1. IsFiniteSet(Cordoned)
  BY NodesAssumption, FS_Subset DEF Cordoned
<1>2. IsFiniteSet(Cordoned \ {oldNode})
      /\ Cardinality(Cordoned \ {oldNode}) =
           IF oldNode \in Cordoned THEN Cardinality(Cordoned) - 1 ELSE Cardinality(Cordoned)
  BY <1>1, FS_RemoveElement
<1>3. Cardinality(Cordoned) \in Nat /\ Cardinality(Cordoned \ {oldNode}) \in Nat
  BY <1>1, <1>2, FS_CardinalityType
<1>. QED  BY <1>2, <1>3

\* A node is cordoned by one test only, which gives it back or fails.
LEMMA CordonStep == TypeOK /\ PlayInv /\ FactsInv /\ CordonInv /\ [Next]_vars => CordonInv'
<1>. SUFFICES ASSUME TypeOK, PlayInv, FactsInv, CordonInv, [Next]_vars PROVE CordonInv'
  OBVIOUS
<1>1. /\ Cardinality(Cordoned) \in Nat /\ Cardinality(Cordoned \ {oldNode}) \in Nat
      /\ Cardinality(Cordoned \ {oldNode}) <= Cardinality(Cordoned)
      /\ Cardinality(Cordoned) <= Cardinality(Cordoned \ {oldNode}) + 1
  BY CordonedSize
<1>2. failed \in Nat
  BY DEF TypeOK
<1>3. ASSUME NEW t \in {"drain", "delete"}, Start(t) PROVE CordonInv'
  BY <1>3 DEF Start, CordonInv, Cordoned
<1>4. CASE Gather
  BY <1>1, <1>2, <1>4 DEF Gather, Goto, Fail, CordonInv, Cordoned
<1>5. CASE Cordon
  <2>1. Cordoned' \ {oldNode} = Cordoned \ {oldNode} /\ oldNode' = oldNode
    BY <1>5 DEF Cordon, Cordoned, facts
  <2>. QED  BY <1>1, <1>2, <1>5, <2>1 DEF Cordon, Goto, CordonInv
<1>6. CASE Remove \/ WaitGone \/ WaitNewFirst \/ AssertMoved \/ WaitNewCount \/ TaskError \/ CompareNodes
  <2>1. UNCHANGED <<Cordoned, oldNode>>
    BY <1>6 DEF Remove, WaitGone, WaitNewFirst, AssertMoved, WaitNewCount, TaskError,
      CompareNodes, facts, Cordoned
  <2>2. \/ pc' = "idle" /\ failed' = failed + 1
        \/ failed' = failed /\ pc = "compare" /\ pc' = "idle"
        \/ /\ failed' = failed
           /\ pc \in {"remove", "wait_gone", "wait_new", "assert", "uncordon"}
           /\ pc' \in {"remove", "wait_gone", "wait_new", "assert", "uncordon"}
    BY <1>6 DEF Remove, WaitGone, WaitNewFirst, AssertMoved, WaitNewCount, TaskError,
      CompareNodes, Goto, Retry, Fail, Succeed
  <2>. QED  BY <1>1, <1>2, <2>1, <2>2 DEF CordonInv
<1>7. CASE Uncordon
  <2>1. Cordoned' = Cordoned \ {oldNode} /\ pc = "uncordon" /\ pc' \in {"idle", "compare"} /\ failed' = failed
    BY <1>7 DEF Uncordon, Cordoned, Goto, Succeed
  <2>. QED  BY <2>1 DEF CordonInv
<1>8. CASE Cluster \/ UNCHANGED vars
  <2>1. UNCHANGED <<playVars, schedulable>>
    BY <1>8 DEF Cluster, Recreate, Schedule, Disrupt, Vanish, Evict, DrainEnds, vars, playVars
  <2>. QED  BY <2>1 DEF playVars, facts, CordonInv, Cordoned
<1>. QED  BY <1>3, <1>4, <1>5, <1>6, <1>7, <1>8 DEF Next, Role, Tasks, Done

\* The invariant: facts, pods, the background drain and the cordons of
\* example_cnf_deploy's tests agree in every reachable state.
THEOREM Invariance == Spec => []IInv
<1>1. Init => IInv
  BY InitInv
<1>2. IInv /\ [Next]_vars => IInv'
  BY TypeStep, PodStep, FactsStep, TestStep, EvictStep, CordonStep DEF IInv
<1>. QED  BY <1>1, <1>2, PTL DEF Spec

\* The variables keep the types of the facts and of the cluster's objects.
THEOREM TypeCorrect == Spec => []TypeOK
<1>1. IInv => TypeOK
  BY DEF IInv
<1>. QED  BY <1>1, Invariance, PTL

\* A test that passed has seen the pod go and another one on another node, after a
\* deletion one that was not listed before (draining.yml, validate/pod-delete.yml),
\* whatever pods, nodes and earlier tests there were.
THEOREM PassedHasMoved == Spec => []PassMeansMoved
<1>1. IInv => PassMeansMoved
  BY DEF IInv, TypeOK, FactsInv, Fact, TestInv, Moved, Arrived, PassMeansMoved
<1>. QED  BY <1>1, Invariance, PTL

\* Nodes stay cordoned only by failures, one by each (node-draining.yml,
\* pod-delete.yml:18-62).
THEOREM FailuresCordon == Spec => []CordonsOnlyByFailures
<1>1. ASSUME IInv PROVE CordonsOnlyByFailures
  <2>1. /\ Cardinality(Cordoned) \in Nat /\ Cardinality(Cordoned \ {oldNode}) \in Nat
        /\ Cardinality(Cordoned) <= Cardinality(Cordoned \ {oldNode}) + 1
    BY <1>1, CordonedSize DEF IInv
  <2>2. failed \in Nat
    BY <1>1 DEF IInv, TypeOK
  <2>. QED  BY <1>1, <2>1, <2>2 DEF IInv, PlayInv, CordonInv, CordonsOnlyByFailures, Cordoned
<1>2. IInv => CordonsOnlyByFailures
  BY <1>1
<1>. QED  BY <1>2, Invariance, PTL

\* The background drain of a draining test that passes has no running pod to evict
\* any more, if the new one still runs (node-draining.yml:22-30).
THEOREM DrainHasDone == Spec => NoEvictionAfterPass
<1>1. ASSUME IInv, [Next]_vars, test = "drain", outcome = "running", outcome' = "ok",
             phase[newPod] = "Running", NEW p \in evicting
      PROVE  phase[p] # "Running"
  <2>1. Uncordon
    BY <1>1 DEF IInv, TypeOK, TestInv, Next, Start, Role, Tasks, Gather, Cordon, Remove,
      WaitGone, WaitNewFirst, AssertMoved, WaitNewCount, CompareNodes, TaskError, Goto, Retry,
      Fail, Cluster, Recreate, Schedule, Disrupt, Vanish, Evict, DrainEnds, Done, vars, playVars
  <2>2. Moved /\ node[p] = oldNode /\ node[newPod] = newNode
    BY <1>1, <2>1 DEF Uncordon, IInv, TestInv, EvictInv, FactsInv, Fact, Moved
  <2>3. p \in Pods /\ newPod \in Pods /\ p # newPod
    BY <1>1, <2>2 DEF IInv, TypeOK, Moved
  <2>. QED  BY <1>1, <2>3 DEF IInv, PodInv
<1>2. IInv /\ [Next]_vars =>
        [test = "drain" /\ outcome = "running" /\ outcome' = "ok" /\ phase[newPod] = "Running"
           => \A p \in evicting : phase[p] # "Running"]_vars
  BY <1>1
<1>. QED  BY <1>2, Invariance, PTL DEF Spec, NoEvictionAfterPass

=============================================================================
