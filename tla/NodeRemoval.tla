----------------------------- MODULE NodeRemoval -----------------------------
(***************************************************************************)
(* roles/ocp_remove_nodes: the machines of the nodes to remove are         *)
(* annotated, the MachineSet is reduced to the number of the others, and   *)
(* when that many machines are left the hosts of the nodes are deleted.    *)
(* The numbers come from a list read before, while the controllers, other  *)
(* actors and the remains of earlier runs go on changing the machines.     *)
(*                                                                         *)
(* External: the machine controllers, bare metal hosts, other actors.      *)
(***************************************************************************)
EXTENDS Naturals, FiniteSets

CONSTANTS
  Machines,    \* Names of Machines, of those to come too.
  Hosts,       \* BareMetalHosts; a node is called like its host.
  Sets, First, \* MachineSets of workers, and the one that is listed first.
  Tries,       \* Attempts of the wait but the first.
  MaxRuns,     \* Bound: runs of the role.
  MaxChanges,  \* Bound: changes made by other actors.
  None, Gone   \* A name not used yet; a machine that is no more.

ASSUME FirstAssumption == First \in Sets
ASSUME MachinesAssumption == IsFiniteSet(Machines)
ASSUME BoundsAssumption == Tries \in Nat /\ MaxRuns \in Nat /\ MaxChanges \in Nat

Machine == [set : Sets, host : Hosts \cup {None}, annotated : BOOLEAN, deleting : BOOLEAN]

ASSUME NoneAssumption == None # Gone /\ {None, Gone} \cap (Hosts \cup Machine) = {}

VARIABLES
  machine,   \* The worker Machines.
  replicas,  \* spec.replicas of each MachineSet.
  hosts,     \* The BareMetalHosts.
  pc,        \* Next task, "idle" between runs.
  nodes,     \* orn_nodes.
  todo,      \* What the loop has not come to: listed machines with their nodes,
             \* or hosts to delete.
  kept,      \* Results of the loop that were skipped.
  broken,    \* A round of the loop has failed.
  tries,     \* Attempts left of the wait.
  outcome,   \* How the last run ended.
  runs,      \* Runs started.
  changes,   \* Changes made by other actors.
  asked,     \* History: all nodes any run was asked to remove.
  original,  \* History: the machines as they were at first.
  lost,      \* History: those of them a MachineSet deleted though no run was asked
             \* to remove their nodes.
  pulled     \* History: hosts deleted while a machine used them.

cluster == <<machine, replicas, hosts>>
role == <<pc, nodes, todo, kept, broken, tries, outcome, runs>>
history == <<asked, original, lost, pulled>>
vars == <<cluster, role, changes, history>>

Existing == {m \in Machines : machine[m] \notin {None, Gone}}
Used == {machine[m].host : m \in Existing} \ {None}
Live(s) == {m \in Existing : machine[m].set = s /\ ~machine[m].deleting}

\* Every set has the machines it wants, each on a host of its own.
Init ==
  /\ machine \in [Machines -> Machine \cup {None}]
  /\ \A m \in Existing : ~machine[m].annotated /\ ~machine[m].deleting /\ machine[m].host # None
  /\ \A m, n \in Existing : machine[m].host = machine[n].host => m = n
  /\ replicas = [s \in Sets |-> Cardinality(Live(s))] /\ replicas[First] > 0
  /\ hosts = Hosts
  /\ pc = "idle" /\ nodes = {} /\ todo = {} /\ kept = 0 /\ broken = FALSE /\ tries = 0
  /\ outcome = "none" /\ runs = 0 /\ changes = 0
  /\ asked = {} /\ original = machine /\ lost = {} /\ pulled = {}

-----------------------------------------------------------------------------
(* The role.                                                               *)

End(how) == pc' = "idle" /\ outcome' = how

\* A run is asked to remove nodes that are workers.
Start(some) ==
  /\ pc = "idle" /\ runs < MaxRuns
  /\ some # {} /\ some \subseteq Used
  /\ nodes' = some /\ runs' = runs + 1 /\ outcome' = "running" /\ pc' = "list"
  /\ asked' = asked \cup some
  /\ UNCHANGED <<cluster, todo, kept, broken, tries, changes, original, lost, pulled>>

GetMachines ==
  /\ pc = "list"
  /\ todo' = {<<m, machine[m].host>> : m \in Existing}
  /\ kept' = 0 /\ broken' = FALSE /\ pc' = "annotate"
  /\ UNCHANGED <<cluster, nodes, tries, outcome, runs, changes, history>>

\* Mutant: the annotation is lost.
NotAnnotated(m) == machine

Annotated(m) == [machine EXCEPT ![m].annotated = TRUE]

\* One round of the loop, for a machine as it was listed.  Without a providerID the
\* name of its node is undefined; to annotate a machine that is gone is to create
\* one, which the API refuses.  A round that fails does not end the loop.
Annotate(m, node) ==
  /\ pc = "annotate" /\ <<m, node>> \in todo
  /\ todo' = todo \ {<<m, node>>}
  /\ \/ /\ node = None \/ (node \in nodes /\ m \notin Existing)
        /\ broken' = TRUE /\ UNCHANGED <<machine, kept>>
     \/ /\ node \in nodes /\ m \in Existing
        /\ machine' = Annotated(m)
        /\ UNCHANGED <<kept, broken>>
     \/ /\ node \in Hosts \ nodes
        /\ kept' = kept + 1 /\ UNCHANGED <<machine, broken>>
  /\ UNCHANGED <<replicas, hosts, pc, nodes, tries, outcome, runs, changes, history>>

\* resources[0] of the MachineSets gets the number of machines left in all of them.
Reduce ==
  /\ pc = "annotate" /\ todo = {} /\ ~broken
  /\ replicas' = [replicas EXCEPT ![First] = kept]
  /\ pc' = "wait" /\ tries' = Tries
  /\ UNCHANGED <<machine, hosts, nodes, todo, kept, broken, outcome, runs, changes, history>>

\* Mutant: machines being deleted are not counted.
Leaving == Cardinality({m \in Existing : ~machine[m].deleting}) = kept

Decommissioned == Cardinality(Existing) = kept

WaitMachines ==
  /\ pc = "wait"
  /\ \/ /\ Decommissioned
        /\ pc' = "delete" /\ todo' = nodes /\ UNCHANGED <<tries, outcome>>
     \/ /\ ~Decommissioned /\ UNCHANGED todo
        /\ IF tries > 0 THEN tries' = tries - 1 /\ UNCHANGED <<pc, outcome>>
           ELSE End("failed") /\ UNCHANGED tries
  /\ UNCHANGED <<cluster, nodes, kept, broken, runs, changes, history>>

DeleteHost(h) ==
  /\ pc = "delete" /\ h \in todo
  /\ todo' = todo \ {h} /\ hosts' = hosts \ {h}
  /\ pulled' = IF h \in Used THEN pulled \cup {h} ELSE pulled
  /\ IF todo' = {} THEN End("ok") ELSE UNCHANGED <<pc, outcome>>
  /\ UNCHANGED <<machine, replicas, nodes, kept, broken, tries, runs, changes, asked, original, lost>>

\* A round of the loop failed, or any task does.
TaskError ==
  /\ pc # "idle" /\ End("failed")
  /\ UNCHANGED <<cluster, nodes, todo, kept, broken, tries, runs, changes, history>>

Role == \/ \E some \in SUBSET Hosts : Start(some)
        \/ GetMachines
        \/ \E m \in Machines, node \in Hosts \cup {None} : Annotate(m, node)
        \/ Reduce \/ WaitMachines
        \/ \E h \in Hosts : DeleteHost(h)
        \/ TaskError

-----------------------------------------------------------------------------
(* The cluster (external).                                                 *)

Delete(m) == machine' = [machine EXCEPT ![m].deleting = TRUE]

\* A MachineSet with too many machines deletes annotated ones first.
ScaleDown(s, m) ==
  /\ m \in Live(s) /\ Cardinality(Live(s)) > replicas[s]
  /\ machine[m].annotated \/ \A n \in Live(s) : ~machine[n].annotated
  /\ Delete(m)
  /\ lost' = IF original[m] # None /\ machine[m].host \notin asked THEN lost \cup {m} ELSE lost
  /\ UNCHANGED <<replicas, hosts, role, changes, asked, original, pulled>>

ScaleUp(s, m) ==
  /\ machine[m] = None /\ Cardinality(Live(s)) < replicas[s]
  /\ machine' = [machine EXCEPT ![m] =
                   [set |-> s, host |-> None, annotated |-> FALSE, deleting |-> FALSE]]
  /\ UNCHANGED <<replicas, hosts, role, changes, history>>

Provision(m, h) ==
  /\ m \in Existing /\ machine[m].host = None /\ ~machine[m].deleting
  /\ h \in hosts \ Used
  /\ machine' = [machine EXCEPT ![m].host = h]
  /\ UNCHANGED <<replicas, hosts, role, changes, history>>

Vanish(m) ==
  /\ m \in Existing /\ machine[m].deleting
  /\ machine' = [machine EXCEPT ![m] = Gone]
  /\ UNCHANGED <<replicas, hosts, role, changes, history>>

\* Somebody else, or an autoscaler, scales a set, or replaces a machine.
Other ==
  /\ changes < MaxChanges /\ changes' = changes + 1
  /\ \/ /\ \E s \in Sets : \E n \in {replicas[s] + 1} \cup ({replicas[s] - 1} \cap Nat) :
             replicas' = [replicas EXCEPT ![s] = n]
        /\ UNCHANGED machine
     \/ /\ \E m \in Existing : ~machine[m].deleting /\ Delete(m)
        /\ UNCHANGED replicas
  /\ UNCHANGED <<hosts, role, history>>

Cluster == \/ \E s \in Sets, m \in Machines : ScaleDown(s, m) \/ ScaleUp(s, m)
           \/ \E m \in Machines, h \in Hosts : Provision(m, h)
           \/ \E m \in Machines : Vanish(m)
           \/ Other

Next == Role \/ Cluster

Spec == Init /\ [][Next]_vars

-----------------------------------------------------------------------------
(* Properties.                                                             *)

\* The variables have the types of the facts and objects they model.
TypeOK ==
  /\ machine \in [Machines -> Machine \cup {None, Gone}] /\ replicas \in [Sets -> Nat]
  /\ hosts \subseteq Hosts
  /\ pc \in {"idle", "list", "annotate", "wait", "delete"} /\ nodes \subseteq Hosts
  /\ todo \subseteq Hosts \cup (Machines \X (Hosts \cup {None}))
  /\ kept \in 0 .. Cardinality(Machines) /\ broken \in BOOLEAN /\ tries \in 0 .. Tries
  /\ outcome \in {"none", "running", "ok", "failed"}
  /\ runs \in 0 .. MaxRuns /\ changes \in 0 .. MaxChanges
  /\ asked \subseteq Hosts /\ lost \subseteq Machines
  /\ original \in [Machines -> Machine \cup {None}] /\ pulled \subseteq Hosts

\* All workers are of the set the role reduces.
SingleSet == \A m \in Machines : original[m] # None => original[m].set = First

\* In a first run the sets delete no machine there was at first of a node nobody
\* asked for, but one for each change others make, though the number of replicas
\* comes from an old list.  Undisturbed, the run that repeats a failed one does not
\* either, if all workers are of one set (main.yml:9-68).  More is not true: with
\* several sets the first one gets the number of all, and a third run may take back
\* what a second one has added for machines still to be deleted.
UnaskedSurvive ==
  /\ runs <= 1 => Cardinality(lost) <= changes
  /\ runs <= 2 /\ changes = 0 /\ SingleSet => lost = {}

\* A first run that nobody disturbs pulls no host from under a machine, and when it
\* ends well the nodes are gone, and nothing else; with several MachineSets it does
\* so by failing rather than by deleting hosts (tasks/main.yml:56-104).
UndisturbedIsExact ==
  runs = 1 /\ changes = 0 =>
    /\ pulled = {}
    /\ outcome = "ok" => /\ hosts = Hosts \ nodes
                        /\ Used \cap nodes = {}

=============================================================================
