------------------------- MODULE NodeRemovalProofs -------------------------
(***************************************************************************)
(* Proofs about the role ocp_remove_nodes, for any finite number of        *)
(* machines, and any hosts, MachineSets, runs and changes by others.       *)
(***************************************************************************)
EXTENDS NodeRemoval, FiniteSetTheorems, TLAPS

\* The machines of a set that nothing marks for removal.
Plain(s) == {m \in Live(s) : ~machine[m].annotated}

\* Machines the loop has not come to.
Loop == {m \in Machines : \E node \in Hosts \cup {None} : <<m, node>> \in todo}

\* The machines there were at first that the run is not to remove.
Stay == {m \in Machines : original[m] # None /\ original[m].host \notin nodes}

\* A machine keeps its set and its host, and only those of asked nodes are marked.
MachineInv ==
  /\ nodes \subseteq asked /\ (runs = 0 => asked = {}) /\ (runs = 1 => asked = nodes)
  /\ \A m \in Machines : original[m] # None =>
       /\ original[m].host # None /\ machine[m] # None
       /\ m \in Existing => /\ machine[m].host = original[m].host
                            /\ machine[m].set = original[m].set
  /\ \A m \in Existing : machine[m].annotated => machine[m].host \in asked
  /\ \A m \in lost : machine[m] # None /\ (m \in Existing => machine[m].deleting)

\* What is left of the loops.
LoopInv ==
  /\ pc = "annotate" =>
       /\ todo \subseteq Machines \X (Hosts \cup {None})
       /\ \A p, q \in todo : p[1] = q[1] => p = q
       /\ \A p \in todo : machine[p[1]] # None
       /\ \A m \in Existing, h \in Hosts : <<m, h>> \in todo => machine[m].host = h
       /\ kept + Cardinality(Loop) <= Cardinality(Machines)
  /\ pc = "delete" => todo \subseteq nodes
  /\ pc # "idle" => runs > 0 /\ outcome = "running"

Positive(n) == IF n > 0 THEN n ELSE 0

\* Machines the first set is still to get.
Lacking == Positive(replicas[First] - Cardinality(Live(First)))

\* Machines that the number of replicas will leave out, as it is being counted.
Owed ==
  IF runs = 0 \/ pc = "list" THEN Lacking
  ELSE IF pc = "annotate" /\ ~broken
       THEN Lacking + Positive(Cardinality(Plain(First) \ Loop) - kept)
       ELSE 0

\* In a first run each machine lost, and each machine a set has too many, is owed
\* to a change of its own.
Accounts(surplus) ==
  /\ \A s \in Sets : Cardinality(Plain(s) \ surplus) <= replicas[s]
  /\ Cardinality(lost \cup surplus) + Owed <= changes

SurplusInv == runs <= 1 => \E surplus \in SUBSET Machines : Accounts(surplus)

\* The nodes to remove are those of some of the machines there were at first.
SomeAsked == \E m \in Machines : original[m] # None /\ original[m].host \in nodes

\* Until an undisturbed first run reduces the set, nothing moves.
Quiet ==
  /\ \A s \in Sets : replicas[s] = Cardinality(Live(s))
  /\ \A m \in Machines : machine[m] = None <=> original[m] = None
  /\ \A m \in Machines : machine[m] # Gone
  /\ \A m \in Existing : ~machine[m].deleting /\ machine[m].host # None
  /\ hosts = Hosts
  /\ runs = 1 => SomeAsked
  /\ pc = "annotate" =>
       /\ ~broken /\ todo \subseteq {<<m, machine[m].host>> : m \in Existing}
       /\ Cardinality(Stay \ Loop) = kept
       /\ \A m \in Existing \ Loop : machine[m].host \in nodes => machine[m].annotated

QuietInv == changes = 0 /\ (runs = 0 \/ (runs = 1 /\ pc \in {"list", "annotate"})) => Quiet

\* After that only marked machines go, or, when the first set got more replicas than
\* it has machines, none.
Reduced ==
  /\ kept = Cardinality(Stay) /\ replicas[First] = kept
  /\ \A s \in Sets \ {First} : replicas[s] = Cardinality(Live(s))
  /\ \A m \in Stay : m \in Existing /\ ~machine[m].deleting
  /\ \A m \in Existing : original[m] # None /\ machine[m].host \in nodes => machine[m].annotated
  /\ SomeAsked
  /\ \/ /\ Cardinality(Live(First)) >= replicas[First]
        /\ \A m \in Existing : original[m] # None
     \/ /\ Cardinality(Live(First)) <= replicas[First]
        /\ \A m \in Machines : original[m] # None => m \in Existing /\ ~machine[m].deleting

\* What the run knows of the hosts then.
Decided ==
  /\ pc = "wait" => hosts = Hosts
  /\ pc # "wait" => Existing = Stay
  /\ pc = "delete" => hosts = (Hosts \ nodes) \cup todo
  /\ pc = "idle" => hosts = Hosts \ nodes

ReducedInv ==
  changes = 0 /\ runs = 1 /\ (pc \in {"wait", "delete"} \/ (pc = "idle" /\ outcome = "ok")) =>
    Reduced /\ Decided

\* With one set and no disturbance, no count of two runs leaves a machine out.
Covered ==
  /\ lost = {}
  /\ \A s \in Sets \ {First} : replicas[s] = 0
  /\ \A m \in Existing : machine[m].set = First
  /\ Cardinality(Plain(First)) <= replicas[First]
  /\ runs < 2 \/ pc \in {"list", "annotate"} => Cardinality(Live(First)) >= replicas[First]
  /\ pc = "annotate" /\ ~broken => Cardinality(Plain(First) \ Loop) <= kept

SecondInv == changes = 0 /\ SingleSet /\ runs <= 2 => Covered

PulledInv == changes = 0 /\ runs <= 1 => pulled = {}

IInv == /\ TypeOK /\ MachineInv /\ LoopInv /\ SurplusInv
        /\ QuietInv /\ ReducedInv /\ SecondInv /\ PulledInv

-----------------------------------------------------------------------------
(* Counting machines.                                                      *)

\* Sets of machines can be counted, and a part of a set is not larger.
LEMMA Subsets ==
  ASSUME NEW S \in SUBSET Machines
  PROVE  /\ IsFiniteSet(S) /\ Cardinality(S) \in Nat
         /\ \A T \in SUBSET S : /\ Cardinality(T) \in Nat /\ Cardinality(T) <= Cardinality(S)
                                /\ Cardinality(T) = Cardinality(S) => T = S
<1>1. IsFiniteSet(S)
  BY MachinesAssumption, FS_Subset
<1>2. Cardinality(S) \in Nat
  BY <1>1, FS_CardinalityType
<1>3. ASSUME NEW T \in SUBSET S
      PROVE  /\ Cardinality(T) \in Nat /\ Cardinality(T) <= Cardinality(S)
             /\ Cardinality(T) = Cardinality(S) => T = S
  <2>1. IsFiniteSet(T) /\ Cardinality(T) <= Cardinality(S)
    BY <1>1, FS_Subset
  <2>2. Cardinality(T) = Cardinality(S) => T = S
    BY <1>1, FS_Subset
  <2>3. Cardinality(T) \in Nat
    BY <2>1, FS_CardinalityType
  <2>. QED  BY <2>1, <2>2, <2>3
<1>. QED  BY <1>1, <1>2, <1>3

\* One machine more, or less.
LEMMA OneMore ==
  ASSUME NEW S \in SUBSET Machines, NEW x \in Machines
  PROVE  /\ Cardinality(S \cup {x}) = IF x \in S THEN Cardinality(S) ELSE Cardinality(S) + 1
         /\ Cardinality(S \ {x}) = IF x \in S THEN Cardinality(S) - 1 ELSE Cardinality(S)
         /\ x \in S => Cardinality(S) > 0
<1>1. IsFiniteSet(S) /\ Cardinality(S) \in Nat
  BY Subsets
<1>2. Cardinality(S \cup {x}) = IF x \in S THEN Cardinality(S) ELSE Cardinality(S) + 1
  BY <1>1, FS_AddElement
<1>3. Cardinality(S \ {x}) = IF x \in S THEN Cardinality(S) - 1 ELSE Cardinality(S)
  BY <1>1, FS_RemoveElement
<1>4. x \in S => Cardinality(S) > 0
  <2>1. Cardinality(S) = 0 <=> S = {}
    BY <1>1, FS_EmptySet
  <2>. QED  BY <1>1, <2>1
<1>. QED  BY <1>2, <1>3, <1>4

\* A set has a part of every smaller size.
LEMMA PartOfSize ==
  ASSUME NEW S \in SUBSET Machines, NEW n \in 0 .. Cardinality(S)
  PROVE  \E T \in SUBSET S : Cardinality(T) = n /\ Cardinality(S \ T) = Cardinality(S) - n
<1>1. IsFiniteSet(S) /\ Cardinality(S) \in Nat
  BY Subsets
<1>2. PICK f \in Bijection(1 .. Cardinality(S), S) : TRUE
  BY <1>1, FS_CardinalityType DEF ExistsBijection
<1>. DEFINE T == {f[i] : i \in 1 .. n}
            g == [i \in 1 .. n |-> f[i]]
<1>3. f \in [1 .. Cardinality(S) -> S] /\ \A i, j \in 1 .. Cardinality(S) : f[i] = f[j] => i = j
  BY <1>2 DEF Bijection, Injection, IsInjective
<1>4. 1 .. n \subseteq 1 .. Cardinality(S)
  BY <1>1
<1>5. T \in SUBSET S
  BY <1>3, <1>4
<1>6. g \in [1 .. n -> T] /\ \A i, j \in 1 .. n : g[i] = g[j] => i = j
  BY <1>3, <1>4
<1>7. \A t \in T : \E i \in 1 .. n : g[i] = t
  OBVIOUS
<1>8. g \in Bijection(1 .. n, T)
  BY <1>6, <1>7 DEF Bijection, Injection, IsInjective, Surjection
<1>9. IsFiniteSet(1 .. n) /\ Cardinality(1 .. n) = n
  <2>1. Cardinality(1 .. n) = IF 1 > n THEN 0 ELSE n - 1 + 1
    BY <1>1, FS_Interval
  <2>2. IsFiniteSet(1 .. n)
    BY <1>1, FS_Interval
  <2>. QED  BY <1>1, <2>1, <2>2
<1>10. IsFiniteSet(T) /\ Cardinality(T) = n
  <2>1. ExistsBijection(1 .. n, T)
    BY <1>8 DEF ExistsBijection
  <2>. HIDE DEF T
  <2>. QED  BY <2>1, <1>9, FS_Bijection
<1>11. IsFiniteSet(S \ T)
  BY <1>1, FS_Subset
<1>12. T \cup (S \ T) = S /\ T \cap (S \ T) = {}
  BY <1>5
<1>13. Cardinality(S) = n + Cardinality(S \ T)
  <2>1. Cardinality(T \cup (S \ T))
          = Cardinality(T) + Cardinality(S \ T) - Cardinality(T \cap (S \ T))
    <3>. HIDE DEF T
    <3>. QED  BY <1>10, <1>11, FS_Union
  <2>2. Cardinality({}) = 0
    BY FS_EmptySet
  <2>3. Cardinality(S \ T) \in Nat
    BY <1>11, FS_CardinalityType
  <2>. HIDE DEF T
  <2>4. n \in Nat
    BY <1>1
  <2>5. Cardinality(S) = Cardinality(T) + Cardinality(S \ T) - 0
    BY <2>1, <2>2, <1>12
  <2>. QED  BY <2>3, <2>4, <2>5, <1>10
<1>14. Cardinality(S \ T) = Cardinality(S) - n
  <2>1. Cardinality(S \ T) \in Nat
    BY <1>11, FS_CardinalityType
  <2>. HIDE DEF T
  <2>. QED  BY <2>1, <1>1, <1>13
<1>. QED  BY <1>5, <1>10, <1>14

\* Two sets together have at most as many machines as each of them.
LEMMA Together ==
  ASSUME NEW S \in SUBSET Machines, NEW T \in SUBSET Machines
  PROVE  Cardinality(S \cup T) <= Cardinality(S) + Cardinality(T)
<1>1. IsFiniteSet(S) /\ IsFiniteSet(T) /\ Cardinality(S) \in Nat /\ Cardinality(T) \in Nat
  BY Subsets
<1>2. Cardinality(S \cap T) \in Nat
  BY Subsets
<1>3. Cardinality(S \cup T) = Cardinality(S) + Cardinality(T) - Cardinality(S \cap T)
  BY <1>1, FS_Union
<1>. QED  BY <1>1, <1>2, <1>3

-----------------------------------------------------------------------------
(* What the steps of the cluster do to the machines.                       *)

\* A machine there is is an object.
LEMMA ExistingMachine ==
  ASSUME TypeOK, NEW m \in Existing
  PROVE  m \in Machines /\ machine[m] \in Machine
BY DEF TypeOK, Existing

\* The machines that count as live, or as plain, are machines there are.
LEMMA LiveSubset ==
  /\ Existing \subseteq Machines
  /\ \A s : Plain(s) \subseteq Live(s) /\ Live(s) \subseteq Existing
BY DEF Plain, Live, Existing

\* A machine that is being deleted is no longer live.
LEMMA DeleteFrame ==
  ASSUME TypeOK, NEW m \in Existing, Delete(m)
  PROVE  /\ machine' \in [Machines -> Machine \cup {None, Gone}]
         /\ \A n \in Machines \ {m} : machine'[n] = machine[n]
         /\ machine'[m].deleting /\ machine'[m].annotated = machine[m].annotated
         /\ machine'[m].host = machine[m].host /\ machine'[m].set = machine[m].set
         /\ machine'[m] \in Machine
         /\ Existing' = Existing
         /\ \A s \in Sets : Live(s)' = Live(s) \ {m} /\ Plain(s)' = Plain(s) \ {m}
<1>1. m \in Machines /\ machine[m] \in Machine
  BY ExistingMachine
<1>2. /\ machine' \in [Machines -> Machine \cup {None, Gone}]
      /\ \A n \in Machines \ {m} : machine'[n] = machine[n]
      /\ machine'[m] = [machine[m] EXCEPT !.deleting = TRUE]
  BY <1>1 DEF TypeOK, Delete, Machine
<1>3. /\ machine'[m].deleting /\ machine'[m].annotated = machine[m].annotated
      /\ machine'[m].host = machine[m].host /\ machine'[m].set = machine[m].set
      /\ machine'[m] \in Machine
  BY <1>1, <1>2 DEF Machine
<1>4. Existing' = Existing
  BY <1>1, <1>2, <1>3, NoneAssumption DEF Existing
<1>5. ASSUME NEW s \in Sets
      PROVE  Live(s)' = Live(s) \ {m} /\ Plain(s)' = Plain(s) \ {m}
  <2>1. Live(s)' = Live(s) \ {m}
    BY <1>1, <1>2, <1>3, <1>4, LiveSubset DEF Live
  <2>. QED  BY <2>1, <1>2, LiveSubset DEF Plain
<1>. QED  BY <1>2, <1>3, <1>4, <1>5

\* A machine that is created counts for its set.
LEMMA ScaleUpFrame ==
  ASSUME TypeOK, NEW r \in Sets, NEW m \in Machines, ScaleUp(r, m)
  PROVE  /\ machine' \in [Machines -> Machine \cup {None, Gone}]
         /\ \A n \in Machines \ {m} : machine'[n] = machine[n]
         /\ ~machine'[m].deleting /\ ~machine'[m].annotated
         /\ machine'[m].host = None /\ machine'[m].set = r /\ machine'[m] \in Machine
         /\ m \notin Existing /\ Existing' = Existing \cup {m}
         /\ Live(r)' = Live(r) \cup {m} /\ Plain(r)' = Plain(r) \cup {m}
         /\ \A s \in Sets \ {r} : Live(s)' = Live(s) /\ Plain(s)' = Plain(s)
<1>1. /\ machine' \in [Machines -> Machine \cup {None, Gone}]
      /\ \A n \in Machines \ {m} : machine'[n] = machine[n]
      /\ machine'[m] = [set |-> r, host |-> None, annotated |-> FALSE, deleting |-> FALSE]
      /\ machine[m] = None
  BY DEF TypeOK, ScaleUp, Machine
<1>2. /\ ~machine'[m].deleting /\ ~machine'[m].annotated
      /\ machine'[m].host = None /\ machine'[m].set = r /\ machine'[m] \in Machine
  BY <1>1 DEF Machine
<1>3. m \notin Existing /\ Existing' = Existing \cup {m}
  BY <1>1, <1>2, NoneAssumption DEF Existing
<1>4. /\ Live(r)' = Live(r) \cup {m}
      /\ \A s \in Sets \ {r} : Live(s)' = Live(s)
  BY <1>1, <1>2, <1>3, LiveSubset DEF Live
<1>5. /\ Plain(r)' = Plain(r) \cup {m}
      /\ \A s \in Sets \ {r} : Plain(s)' = Plain(s)
  BY <1>1, <1>2, <1>3, <1>4, LiveSubset DEF Plain
<1>. QED  BY <1>1, <1>2, <1>3, <1>4, <1>5

\* A machine that gets a host changes no set.
LEMMA ProvisionFrame ==
  ASSUME TypeOK, NEW m \in Machines, NEW h \in Hosts, Provision(m, h)
  PROVE  /\ machine' \in [Machines -> Machine \cup {None, Gone}]
         /\ \A n \in Machines \ {m} : machine'[n] = machine[n]
         /\ machine'[m].deleting = machine[m].deleting /\ machine[m].host = None
         /\ machine'[m].annotated = machine[m].annotated
         /\ machine'[m].host = h /\ machine'[m].set = machine[m].set /\ machine'[m] \in Machine
         /\ m \in Existing /\ Existing' = Existing
         /\ \A s \in Sets : Live(s)' = Live(s) /\ Plain(s)' = Plain(s)
<1>1. m \in Existing /\ machine[m] \in Machine /\ machine[m].host = None
  BY ExistingMachine DEF Provision
<1>2. /\ machine' \in [Machines -> Machine \cup {None, Gone}]
      /\ \A n \in Machines \ {m} : machine'[n] = machine[n]
      /\ machine'[m] = [machine[m] EXCEPT !.host = h]
  BY <1>1 DEF TypeOK, Provision, Machine
<1>3. /\ machine'[m].deleting = machine[m].deleting /\ machine'[m].annotated = machine[m].annotated
      /\ machine'[m].host = h /\ machine'[m].set = machine[m].set /\ machine'[m] \in Machine
  BY <1>1, <1>2 DEF Machine
<1>4. Existing' = Existing
  BY <1>1, <1>2, <1>3, NoneAssumption DEF Existing
<1>5. ASSUME NEW s \in Sets PROVE Live(s)' = Live(s)
  BY <1>2, <1>3, <1>4, LiveSubset DEF Live
<1>6. ASSUME NEW s \in Sets PROVE Plain(s)' = Plain(s)
  <2>1. \A n \in Live(s) : machine'[n].annotated <=> machine[n].annotated
    BY <1>2, <1>3, LiveSubset
  <2>. QED  BY <2>1, <1>5 DEF Plain
<1>. QED  BY <1>1, <1>2, <1>3, <1>4, <1>5, <1>6

\* A machine that goes away has been left out of its set before.
LEMMA VanishFrame ==
  ASSUME TypeOK, NEW m \in Machines, Vanish(m)
  PROVE  /\ machine' \in [Machines -> Machine \cup {None, Gone}]
         /\ \A n \in Machines \ {m} : machine'[n] = machine[n]
         /\ machine'[m] = Gone /\ m \in Existing /\ machine[m].deleting
         /\ Existing' = Existing \ {m}
         /\ \A s \in Sets : Live(s)' = Live(s) /\ Plain(s)' = Plain(s)
<1>1. /\ machine' \in [Machines -> Machine \cup {None, Gone}]
      /\ \A n \in Machines \ {m} : machine'[n] = machine[n]
      /\ machine'[m] = Gone /\ m \in Existing /\ machine[m].deleting
  BY DEF TypeOK, Vanish
<1>2. Existing' = Existing \ {m}
  BY <1>1 DEF Existing
<1>3. ASSUME NEW s \in Sets PROVE Live(s)' = Live(s)
  BY <1>1, <1>2, LiveSubset DEF Live
<1>4. ASSUME NEW s \in Sets PROVE Plain(s)' = Plain(s)
  <2>1. \A n \in Live(s) : n # m /\ n \in Machines
    BY <1>1, LiveSubset DEF Live
  <2>2. \A n \in Live(s) : machine'[n] = machine[n]
    BY <2>1, <1>1
  <2>. QED  BY <2>2, <1>3 DEF Plain
<1>. QED  BY <1>1, <1>2, <1>3, <1>4

\* A machine that is marked is still live, but no longer plain.
LEMMA AnnotatedFrame ==
  ASSUME TypeOK, NEW m \in Existing, machine' = Annotated(m)
  PROVE  /\ machine' \in [Machines -> Machine \cup {None, Gone}]
         /\ \A n \in Machines \ {m} : machine'[n] = machine[n]
         /\ machine'[m].deleting = machine[m].deleting /\ machine'[m].annotated
         /\ machine'[m].host = machine[m].host /\ machine'[m].set = machine[m].set
         /\ machine'[m] \in Machine
         /\ Existing' = Existing
         /\ \A s \in Sets : Live(s)' = Live(s) /\ Plain(s)' = Plain(s) \ {m}
<1>1. m \in Machines /\ machine[m] \in Machine
  BY ExistingMachine
<1>2. /\ machine' \in [Machines -> Machine \cup {None, Gone}]
      /\ \A n \in Machines \ {m} : machine'[n] = machine[n]
      /\ machine'[m] = [machine[m] EXCEPT !.annotated = TRUE]
  BY <1>1 DEF TypeOK, Annotated, Machine
<1>3. /\ machine'[m].deleting = machine[m].deleting /\ machine'[m].annotated
      /\ machine'[m].host = machine[m].host /\ machine'[m].set = machine[m].set
      /\ machine'[m] \in Machine
  BY <1>1, <1>2 DEF Machine
<1>4. Existing' = Existing
  BY <1>1, <1>2, <1>3, NoneAssumption DEF Existing
<1>5. ASSUME NEW s \in Sets PROVE Live(s)' = Live(s)
  <2>1. \A n \in Existing : /\ machine'[n].deleting <=> machine[n].deleting
                           /\ machine'[n].set = machine[n].set
    BY <1>1, <1>2, <1>3, LiveSubset
  <2>. QED  BY <2>1, <1>4 DEF Live
<1>6. ASSUME NEW s \in Sets PROVE Plain(s)' = Plain(s) \ {m}
  <2>1. \A n \in Live(s) \ {m} : machine'[n] = machine[n]
    BY <1>2, LiveSubset
  <2>. QED  BY <2>1, <1>3, <1>5 DEF Plain
<1>. QED  BY <1>2, <1>3, <1>4, <1>5, <1>6

-----------------------------------------------------------------------------
(* The invariant: types, machines and loops.                               *)

\* At first every set has what it wants, and nobody was asked for anything.
LEMMA InitInv == Init => IInv
<1>. SUFFICES ASSUME Init PROVE IInv
  OBVIOUS
<1>1. /\ machine \in [Machines -> Machine \cup {None}] /\ original = machine /\ hosts = Hosts
      /\ pc = "idle" /\ nodes = {} /\ todo = {} /\ kept = 0 /\ broken = FALSE /\ tries = 0
      /\ outcome = "none" /\ runs = 0 /\ changes = 0 /\ asked = {} /\ lost = {} /\ pulled = {}
      /\ replicas = [s \in Sets |-> Cardinality(Live(s))]
      /\ \A m \in Existing : ~machine[m].annotated /\ ~machine[m].deleting /\ machine[m].host # None
  BY DEF Init
<1>2. \A s \in Sets : replicas[s] = Cardinality(Live(s)) /\ Cardinality(Live(s)) \in Nat
  BY <1>1, Subsets, LiveSubset
<1>3. Cardinality(Machines) \in Nat
  BY Subsets
<1>4. TypeOK
  <2>1. replicas \in [Sets -> Nat]
    BY <1>1, <1>2
  <2>2. machine \in [Machines -> Machine \cup {None, Gone}]
    BY <1>1
  <2>3. kept \in 0 .. Cardinality(Machines) /\ tries \in 0 .. Tries
    <3>1. kept = 0 /\ tries = 0
      BY <1>1
    <3>. QED  BY <3>1, <1>3, BoundsAssumption
  <2>4. runs \in 0 .. MaxRuns /\ changes \in 0 .. MaxChanges /\ broken \in BOOLEAN
    <3>1. runs = 0 /\ changes = 0
      BY <1>1
    <3>2. broken \in BOOLEAN
      BY <1>1
    <3>. QED  BY <3>1, <3>2, BoundsAssumption
  <2>. QED  BY <1>1, <2>1, <2>2, <2>3, <2>4 DEF TypeOK
<1>5. MachineInv
  BY <1>1, NoneAssumption DEF MachineInv, Existing
<1>6. LoopInv /\ PulledInv /\ ReducedInv
  BY <1>1 DEF LoopInv, PulledInv, ReducedInv
<1>7. SurplusInv
  <2>1. \A s \in Sets : Cardinality(Plain(s) \ {}) <= replicas[s]
    <3>. SUFFICES ASSUME NEW s \in Sets PROVE Cardinality(Plain(s) \ {}) <= Cardinality(Live(s))
      BY <1>2
    <3>1. Plain(s) \ {} \subseteq Live(s) /\ Live(s) \in SUBSET Machines
      BY LiveSubset
    <3>. QED  BY <3>1, Subsets
  <2>2. Owed = 0
    BY <1>1, <1>2, FirstAssumption DEF Owed, Lacking, Positive
  <2>3. lost \cup {} = {} /\ Cardinality({}) = 0
    BY <1>1, FS_EmptySet
  <2>4. Cardinality(lost \cup {}) + Owed <= changes
    BY <1>1, <2>2, <2>3
  <2>. QED  BY <2>1, <2>4 DEF SurplusInv, Accounts
<1>8. QuietInv
  BY <1>1, <1>2, NoneAssumption DEF QuietInv, Quiet
<1>9. SecondInv
  <2>. SUFFICES ASSUME SingleSet PROVE SecondInv
    BY DEF SecondInv
  <2>1. \A m \in Existing : machine[m].set = First
    BY <1>1 DEF SingleSet, Existing
  <2>2. \A s \in Sets \ {First} : replicas[s] = 0
    <3>. SUFFICES ASSUME NEW s \in Sets \ {First} PROVE Cardinality(Live(s)) = 0
      BY <1>2
    <3>1. Live(s) = {}
      BY <2>1 DEF Live
    <3>. QED  BY <3>1, FS_EmptySet
  <2>3. Cardinality(Plain(First)) <= replicas[First]
    <3>1. Plain(First) \subseteq Live(First) /\ Live(First) \in SUBSET Machines
      BY LiveSubset
    <3>. QED  BY <3>1, <1>2, FirstAssumption, Subsets
  <2>. QED  BY <1>1, <1>2, <2>1, <2>2, <2>3, FirstAssumption DEF SecondInv, Covered
<1>. QED  BY <1>4, <1>5, <1>6, <1>7, <1>8, <1>9 DEF IInv

\* A round of the loop is about a machine, and comes to it only once.
LEMMA LoopRound ==
  ASSUME TypeOK, LoopInv, NEW m \in Machines, NEW node \in Hosts \cup {None}, Annotate(m, node)
  PROVE  /\ pc = "annotate" /\ m \in Loop /\ Loop' = Loop \ {m} /\ machine[m] # None
         /\ m \in Existing /\ node \in Hosts => machine[m].host = node
<1>1. pc = "annotate" /\ <<m, node>> \in todo /\ todo' = todo \ {<<m, node>>}
  BY DEF Annotate
<1>2. /\ \A p, q \in todo : p[1] = q[1] => p = q
      /\ \A p \in todo : machine[p[1]] # None
      /\ m \in Existing /\ node \in Hosts => machine[m].host = node
  BY <1>1 DEF LoopInv
<1>3. m \in Loop
  BY <1>1 DEF Loop
<1>4. ASSUME NEW n \in Machines PROVE n \in Loop' <=> n \in Loop /\ n # m
  <2>1. ASSUME NEW x \in Hosts \cup {None}
        PROVE  <<n, x>> \in todo' <=> <<n, x>> \in todo /\ n # m
    <3>1. CASE n # m
      BY <3>1, <1>1
    <3>2. CASE n = m
      <4>1. <<n, x>> \in todo => <<n, x>> = <<m, node>>
        BY <3>2, <1>1, <1>2
      <4>. QED  BY <4>1, <3>2, <1>1
    <3>. QED  BY <3>1, <3>2
  <2>. QED  BY <2>1 DEF Loop
<1>5. Loop' = Loop \ {m}
  BY <1>4 DEF Loop
<1>. QED  BY <1>1, <1>2, <1>3, <1>5

\* At the listing the loop has all machines before it.
LEMMA LoopListed ==
  ASSUME TypeOK, GetMachines
  PROVE  Loop' = Existing
<1>1. todo' = {<<m, machine[m].host>> : m \in Existing}
  BY DEF GetMachines
<1>2. \A m \in Existing : m \in Machines /\ machine[m].host \in Hosts \cup {None}
  BY ExistingMachine DEF Machine
<1>. QED  BY <1>1, <1>2 DEF Loop, Existing

\* Every step keeps the types.
LEMMA TypeStep == TypeOK /\ LoopInv /\ [Next]_vars => TypeOK'
<1>. SUFFICES ASSUME TypeOK, LoopInv, [Next]_vars PROVE TypeOK'
  OBVIOUS
<1>. USE BoundsAssumption
<1>1. CASE UNCHANGED vars
  BY <1>1 DEF TypeOK, vars, cluster, role, history
<1>2. ASSUME NEW some \in SUBSET Hosts, Start(some) PROVE TypeOK'
  BY <1>2 DEF TypeOK, Start, cluster
<1>3. CASE GetMachines
  <2>1. todo' \subseteq Machines \X (Hosts \cup {None})
    <3>1. \A m \in Existing : m \in Machines /\ machine[m].host \in Hosts \cup {None}
      BY ExistingMachine DEF Machine
    <3>. QED  BY <3>1, <1>3 DEF GetMachines
  <2>2. Cardinality(Machines) \in Nat
    BY Subsets
  <2>3. kept' \in 0 .. Cardinality(Machines) /\ broken' \in BOOLEAN /\ pc' = "annotate"
    <3>1. kept' = 0 /\ broken' = FALSE /\ pc' = "annotate"
      BY <1>3 DEF GetMachines
    <3>2. broken' \in BOOLEAN
      BY <3>1
    <3>3. kept' \in 0 .. Cardinality(Machines)
      BY <3>1, <2>2
    <3>. QED  BY <3>1, <3>2, <3>3
  <2>4. UNCHANGED <<cluster, nodes, tries, outcome, runs, changes, history>>
    BY <1>3 DEF GetMachines
  <2>. QED  BY <2>1, <2>3, <2>4 DEF TypeOK, cluster, history
<1>4. ASSUME NEW m \in Machines, NEW node \in Hosts \cup {None}, Annotate(m, node) PROVE TypeOK'
  <2>1. machine' \in [Machines -> Machine \cup {None, Gone}]
    <3>1. CASE machine' = machine
      BY <3>1 DEF TypeOK
    <3>2. CASE m \in Existing /\ machine' = Annotated(m)
      BY <3>2, AnnotatedFrame
    <3>. QED  BY <1>4, <3>1, <3>2 DEF Annotate
  <2>2. kept' \in 0 .. Cardinality(Machines)
    <3>1. m \in Loop /\ kept + Cardinality(Loop) <= Cardinality(Machines)
      BY <1>4, LoopRound DEF LoopInv
    <3>2. Cardinality(Loop) > 0 /\ Cardinality(Loop) \in Nat /\ Cardinality(Machines) \in Nat
      BY <3>1, OneMore, Subsets DEF Loop
    <3>3. kept' = kept \/ kept' = kept + 1
      BY <1>4 DEF Annotate
    <3>. QED  BY <3>1, <3>2, <3>3 DEF TypeOK
  <2>3. todo' \subseteq todo /\ broken' \in BOOLEAN
    BY <1>4 DEF Annotate, TypeOK
  <2>4. UNCHANGED <<replicas, hosts, pc, nodes, tries, outcome, runs, changes, history>>
    BY <1>4 DEF Annotate
  <2>. QED  BY <2>1, <2>2, <2>3, <2>4 DEF TypeOK, history
<1>5. CASE Reduce
  <2>1. replicas' \in [Sets -> Nat]
    <3>1. Cardinality(Machines) \in Nat
      BY Subsets
    <3>2. kept \in Nat
      BY <3>1 DEF TypeOK
    <3>. QED  BY <1>5, <3>2 DEF TypeOK, Reduce
  <2>. QED  BY <1>5, <2>1 DEF TypeOK, Reduce, history
<1>6. CASE WaitMachines
  <2>1. todo' \subseteq Hosts \cup (Machines \X (Hosts \cup {None}))
    BY <1>6 DEF TypeOK, WaitMachines
  <2>2. /\ tries' \in 0 .. Tries /\ pc' \in {"idle", "list", "annotate", "wait", "delete"}
        /\ outcome' \in {"none", "running", "ok", "failed"}
    BY <1>6 DEF TypeOK, WaitMachines, End
  <2>3. UNCHANGED <<cluster, nodes, kept, broken, runs, changes, history>>
    BY <1>6 DEF WaitMachines
  <2>. QED  BY <2>1, <2>2, <2>3 DEF TypeOK, cluster, history
<1>7. ASSUME NEW h \in Hosts, DeleteHost(h) PROVE TypeOK'
  <2>1. /\ pc' \in {"idle", "list", "annotate", "wait", "delete"}
        /\ outcome' \in {"none", "running", "ok", "failed"}
    BY <1>7 DEF TypeOK, DeleteHost, End
  <2>2. pulled' \subseteq Hosts /\ hosts' \subseteq Hosts /\ todo' \subseteq todo
    BY <1>7 DEF TypeOK, DeleteHost
  <2>3. UNCHANGED <<machine, replicas, nodes, kept, broken, tries, runs, changes, asked, original, lost>>
    BY <1>7 DEF DeleteHost
  <2>. QED  BY <2>1, <2>2, <2>3 DEF TypeOK
<1>8. CASE TaskError
  BY <1>8 DEF TypeOK, TaskError, End, cluster, history
<1>9. ASSUME NEW s \in Sets, NEW m \in Machines, ScaleDown(s, m) PROVE TypeOK'
  <2>1. m \in Existing /\ Delete(m)
    BY <1>9, LiveSubset DEF ScaleDown
  <2>2. machine' \in [Machines -> Machine \cup {None, Gone}]
    BY <2>1, DeleteFrame
  <2>3. lost' \subseteq Machines
    BY <1>9 DEF TypeOK, ScaleDown
  <2>4. UNCHANGED <<replicas, hosts, role, changes, asked, original, pulled>>
    BY <1>9 DEF ScaleDown
  <2>. QED  BY <2>2, <2>3, <2>4 DEF TypeOK, role
<1>10. ASSUME NEW s \in Sets, NEW m \in Machines, ScaleUp(s, m) PROVE TypeOK'
  <2>1. machine' \in [Machines -> Machine \cup {None, Gone}]
    BY <1>10, ScaleUpFrame
  <2>. QED  BY <1>10, <2>1 DEF TypeOK, ScaleUp, role, history
<1>11. ASSUME NEW m \in Machines, NEW h \in Hosts, Provision(m, h) PROVE TypeOK'
  <2>1. machine' \in [Machines -> Machine \cup {None, Gone}]
    BY <1>11, ProvisionFrame
  <2>. QED  BY <1>11, <2>1 DEF TypeOK, Provision, role, history
<1>12. ASSUME NEW m \in Machines, Vanish(m) PROVE TypeOK'
  <2>1. machine' \in [Machines -> Machine \cup {None, Gone}]
    BY <1>12, VanishFrame
  <2>. QED  BY <1>12, <2>1 DEF TypeOK, Vanish, role, history
<1>13. CASE Other
  <2>1. changes' \in 0 .. MaxChanges /\ UNCHANGED <<hosts, role, history>>
    BY <1>13 DEF TypeOK, Other
  <2>2. replicas' \in [Sets -> Nat]
    BY <1>13 DEF TypeOK, Other
  <2>3. machine' \in [Machines -> Machine \cup {None, Gone}]
    <3>1. CASE UNCHANGED machine
      BY <3>1 DEF TypeOK
    <3>2. ASSUME NEW m \in Existing, Delete(m) PROVE machine' \in [Machines -> Machine \cup {None, Gone}]
      BY <3>2, DeleteFrame
    <3>. QED  BY <1>13, <3>1, <3>2 DEF Other
  <2>. QED  BY <2>1, <2>2, <2>3 DEF TypeOK, role, history
<1>. QED  BY <1>1, <1>2, <1>3, <1>4, <1>5, <1>6, <1>7, <1>8, <1>9, <1>10, <1>11, <1>12, <1>13
       DEF Next, Role, Cluster

\* Every step keeps what is known of the machines.
LEMMA MachineStep == TypeOK /\ MachineInv /\ LoopInv /\ [Next]_vars => MachineInv'
<1>. SUFFICES ASSUME TypeOK, MachineInv, LoopInv, [Next]_vars PROVE MachineInv'
  OBVIOUS
<1>a. ASSUME UNCHANGED <<machine, original, lost, asked, nodes, runs>> PROVE MachineInv'
  BY <1>a DEF MachineInv, Existing
<1>b. ASSUME UNCHANGED <<original, asked, nodes, runs>>, NEW m \in Machines,
             \A n \in Machines \ {m} : machine'[n] = machine[n],
             original[m] # None =>
               /\ machine'[m] # None
               /\ m \in Existing' => /\ machine'[m].host = original[m].host
                                     /\ machine'[m].set = original[m].set,
             m \in Existing' /\ machine'[m].annotated => machine'[m].host \in asked,
             lost' \subseteq lost \cup {m},
             m \in lost' => machine'[m] # None /\ (m \in Existing' => machine'[m].deleting)
      PROVE  MachineInv'
  <2>1. nodes' \subseteq asked' /\ (runs' = 0 => asked' = {}) /\ (runs' = 1 => asked' = nodes')
    BY <1>b DEF MachineInv
  <2>2. \A n \in Machines \ {m} : n \in Existing' <=> n \in Existing
    BY <1>b DEF Existing
  <2>3. ASSUME NEW n \in Machines, original'[n] # None
        PROVE  /\ original'[n].host # None /\ machine'[n] # None
               /\ n \in Existing' => /\ machine'[n].host = original'[n].host
                                     /\ machine'[n].set = original'[n].set
    BY <1>b, <2>2, <2>3 DEF MachineInv
  <2>4. ASSUME NEW n \in Existing', machine'[n].annotated PROVE machine'[n].host \in asked'
    <3>1. n \in Machines
      BY DEF Existing
    <3>. QED  BY <1>b, <2>2, <2>4, <3>1 DEF MachineInv
  <2>5. ASSUME NEW n \in lost' PROVE machine'[n] # None /\ (n \in Existing' => machine'[n].deleting)
    <3>1. n = m \/ (n \in lost /\ n \in Machines \ {m})
      BY <1>b DEF TypeOK
    <3>. QED  BY <1>b, <2>2, <3>1 DEF MachineInv
  <2>. QED  BY <1>b, <2>1, <2>3, <2>4, <2>5 DEF MachineInv
<1>1. CASE UNCHANGED vars
  BY <1>1, <1>a DEF vars, cluster, role, history
<1>2. ASSUME NEW some \in SUBSET Hosts, Start(some) PROVE MachineInv'
  <2>1. nodes' = some /\ asked' = asked \cup some /\ runs' = runs + 1 /\ runs \in Nat
    BY <1>2, BoundsAssumption DEF Start, TypeOK
  <2>2. UNCHANGED <<machine, original, lost>>
    BY <1>2 DEF Start, cluster
  <2>3. nodes' \subseteq asked' /\ (runs' = 0 => asked' = {}) /\ (runs' = 1 => asked' = nodes')
    BY <2>1 DEF MachineInv
  <2>. QED  BY <2>1, <2>2, <2>3 DEF MachineInv, Existing
<1>3. CASE GetMachines
  BY <1>3, <1>a DEF GetMachines, cluster, history
<1>4. ASSUME NEW m \in Machines, NEW node \in Hosts \cup {None}, Annotate(m, node) PROVE MachineInv'
  <2>1. UNCHANGED <<original, asked, nodes, runs, lost>>
    BY <1>4 DEF Annotate, history
  <2>2. CASE UNCHANGED machine
    BY <2>1, <2>2, <1>a
  <2>3. CASE node \in nodes /\ m \in Existing /\ machine' = Annotated(m)
    <3>1. machine[m].host \in asked
      BY <1>4, <2>3, LoopRound DEF MachineInv, TypeOK
    <3>2. /\ \A n \in Machines \ {m} : machine'[n] = machine[n]
          /\ machine'[m].deleting = machine[m].deleting /\ Existing' = Existing
          /\ machine'[m].host = machine[m].host /\ machine'[m].set = machine[m].set
      BY <2>3, AnnotatedFrame
    <3>3. original[m] # None => /\ machine[m].host = original[m].host
                                /\ machine[m].set = original[m].set
      BY <2>3 DEF MachineInv
    <3>4. machine[m] # None /\ machine'[m] # None
      BY <2>3, <3>2 DEF Existing
    <3>5. m \in lost' => machine'[m] # None /\ (m \in Existing' => machine'[m].deleting)
      BY <2>1, <2>3, <3>2, <3>4 DEF MachineInv
    <3>. QED  BY <1>b, <2>1, <3>1, <3>2, <3>3, <3>4, <3>5
  <2>. QED  BY <1>4, <2>2, <2>3 DEF Annotate
<1>5. CASE Reduce
  BY <1>5, <1>a DEF Reduce, history
<1>6. CASE WaitMachines
  BY <1>6, <1>a DEF WaitMachines, cluster, history
<1>7. ASSUME NEW h \in Hosts, DeleteHost(h) PROVE MachineInv'
  BY <1>7, <1>a DEF DeleteHost
<1>8. CASE TaskError
  BY <1>8, <1>a DEF TaskError, cluster, history
<1>c. ASSUME NEW m \in Existing, Delete(m), UNCHANGED <<original, asked, nodes, runs>>,
             lost' \subseteq lost \cup {m}
      PROVE  MachineInv'
  <2>1. m \in Machines
    BY ExistingMachine
  <2>2. /\ \A n \in Machines \ {m} : machine'[n] = machine[n]
        /\ machine'[m].deleting /\ Existing' = Existing
        /\ machine'[m].annotated = machine[m].annotated
        /\ machine'[m].host = machine[m].host /\ machine'[m].set = machine[m].set
    BY <1>c, DeleteFrame
  <2>3. original[m] # None => /\ machine[m].host = original[m].host
                              /\ machine[m].set = original[m].set
    BY <2>1 DEF MachineInv
  <2>4. machine'[m] # None
    BY <2>2 DEF Existing
  <2>5. machine'[m].annotated => machine'[m].host \in asked
    BY <2>2 DEF MachineInv
  <2>6. m \in lost' => machine'[m] # None /\ (m \in Existing' => machine'[m].deleting)
    BY <2>2, <2>4
  <2>. QED  BY <1>b, <1>c, <2>1, <2>2, <2>3, <2>4, <2>5, <2>6
<1>9. ASSUME NEW s \in Sets, NEW m \in Machines, ScaleDown(s, m) PROVE MachineInv'
  <2>1. m \in Existing /\ Delete(m)
    BY <1>9, LiveSubset DEF ScaleDown
  <2>2. lost' \subseteq lost \cup {m} /\ UNCHANGED <<original, asked, nodes, runs>>
    BY <1>9 DEF ScaleDown, role
  <2>. QED  BY <1>c, <2>1, <2>2
<1>10. ASSUME NEW s \in Sets, NEW m \in Machines, ScaleUp(s, m) PROVE MachineInv'
  <2>1. machine[m] = None /\ UNCHANGED <<original, asked, nodes, runs, lost>>
    BY <1>10 DEF ScaleUp, role, history
  <2>2. original[m] = None
    BY <2>1 DEF MachineInv
  <2>3. /\ \A n \in Machines \ {m} : machine'[n] = machine[n]
        /\ ~machine'[m].annotated /\ m \notin Existing /\ Existing' = Existing \cup {m}
    BY <1>10, ScaleUpFrame
  <2>4. m \notin lost
    BY <2>1 DEF MachineInv
  <2>5. m \in lost' => machine'[m] # None /\ (m \in Existing' => machine'[m].deleting)
    BY <2>1, <2>3, <2>4 DEF MachineInv, TypeOK
  <2>. QED  BY <1>b, <2>1, <2>2, <2>3, <2>5
<1>11. ASSUME NEW m \in Machines, NEW h \in Hosts, Provision(m, h) PROVE MachineInv'
  <2>1. /\ \A n \in Machines \ {m} : machine'[n] = machine[n]
        /\ machine'[m].deleting = machine[m].deleting /\ machine[m].host = None
        /\ machine'[m].annotated = machine[m].annotated
        /\ m \in Existing /\ Existing' = Existing
    BY <1>11, ProvisionFrame
  <2>2. UNCHANGED <<original, asked, nodes, runs, lost>>
    BY <1>11 DEF Provision, role, history
  <2>3. original[m] = None /\ ~machine'[m].annotated
    BY <2>1, NoneAssumption DEF MachineInv, TypeOK
  <2>5. machine[m] # None /\ machine'[m] # None
    BY <2>1 DEF Existing
  <2>4. m \in lost' => machine'[m] # None /\ (m \in Existing' => machine'[m].deleting)
    BY <2>1, <2>2, <2>5 DEF MachineInv
  <2>. QED  BY <1>b, <2>1, <2>2, <2>3, <2>4
<1>12. ASSUME NEW m \in Machines, Vanish(m) PROVE MachineInv'
  <2>1. /\ \A n \in Machines \ {m} : machine'[n] = machine[n]
        /\ machine'[m] = Gone /\ Existing' = Existing \ {m}
    BY <1>12, VanishFrame
  <2>2. UNCHANGED <<original, asked, nodes, runs, lost>>
    BY <1>12 DEF Vanish, role, history
  <2>3. m \in lost' => machine'[m] # None /\ (m \in Existing' => machine'[m].deleting)
    BY <2>1, NoneAssumption
  <2>. QED  BY <1>b, <2>1, <2>2, <2>3, NoneAssumption
<1>13. CASE Other
  <2>1. UNCHANGED <<original, asked, nodes, runs, lost>>
    BY <1>13 DEF Other, role, history
  <2>2. UNCHANGED machine \/ \E m \in Existing : Delete(m)
    BY <1>13 DEF Other
  <2>. QED  BY <1>a, <1>c, <2>1, <2>2
<1>. QED  BY <1>1, <1>2, <1>3, <1>4, <1>5, <1>6, <1>7, <1>8, <1>9, <1>10, <1>11, <1>12, <1>13
       DEF Next, Role, Cluster

\* Every step keeps what is left of the loops.
LEMMA LoopStep == TypeOK /\ MachineInv /\ LoopInv /\ [Next]_vars => LoopInv'
<1>. SUFFICES ASSUME TypeOK, MachineInv, LoopInv, [Next]_vars PROVE LoopInv'
  OBVIOUS
<1>a. ASSUME UNCHANGED <<machine, pc, nodes, todo, kept, outcome, runs>> PROVE LoopInv'
  BY <1>a DEF LoopInv, Loop, Existing
<1>b. ASSUME UNCHANGED role, NEW m \in Machines, \A n \in Machines \ {m} : machine'[n] = machine[n],
             machine[m] # None => machine'[m] # None,
             m \in Existing' => \/ machine[m] = None
                                \/ m \in Existing /\ machine'[m].host = machine[m].host
                                \/ m \in Existing /\ machine[m].host = None
      PROVE  LoopInv'
  <2>1. UNCHANGED <<pc, nodes, todo, kept, outcome, runs>>
    BY <1>b DEF role
  <2>2. Loop' = Loop
    BY <2>1 DEF Loop
  <2>3. ASSUME pc = "annotate"
        PROVE  /\ todo \subseteq Machines \X (Hosts \cup {None})
               /\ \A p, q \in todo : p[1] = q[1] => p = q
               /\ \A p \in todo : machine'[p[1]] # None
               /\ \A n \in Existing', h \in Hosts : <<n, h>> \in todo => machine'[n].host = h
    <3>1. /\ todo \subseteq Machines \X (Hosts \cup {None})
          /\ \A p, q \in todo : p[1] = q[1] => p = q
          /\ \A p \in todo : machine[p[1]] # None
          /\ \A n \in Existing, h \in Hosts : <<n, h>> \in todo => machine[n].host = h
      BY <2>3 DEF LoopInv
    <3>2. ASSUME NEW p \in todo PROVE machine'[p[1]] # None
      BY <1>b, <3>1
    <3>3. ASSUME NEW n \in Existing', NEW h \in Hosts, <<n, h>> \in todo PROVE machine'[n].host = h
      <4>1. CASE n # m
        <5>1. n \in Machines \ {m} /\ n \in Existing
          BY <1>b, <4>1 DEF Existing
        <5>. QED  BY <1>b, <3>1, <3>3, <5>1
      <4>2. CASE n = m
        <5>1. machine[m] # None
          <6>1. <<m, h>>[1] = m
            OBVIOUS
          <6>. QED  BY <3>1, <3>3, <4>2, <6>1
        <5>2. m \in Existing => machine[m].host = h /\ h # None
          BY <3>1, <3>3, <4>2, NoneAssumption
        <5>. QED  BY <1>b, <3>3, <4>2, <5>1, <5>2
      <4>. QED  BY <4>1, <4>2
    <3>. QED  BY <3>1, <3>2, <3>3
  <2>. QED  BY <2>1, <2>2, <2>3 DEF LoopInv
<1>1. CASE UNCHANGED vars
  BY <1>1, <1>a DEF vars, cluster, role
<1>2. ASSUME NEW some \in SUBSET Hosts, Start(some) PROVE LoopInv'
  <2>1. pc' = "list" /\ runs' = runs + 1 /\ outcome' = "running"
    BY <1>2 DEF Start
  <2>2. runs' > 0
    BY <2>1, BoundsAssumption DEF TypeOK
  <2>. QED  BY <2>1, <2>2 DEF LoopInv
<1>3. CASE GetMachines
  <2>1. /\ pc = "list" /\ todo' = {<<m, machine[m].host>> : m \in Existing} /\ kept' = 0
        /\ pc' = "annotate" /\ UNCHANGED <<machine, outcome, runs>>
    BY <1>3 DEF GetMachines, cluster
  <2>2. \A m \in Existing : m \in Machines /\ machine[m].host \in Hosts \cup {None} /\ machine[m] # None
    BY ExistingMachine DEF Machine, Existing
  <2>3. todo' \subseteq Machines \X (Hosts \cup {None})
    BY <2>1, <2>2
  <2>4. \A p \in todo' : p[1] \in Existing /\ p = <<p[1], machine[p[1]].host>>
    BY <2>1
  <2>5. \A p, q \in todo' : p[1] = q[1] => p = q
    BY <2>4
  <2>6. \A p \in todo' : machine'[p[1]] # None
    BY <2>1, <2>2, <2>4
  <2>7. \A m \in Existing', h \in Hosts : <<m, h>> \in todo' => machine'[m].host = h
    <3>. SUFFICES ASSUME NEW m \in Existing', NEW h \in Hosts, <<m, h>> \in todo'
                  PROVE  machine'[m].host = h
      OBVIOUS
    <3>1. <<m, h>> = <<m, machine[m].host>>
      BY <2>4
    <3>. QED  BY <2>1, <3>1
  <2>8. kept' + Cardinality(Loop') <= Cardinality(Machines)
    <3>1. Loop' = Existing /\ Existing \in SUBSET Machines
      BY <1>3, LoopListed, LiveSubset
    <3>2. Machines \in SUBSET Machines
      OBVIOUS
    <3>3. Cardinality(Existing) \in Nat /\ Cardinality(Existing) <= Cardinality(Machines)
      BY <3>1, <3>2, Subsets
    <3>. QED  BY <2>1, <3>1, <3>3
  <2>9. runs' > 0 /\ outcome' = "running"
    BY <2>1 DEF LoopInv
  <2>. QED  BY <2>1, <2>3, <2>5, <2>6, <2>7, <2>8, <2>9 DEF LoopInv
<1>4. ASSUME NEW m \in Machines, NEW node \in Hosts \cup {None}, Annotate(m, node) PROVE LoopInv'
  <2>1. /\ pc = "annotate" /\ todo' = todo \ {<<m, node>>}
        /\ UNCHANGED <<pc, outcome, runs>>
    BY <1>4 DEF Annotate
  <2>2. /\ todo \subseteq Machines \X (Hosts \cup {None})
        /\ \A p, q \in todo : p[1] = q[1] => p = q
        /\ \A p \in todo : machine[p[1]] # None
        /\ \A n \in Existing, h \in Hosts : <<n, h>> \in todo => machine[n].host = h
        /\ kept + Cardinality(Loop) <= Cardinality(Machines)
        /\ runs > 0 /\ outcome = "running"
    BY <2>1 DEF LoopInv
  <2>3. /\ Existing' = Existing
        /\ \A n \in Machines : machine[n] # None => machine'[n] # None
        /\ \A n \in Existing : machine'[n].host = machine[n].host
    <3>1. CASE UNCHANGED machine
      BY <3>1 DEF Existing
    <3>2. CASE m \in Existing /\ machine' = Annotated(m)
      <4>1. /\ \A n \in Machines \ {m} : machine'[n] = machine[n]
            /\ Existing' = Existing /\ machine'[m].host = machine[m].host
        BY <3>2, AnnotatedFrame
      <4>2. machine'[m] # None
        BY <3>2, <4>1 DEF Existing
      <4>. QED  BY <4>1, <4>2, LiveSubset
    <3>. QED  BY <1>4, <3>1, <3>2 DEF Annotate
  <2>4. kept' + Cardinality(Loop') <= Cardinality(Machines)
    <3>1. m \in Loop /\ Loop' = Loop \ {m} /\ Loop \in SUBSET Machines
      BY <1>4, LoopRound DEF Loop
    <3>2. Cardinality(Loop \ {m}) = Cardinality(Loop) - 1
      BY <3>1, OneMore
    <3>3. Cardinality(Loop) \in Nat /\ Cardinality(Machines) \in Nat
      BY <3>1, Subsets
    <3>4. (kept' = kept \/ kept' = kept + 1) /\ kept \in Nat
      BY <1>4, <3>3 DEF Annotate, TypeOK
    <3>. QED  BY <2>2, <3>1, <3>2, <3>3, <3>4
  <2>5. \A p \in todo' : p \in todo /\ p[1] \in Machines
    BY <2>1, <2>2
  <2>6. \A n \in Existing', h \in Hosts : <<n, h>> \in todo' => machine'[n].host = h
    BY <2>1, <2>2, <2>3
  <2>. QED  BY <2>1, <2>2, <2>3, <2>4, <2>5, <2>6 DEF LoopInv
<1>5. CASE Reduce
  BY <1>5 DEF Reduce, LoopInv
<1>6. CASE WaitMachines
  <2>1. /\ pc = "wait" /\ pc' \in {"wait", "delete", "idle"} /\ UNCHANGED <<nodes, runs>>
        /\ pc' # "idle" => outcome' = outcome
        /\ pc' = "delete" => todo' = nodes
    BY <1>6 DEF WaitMachines, End
  <2>. QED  BY <2>1 DEF LoopInv
<1>7. ASSUME NEW h \in Hosts, DeleteHost(h) PROVE LoopInv'
  <2>1. /\ pc = "delete" /\ pc' \in {"delete", "idle"} /\ UNCHANGED <<nodes, runs>>
        /\ pc' # "idle" => outcome' = outcome
        /\ todo' \subseteq todo
    BY <1>7 DEF DeleteHost, End
  <2>. QED  BY <2>1 DEF LoopInv
<1>8. CASE TaskError
  BY <1>8 DEF TaskError, End, LoopInv
<1>c. ASSUME NEW m \in Existing, Delete(m), UNCHANGED role PROVE LoopInv'
  <2>1. m \in Machines
    BY ExistingMachine
  <2>2. /\ \A n \in Machines \ {m} : machine'[n] = machine[n]
        /\ Existing' = Existing /\ machine'[m].host = machine[m].host
    BY <1>c, DeleteFrame
  <2>3. machine'[m] # None
    BY <2>2 DEF Existing
  <2>. QED  BY <1>b, <1>c, <2>1, <2>2, <2>3
<1>9. ASSUME NEW s \in Sets, NEW m \in Machines, ScaleDown(s, m) PROVE LoopInv'
  <2>1. m \in Existing /\ Delete(m) /\ UNCHANGED role
    BY <1>9, LiveSubset DEF ScaleDown
  <2>. QED  BY <1>c, <2>1
<1>10. ASSUME NEW s \in Sets, NEW m \in Machines, ScaleUp(s, m) PROVE LoopInv'
  <2>1. machine[m] = None /\ UNCHANGED role
    BY <1>10 DEF ScaleUp
  <2>2. \A n \in Machines \ {m} : machine'[n] = machine[n]
    BY <1>10, ScaleUpFrame
  <2>. QED  BY <1>b, <2>1, <2>2
<1>11. ASSUME NEW m \in Machines, NEW h \in Hosts, Provision(m, h) PROVE LoopInv'
  <2>1. /\ \A n \in Machines \ {m} : machine'[n] = machine[n]
        /\ machine[m].host = None /\ m \in Existing /\ Existing' = Existing
    BY <1>11, ProvisionFrame
  <2>2. UNCHANGED role
    BY <1>11 DEF Provision
  <2>3. machine'[m] # None
    BY <2>1 DEF Existing
  <2>. QED  BY <1>b, <2>1, <2>2, <2>3
<1>12. ASSUME NEW m \in Machines, Vanish(m) PROVE LoopInv'
  <2>1. /\ \A n \in Machines \ {m} : machine'[n] = machine[n]
        /\ machine'[m] = Gone /\ Existing' = Existing \ {m}
    BY <1>12, VanishFrame
  <2>2. UNCHANGED role
    BY <1>12 DEF Vanish
  <2>. QED  BY <1>b, <2>1, <2>2, NoneAssumption
<1>13. CASE Other
  <2>1. UNCHANGED role /\ (UNCHANGED machine \/ \E m \in Existing : Delete(m))
    BY <1>13 DEF Other
  <2>2. UNCHANGED role => UNCHANGED <<pc, nodes, todo, kept, outcome, runs>>
    BY DEF role
  <2>. QED  BY <1>a, <1>c, <2>1, <2>2
<1>. QED  BY <1>1, <1>2, <1>3, <1>4, <1>5, <1>6, <1>7, <1>8, <1>9, <1>10, <1>11, <1>12, <1>13
       DEF Next, Role, Cluster

-----------------------------------------------------------------------------
(* The invariant: machines lost and machines owed.                         *)

\* The numbers that are owed to changes are natural numbers.
Counted ==
  /\ Cardinality(Plain(First) \ Loop) \in Nat /\ Cardinality(Live(First)) \in Nat
  /\ replicas[First] \in Nat /\ kept \in Nat /\ Lacking \in Nat /\ Owed \in Nat
  /\ \A s \in Sets : /\ Cardinality(Live(s)) \in Nat /\ Cardinality(Plain(s)) \in Nat
                     /\ Cardinality(Plain(s)) <= Cardinality(Live(s))
                     /\ replicas[s] \in Nat

\* The types make them so.
LEMMA Numbers == TypeOK => Counted
<1>. SUFFICES ASSUME TypeOK PROVE Counted
  OBVIOUS
<1>1. Cardinality(Plain(First) \ Loop) \in Nat
  <2>1. Plain(First) \ Loop \in SUBSET Machines
    BY LiveSubset
  <2>. QED  BY <2>1, Subsets
<1>2. \A s \in Sets : /\ Cardinality(Live(s)) \in Nat /\ Cardinality(Plain(s)) \in Nat
                      /\ Cardinality(Plain(s)) <= Cardinality(Live(s)) /\ replicas[s] \in Nat
  <2>. SUFFICES ASSUME NEW s \in Sets
                PROVE  /\ Cardinality(Live(s)) \in Nat /\ Cardinality(Plain(s)) \in Nat
                       /\ Cardinality(Plain(s)) <= Cardinality(Live(s)) /\ replicas[s] \in Nat
    OBVIOUS
  <2>1. Live(s) \in SUBSET Machines /\ Plain(s) \in SUBSET Live(s)
    BY LiveSubset
  <2>. QED  BY <2>1, Subsets DEF TypeOK
<1>3. kept \in Nat
  <2>1. Cardinality(Machines) \in Nat
    BY Subsets
  <2>. QED  BY <2>1 DEF TypeOK
<1>4. Cardinality(Live(First)) \in Nat /\ replicas[First] \in Nat
  BY <1>2, FirstAssumption
<1>5. Lacking \in Nat
  BY <1>4 DEF Lacking, Positive
<1>6. Owed \in Nat
  BY <1>1, <1>3, <1>5 DEF Owed, Positive
<1>. QED  BY <1>1, <1>2, <1>3, <1>4, <1>5, <1>6 DEF Counted

\* They are so after a step, too.
LEMMA NumbersLater == TypeOK' => Counted'
BY Numbers, PTL

\* As long as the role does nothing, what is owed moves with what the first set lacks
\* and with the plain machines the loop has been at.
LEMMA OwedMoves ==
  ASSUME TypeOK, TypeOK', UNCHANGED role, NEW a \in 0 .. 1, NEW b \in Int, a + b >= 0,
         Lacking' <= Lacking + b,
         Cardinality(Plain(First)' \ Loop) <= Cardinality(Plain(First) \ Loop) + a
  PROVE  Owed' <= Owed + a + b
<1>1. UNCHANGED <<runs, pc, broken, kept>> /\ Loop' = Loop
  BY DEF role, Loop
<1>2. /\ Cardinality(Plain(First) \ Loop) \in Nat /\ kept \in Nat /\ Lacking \in Nat
      /\ Lacking' \in Nat /\ Cardinality(Plain(First)' \ Loop) \in Nat
  <2>1. /\ Cardinality(Plain(First) \ Loop) \in Nat /\ kept \in Nat /\ Lacking \in Nat
    BY Numbers DEF Counted
  <2>3. Cardinality(Plain(First)' \ Loop') \in Nat /\ Lacking' \in Nat
    BY NumbersLater DEF Counted
  <2>. QED  BY <1>1, <2>1, <2>3
<1>3. CASE runs = 0 \/ pc = "list"
  BY <1>1, <1>2, <1>3 DEF Owed
<1>4. CASE ~(runs = 0 \/ pc = "list") /\ pc = "annotate" /\ ~broken
  <2>1. Owed = Lacking + Positive(Cardinality(Plain(First) \ Loop) - kept)
    BY <1>4 DEF Owed
  <2>2. Owed' = Lacking' + Positive(Cardinality(Plain(First)' \ Loop) - kept)
    BY <1>1, <1>4 DEF Owed, Positive
  <2>. QED  BY <1>2, <2>1, <2>2 DEF Positive
<1>5. CASE ~(runs = 0 \/ pc = "list") /\ ~(pc = "annotate" /\ ~broken)
  BY <1>1, <1>5 DEF Owed
<1>. QED  BY <1>3, <1>4, <1>5

\* A MachineSet that deletes a machine nothing marks has one too many, which is owed.
LEMMA SurplusScaleDown ==
  ASSUME TypeOK, TypeOK', MachineInv, runs <= 1, NEW E \in SUBSET Machines, Accounts(E),
         NEW r \in Sets, NEW m \in Machines, ScaleDown(r, m)
  PROVE  \E F \in SUBSET Machines : Accounts(F)'
<1>1. /\ m \in Live(r) /\ m \in Existing /\ Delete(m) /\ Cardinality(Live(r)) > replicas[r]
      /\ machine[m].annotated \/ \A n \in Live(r) : ~machine[n].annotated
      /\ UNCHANGED <<replicas, role, changes>>
  BY LiveSubset DEF ScaleDown
<1>2. \A s \in Sets : Live(s)' = Live(s) \ {m} /\ Plain(s)' = Plain(s) \ {m}
  BY <1>1, DeleteFrame
<1>3. /\ lost \cup E \in SUBSET Machines /\ lost \in SUBSET Machines
      /\ \A s \in Sets : Plain(s) \in SUBSET Machines /\ Live(s) \in SUBSET Machines
  BY LiveSubset DEF TypeOK
<1>4. /\ \A s \in Sets : Cardinality(Plain(s) \ E) <= replicas[s] /\ replicas[s] \in Nat
      /\ Cardinality(lost \cup E) + Owed <= changes /\ Owed \in Nat /\ changes \in Nat
  BY Numbers, BoundsAssumption DEF Accounts, Counted, TypeOK
<1>5. Owed' <= Owed /\ Owed' \in Nat
  <2>1. Lacking' <= Lacking
    <3>1. CASE r = First
      <4>1. Cardinality(Live(First)') = Cardinality(Live(First)) - 1
        BY <1>1, <1>2, <1>3, <3>1, OneMore
      <4>2. Cardinality(Live(First)) - 1 >= replicas[First]
        BY <1>1, <3>1, Numbers DEF Counted
      <4>3. Lacking' = 0 /\ Lacking \in Nat
        BY <1>1, <4>1, <4>2, Numbers DEF Lacking, Positive, Counted
      <4>. QED  BY <4>3
    <3>2. CASE r # First
      <4>1. \A s \in Sets \ {r} : m \notin Live(s)
        BY <1>1 DEF Live
      <4>2. Live(First)' = Live(First)
        BY <1>2, <3>2, <4>1, FirstAssumption
      <4>3. Lacking' = Lacking
        BY <1>1, <4>2 DEF Lacking, Positive
      <4>. QED  BY <4>3, Numbers DEF Counted
    <3>. QED  BY <3>1, <3>2
  <2>2. Cardinality(Plain(First)' \ Loop) <= Cardinality(Plain(First) \ Loop)
    <3>1. Plain(First)' \ Loop \in SUBSET (Plain(First) \ Loop)
      BY <1>2, FirstAssumption
    <3>. QED  BY <3>1, <1>3, FirstAssumption, Subsets
  <2>3. Owed' <= Owed + 0 + 0
    <3>1. Lacking' <= Lacking + 0
      BY <2>1, Numbers DEF Counted
    <3>2. Cardinality(Plain(First)' \ Loop) <= Cardinality(Plain(First) \ Loop) + 0
      BY <2>2, Numbers DEF Counted
    <3>. QED  BY <3>1, <3>2, <1>1, OwedMoves
  <2>. QED  BY <2>3, <1>4, NumbersLater DEF Counted
<1>6. CASE machine[m].annotated
  <2>1. lost' = lost
    BY <1>1, <1>6 DEF ScaleDown, MachineInv
  <2>2. \A s \in Sets : Plain(s)' = Plain(s)
    BY <1>2, <1>6 DEF Plain
  <2>3. Accounts(E)'
    <3>1. \A s \in Sets : Cardinality(Plain(s)' \ E) <= replicas'[s]
      BY <1>1, <1>4, <2>2
    <3>2. Cardinality(lost \cup E) \in Nat
      BY <1>3, Subsets
    <3>3. Cardinality(lost' \cup E) + Owed' <= changes'
      BY <1>1, <1>4, <1>5, <2>1, <3>2
    <3>. QED  BY <3>1, <3>3 DEF Accounts
  <2>. QED  BY <2>3
<1>7. CASE ~machine[m].annotated
  <2>1. Plain(r) = Live(r)
    BY <1>1, <1>7 DEF Plain
  <2>2. PICK e \in Plain(r) : e \in E
    <3>1. Cardinality(Plain(r) \ E) < Cardinality(Plain(r))
      <4>1. Cardinality(Plain(r) \ E) <= replicas[r] /\ replicas[r] \in Nat
        BY <1>4
      <4>2. Cardinality(Plain(r)) > replicas[r]
        BY <1>1, <2>1
      <4>3. Cardinality(Plain(r)) \in Nat /\ Cardinality(Plain(r) \ E) \in Nat
        BY <1>3, Subsets
      <4>. QED  BY <4>1, <4>2, <4>3
    <3>2. Cardinality(Plain(r)) \in Nat
      BY <1>3, Subsets
    <3>3. Plain(r) \ E # Plain(r)
      BY <3>1, <3>2
    <3>. QED  BY <3>3
  <2>3. lost' \subseteq lost \cup {m} /\ m \in Plain(r) /\ lost' \in SUBSET Machines
    BY <1>1, <1>3, <2>1 DEF ScaleDown
  <2>4. e \notin lost /\ e \in Machines
    BY <2>2, LiveSubset DEF MachineInv, Plain, Live
  <2>5. CASE m \in E
    <3>1. lost' \cup E \in SUBSET (lost \cup E)
      BY <2>3, <2>5
    <3>2. Cardinality(lost' \cup E) <= Cardinality(lost \cup E) /\ Cardinality(lost' \cup E) \in Nat
      BY <1>3, <3>1, Subsets
    <3>3. \A s \in Sets : Cardinality(Plain(s)' \ E) <= replicas'[s]
      <4>. SUFFICES ASSUME NEW s \in Sets PROVE Cardinality(Plain(s)' \ E) <= replicas'[s]
        OBVIOUS
      <4>1. Plain(s)' \ E = Plain(s) \ E
        BY <1>2, <2>5
      <4>. QED  BY <1>1, <1>4, <4>1
    <3>4. Cardinality(lost \cup E) \in Nat
      BY <1>3, Subsets
    <3>5. Cardinality(lost' \cup E) + Owed' <= changes'
      BY <1>1, <1>4, <1>5, <3>2, <3>4
    <3>6. Accounts(E)'
      BY <3>3, <3>5 DEF Accounts
    <3>. QED  BY <3>6
  <2>6. CASE m \notin E
    <3>. DEFINE F == E \ {e}
    <3>1. lost' \cup F \in SUBSET (((lost \cup E) \ {e}) \cup {m})
      BY <2>3, <2>4
    <3>2. Cardinality(lost' \cup F) <= Cardinality(lost \cup E) /\ Cardinality(lost' \cup F) \in Nat
      <4>1. (lost \cup E) \ {e} \in SUBSET Machines /\ e \in lost \cup E
        BY <1>3, <2>2
      <4>2. Cardinality((lost \cup E) \ {e}) = Cardinality(lost \cup E) - 1
        BY <1>3, <2>4, <4>1, OneMore
      <4>3. /\ Cardinality((lost \cup E) \ {e}) \in Nat /\ Cardinality(lost \cup E) \in Nat
        BY <1>3, <4>1, Subsets
      <4>4. Cardinality(((lost \cup E) \ {e}) \cup {m}) <= Cardinality((lost \cup E) \ {e}) + 1
        <5>. DEFINE X == (lost \cup E) \ {e}
        <5>1. X \in SUBSET Machines /\ Cardinality(X) \in Nat
          BY <4>1, <4>3
        <5>. HIDE DEF X
        <5>2. Cardinality(X \cup {m}) = IF m \in X THEN Cardinality(X) ELSE Cardinality(X) + 1
          BY <5>1, OneMore
        <5>3. Cardinality(X \cup {m}) <= Cardinality(X) + 1
          BY <5>1, <5>2
        <5>. QED  BY <5>3 DEF X
      <4>5. ((lost \cup E) \ {e}) \cup {m} \in SUBSET Machines
        BY <4>1
      <4>6. /\ Cardinality(lost' \cup F) \in Nat
            /\ Cardinality(lost' \cup F) <= Cardinality(((lost \cup E) \ {e}) \cup {m})
            /\ Cardinality(((lost \cup E) \ {e}) \cup {m}) \in Nat
        <5>. HIDE DEF F
        <5>. QED  BY <3>1, <4>5, Subsets
      <4>. HIDE DEF F
      <4>. QED  BY <4>2, <4>3, <4>4, <4>6
    <3>3. ASSUME NEW s \in Sets PROVE Cardinality(Plain(s)' \ F) <= replicas'[s]
      <4>1. CASE s = r
        <5>1. Plain(r)' \ F = ((Plain(r) \ E) \ {m}) \cup {e}
          <6>1. e # m
            BY <2>2, <2>6
          <6>. QED  BY <1>2, <2>2, <6>1
        <5>2. m \in Plain(r) \ E /\ Plain(r) \ E \in SUBSET Machines
          BY <1>3, <2>3, <2>6
        <5>3. Cardinality((Plain(r) \ E) \ {m}) = Cardinality(Plain(r) \ E) - 1
          BY <5>2, OneMore
        <5>4. Cardinality(Plain(r) \ E) \in Nat /\ Cardinality((Plain(r) \ E) \ {m}) \in Nat
          BY <5>2, Subsets
        <5>5. Cardinality(((Plain(r) \ E) \ {m}) \cup {e}) <= Cardinality((Plain(r) \ E) \ {m}) + 1
          <6>1. (Plain(r) \ E) \ {m} \in SUBSET Machines
            BY <5>2
          <6>. QED  BY <2>4, <5>4, <6>1, OneMore
        <5>6. Cardinality(((Plain(r) \ E) \ {m}) \cup {e}) \in Nat
          <6>1. ((Plain(r) \ E) \ {m}) \cup {e} \in SUBSET Machines
            BY <2>4, <5>2
          <6>. QED  BY <6>1, Subsets
        <5>7. Cardinality(Plain(r)' \ F) <= replicas[r]
          <6>1. Cardinality(Plain(r) \ E) <= replicas[r] /\ replicas[r] \in Nat
            BY <1>4
          <6>. DEFINE X == ((Plain(r) \ E) \ {m}) \cup {e}
          <6>2. Plain(r)' \ F = X
            BY <5>1
          <6>3. Cardinality(X) <= replicas[r]
            <7>1. Cardinality(X) <= Cardinality((Plain(r) \ E) \ {m}) + 1 /\ Cardinality(X) \in Nat
              BY <5>5, <5>6
            <7>. HIDE DEF X
            <7>. QED  BY <5>3, <5>4, <6>1, <7>1
          <6>. HIDE DEF X, F
          <6>. QED  BY <6>2, <6>3
        <5>. QED  BY <1>1, <4>1, <5>7
      <4>2. CASE s # r
        <5>1. m \notin Plain(s) /\ e \notin Plain(s)
          BY <1>1, <2>2, <4>2 DEF Plain, Live
        <5>2. Plain(s)' \ F = Plain(s) \ E
          BY <1>2, <5>1
        <5>. QED  BY <1>1, <1>4, <5>2
      <4>. QED  BY <4>1, <4>2
    <3>4. Cardinality(lost \cup E) \in Nat
      BY <1>3, Subsets
    <3>5. Cardinality(lost' \cup F) + Owed' <= changes'
      <4>. HIDE DEF F
      <4>. QED  BY <1>1, <1>4, <1>5, <3>2, <3>4
    <3>6. F \in SUBSET Machines
      OBVIOUS
    <3>. HIDE DEF F
    <3>7. Accounts(F)'
      BY <3>3, <3>5 DEF Accounts
    <3>. QED  BY <3>6, <3>7
  <2>. QED  BY <2>5, <2>6
<1>. QED  BY <1>6, <1>7

\* A MachineSet that creates a machine lacks one, and gets no more than it wants.
LEMMA SurplusScaleUp ==
  ASSUME TypeOK, TypeOK', NEW E \in SUBSET Machines, Accounts(E),
         NEW r \in Sets, NEW m \in Machines, ScaleUp(r, m)
  PROVE  Accounts(E)'
<1>1. /\ Cardinality(Live(r)) < replicas[r] /\ UNCHANGED <<replicas, role, changes, lost>>
  BY DEF ScaleUp, history
<1>2. /\ Live(r)' = Live(r) \cup {m} /\ Plain(r)' = Plain(r) \cup {m} /\ m \notin Existing
      /\ \A s \in Sets \ {r} : Live(s)' = Live(s) /\ Plain(s)' = Plain(s)
  BY ScaleUpFrame
<1>3. /\ \A s \in Sets : Plain(s) \in SUBSET Machines /\ Live(s) \in SUBSET Machines
      /\ m \notin Live(r) /\ m \notin Plain(r)
  BY <1>2, LiveSubset
<1>4. /\ \A s \in Sets : Cardinality(Plain(s) \ E) <= replicas[s]
      /\ Cardinality(lost \cup E) + Owed <= changes
  BY DEF Accounts
<1>5. Cardinality(Plain(r)' \ E) <= replicas[r]
  <2>1. Cardinality(Plain(r)') = Cardinality(Plain(r)) + 1
    BY <1>2, <1>3, OneMore
  <2>2. Cardinality(Plain(r)') <= replicas[r] /\ replicas[r] \in Nat
    BY <1>1, <2>1, Numbers DEF Counted
  <2>3. Plain(r)' \in SUBSET Machines /\ Plain(r)' \ E \in SUBSET Plain(r)'
    BY <1>2, <1>3
  <2>4. /\ Cardinality(Plain(r)' \ E) <= Cardinality(Plain(r)')
        /\ Cardinality(Plain(r)') \in Nat /\ Cardinality(Plain(r)' \ E) \in Nat
    BY <2>3, Subsets
  <2>. QED  BY <2>2, <2>4
<1>6. \A s \in Sets : Cardinality(Plain(s)' \ E) <= replicas'[s]
  BY <1>1, <1>2, <1>4, <1>5
<1>7. Owed' <= Owed
  <2>1. CASE r = First
    <3>1. Cardinality(Live(First)') = Cardinality(Live(First)) + 1
      BY <1>2, <1>3, <2>1, OneMore
    <3>2. Lacking' <= Lacking + (-1)
      <4>1. Cardinality(Live(First)) < replicas[First]
        BY <1>1, <2>1
      <4>2. Lacking = replicas[First] - Cardinality(Live(First))
        BY <4>1, Numbers DEF Lacking, Positive, Counted
      <4>3. Lacking' = replicas[First] - (Cardinality(Live(First)) + 1)
        BY <1>1, <3>1, <4>1, Numbers DEF Lacking, Positive, Counted
      <4>. QED  BY <4>2, <4>3, Numbers DEF Counted
    <3>3. Cardinality(Plain(First)' \ Loop) <= Cardinality(Plain(First) \ Loop) + 1
      <4>1. Plain(First)' \ Loop \in SUBSET ((Plain(First) \ Loop) \cup {m})
        BY <1>2, <2>1
      <4>2. Plain(First) \ Loop \in SUBSET Machines
        BY <1>3, <2>1
      <4>3. Cardinality((Plain(First) \ Loop) \cup {m})
              = IF m \in Plain(First) \ Loop THEN Cardinality(Plain(First) \ Loop)
                ELSE Cardinality(Plain(First) \ Loop) + 1
        BY <4>2, OneMore
      <4>4. (Plain(First) \ Loop) \cup {m} \in SUBSET Machines
        BY <4>2
      <4>5. /\ Cardinality(Plain(First)' \ Loop) <= Cardinality((Plain(First) \ Loop) \cup {m})
            /\ Cardinality(Plain(First)' \ Loop) \in Nat
        BY <4>1, <4>4, Subsets
      <4>6. Cardinality(Plain(First) \ Loop) \in Nat
        BY <4>2, Subsets
      <4>. QED  BY <4>3, <4>5, <4>6
    <3>4. Owed' <= Owed + 1 + (-1)
      BY <1>1, <3>2, <3>3, OwedMoves
    <3>. QED  BY <3>4, Numbers, NumbersLater DEF Counted
  <2>2. CASE r # First
    <3>1. Live(First)' = Live(First) /\ Plain(First)' = Plain(First)
      BY <1>2, <2>2, FirstAssumption
    <3>2. Lacking' <= Lacking + 0
      <4>1. Lacking' = Lacking
        BY <1>1, <3>1 DEF Lacking, Positive
      <4>. QED  BY <4>1, Numbers DEF Counted
    <3>3. Cardinality(Plain(First)' \ Loop) <= Cardinality(Plain(First) \ Loop) + 0
      BY <3>1, Numbers DEF Counted
    <3>4. Owed' <= Owed + 0 + 0
      BY <1>1, <3>2, <3>3, OwedMoves
    <3>. QED  BY <3>4, Numbers, NumbersLater DEF Counted
  <2>. QED  BY <2>1, <2>2
<1>8. Cardinality(lost' \cup E) + Owed' <= changes'
  <2>1. lost \cup E \in SUBSET Machines
    BY DEF TypeOK
  <2>2. Cardinality(lost \cup E) \in Nat
    BY <2>1, Subsets
  <2>3. changes \in Nat
    BY BoundsAssumption DEF TypeOK
  <2>. QED  BY <1>1, <1>4, <1>7, <2>2, <2>3, Numbers, NumbersLater DEF Counted
<1>. QED  BY <1>6, <1>8 DEF Accounts

\* A round of the loop marks a machine, counts it, or gives up counting.
LEMMA SurplusAnnotate ==
  ASSUME TypeOK, TypeOK', LoopInv, NEW E \in SUBSET Machines, Accounts(E),
         NEW m \in Machines, NEW node \in Hosts \cup {None}, Annotate(m, node)
  PROVE  Accounts(E)'
<1>1. /\ pc = "annotate" /\ m \in Loop /\ Loop' = Loop \ {m} /\ runs > 0
      /\ UNCHANGED <<replicas, pc, runs, changes, lost>>
  BY LoopRound DEF LoopInv, Annotate, history
<1>2. \/ UNCHANGED machine
      \/ /\ m \in Existing /\ \A s \in Sets : Live(s)' = Live(s) /\ Plain(s)' = Plain(s) \ {m}
         /\ UNCHANGED <<kept, broken>>
  BY AnnotatedFrame DEF Annotate
<1>3. UNCHANGED machine => \A s \in Sets : Live(s)' = Live(s) /\ Plain(s)' = Plain(s)
  BY DEF Live, Plain, Existing
<1>4. \A s \in Sets : Live(s)' = Live(s) /\ Plain(s)' \subseteq Plain(s)
  BY <1>2, <1>3
<1>5. /\ \A s \in Sets : Cardinality(Plain(s) \ E) <= replicas[s]
      /\ Cardinality(lost \cup E) + Owed <= changes
  BY DEF Accounts
<1>6. \A s \in Sets : Cardinality(Plain(s)' \ E) <= replicas'[s]
  <2>. SUFFICES ASSUME NEW s \in Sets PROVE Cardinality(Plain(s)' \ E) <= replicas'[s]
    OBVIOUS
  <2>1. Plain(s)' \ E \in SUBSET (Plain(s) \ E) /\ Plain(s) \ E \in SUBSET Machines
    BY <1>4, LiveSubset
  <2>2. /\ Cardinality(Plain(s)' \ E) <= Cardinality(Plain(s) \ E)
        /\ Cardinality(Plain(s)' \ E) \in Nat /\ Cardinality(Plain(s) \ E) \in Nat
    BY <2>1, Subsets
  <2>3. Cardinality(Plain(s) \ E) <= replicas[s] /\ replicas[s] \in Nat
    BY <1>5 DEF TypeOK
  <2>. QED  BY <1>1, <2>2, <2>3
<1>7. Lacking' = Lacking
  BY <1>1, <1>4, FirstAssumption DEF Lacking, Positive
<1>8. Owed' <= Owed
  <2>1. CASE broken'
    <3>1. Owed' = 0
      BY <1>1, <2>1 DEF Owed
    <3>. QED  BY <3>1, Numbers DEF Counted
  <2>2. CASE ~broken'
    <3>1. ~broken
      BY <2>2, <1>2 DEF Annotate
    <3>2. Owed = Lacking + Positive(Cardinality(Plain(First) \ Loop) - kept)
      BY <1>1, <3>1, Numbers DEF Owed, Counted
    <3>3. Owed' = Lacking + Positive(Cardinality((Plain(First) \ Loop)') - kept')
      BY <1>1, <1>7, <2>2, Numbers DEF Owed, Counted, Positive
    <3>4. Cardinality((Plain(First) \ Loop)') - kept' <= Cardinality(Plain(First) \ Loop) - kept
      <4>1. CASE Plain(First)' = Plain(First) \ {m} /\ kept' = kept
        <5>1. (Plain(First) \ Loop)' = Plain(First) \ Loop
          BY <1>1, <4>1
        <5>2. Cardinality(Plain(First) \ Loop) \in Nat /\ kept \in Nat
          BY Numbers DEF Counted
        <5>3. Cardinality((Plain(First) \ Loop)') = Cardinality(Plain(First) \ Loop)
          BY <5>1
        <5>4. kept' = kept
          BY <4>1
        <5>. QED  BY <5>2, <5>3, <5>4
      <4>2. CASE Plain(First)' = Plain(First) /\ kept' = kept + 1
        <5>. DEFINE X == Plain(First) \ Loop
        <5>1. (Plain(First) \ Loop)' \in SUBSET (X \cup {m}) /\ X \in SUBSET Machines
          BY <1>1, <4>2, LiveSubset
        <5>2. X \cup {m} \in SUBSET Machines
          BY <5>1
        <5>. HIDE DEF X
        <5>3. Cardinality(X \cup {m}) = IF m \in X THEN Cardinality(X) ELSE Cardinality(X) + 1
          BY <5>1, OneMore
        <5>4. /\ Cardinality((Plain(First) \ Loop)') <= Cardinality(X \cup {m})
              /\ Cardinality((Plain(First) \ Loop)') \in Nat /\ Cardinality(X) \in Nat
          BY <5>1, <5>2, Subsets
        <5>5. kept \in Nat
          BY Numbers DEF Counted
        <5>6. Cardinality((Plain(First) \ Loop)') - kept' <= Cardinality(X) - kept
          BY <4>2, <5>3, <5>4, <5>5
        <5>. QED  BY <5>6 DEF X
      <4>3. \/ m \in Existing /\ machine' = Annotated(m) /\ kept' = kept
            \/ UNCHANGED machine /\ kept' = kept + 1
        BY <2>2, <3>1 DEF Annotate
      <4>4. m \in Existing /\ machine' = Annotated(m) => Plain(First)' = Plain(First) \ {m}
        BY AnnotatedFrame, FirstAssumption
      <4>. QED  BY <4>1, <4>2, <4>3, <4>4, <1>3, FirstAssumption
    <3>5. /\ Cardinality((Plain(First) \ Loop)') \in Nat /\ kept' \in Nat
          /\ Cardinality(Plain(First) \ Loop) \in Nat /\ kept \in Nat /\ Lacking \in Nat
      BY Numbers, NumbersLater DEF Counted
    <3>. QED  BY <3>2, <3>3, <3>4, <3>5 DEF Positive
  <2>. QED  BY <2>1, <2>2
<1>9. Cardinality(lost' \cup E) + Owed' <= changes'
  <2>1. lost \cup E \in SUBSET Machines
    BY DEF TypeOK
  <2>2. Cardinality(lost \cup E) \in Nat
    BY <2>1, Subsets
  <2>3. changes \in Nat
    BY BoundsAssumption DEF TypeOK
  <2>. QED  BY <1>1, <1>5, <1>8, <2>2, <2>3, Numbers, NumbersLater DEF Counted
<1>. QED  BY <1>6, <1>9 DEF Accounts

\* With the new number of replicas the first set has too many machines: those it had
\* before, and the plain ones that were not counted, which are owed.
LEMMA SurplusReduce ==
  ASSUME TypeOK, TypeOK', LoopInv, NEW E \in SUBSET Machines, Accounts(E), Reduce
  PROVE  \E F \in SUBSET Machines : Accounts(F)'
<1>1. /\ pc = "annotate" /\ todo = {} /\ ~broken /\ runs > 0 /\ pc' = "wait"
      /\ replicas' = [replicas EXCEPT ![First] = kept]
      /\ UNCHANGED <<machine, runs, changes, lost>>
  BY DEF Reduce, LoopInv, history
<1>2. \A s \in Sets : Plain(s)' = Plain(s)
  BY <1>1 DEF Plain, Live, Existing
<1>3. /\ \A s \in Sets : Cardinality(Plain(s) \ E) <= replicas[s]
      /\ Cardinality(lost \cup E) + Owed <= changes
  BY DEF Accounts
<1>. DEFINE P == Plain(First)
            d == Positive(Cardinality(P) - kept)
<1>4. P \in SUBSET Machines /\ Cardinality(P) \in Nat /\ kept \in Nat
  BY LiveSubset, Numbers, FirstAssumption DEF Counted
<1>5. d \in Nat /\ d <= Cardinality(P) /\ Cardinality(P) - d <= kept
  BY <1>4 DEF Positive
<1>6. Owed = Lacking + d /\ Lacking \in Nat
  <2>1. Loop = {}
    BY <1>1 DEF Loop
  <2>2. Plain(First) \ Loop = P
    BY <2>1
  <2>. QED  BY <1>1, <2>2, Numbers DEF Owed, Counted
<1>. HIDE DEF P, d
<1>7. PICK D \in SUBSET P : Cardinality(D) = d /\ Cardinality(P \ D) = Cardinality(P) - d
  <2>1. d \in 0 .. Cardinality(P)
    BY <1>4, <1>5
  <2>. QED  BY <1>4, <2>1, PartOfSize
<1>8. D \in SUBSET Machines /\ E \cup D \in SUBSET Machines
  BY <1>4
<1>9. ASSUME NEW s \in Sets PROVE Cardinality(Plain(s)' \ (E \cup D)) <= replicas'[s]
  <2>1. CASE s = First
    <3>1. Plain(s)' \ (E \cup D) \in SUBSET (P \ D) /\ P \ D \in SUBSET Machines
      BY <1>2, <1>4, <2>1 DEF P
    <3>2. Cardinality(Plain(s)' \ (E \cup D)) <= Cardinality(P \ D)
      BY <3>1, Subsets
    <3>3. replicas'[s] = kept
      BY <1>1, <2>1, FirstAssumption DEF TypeOK
    <3>4. Cardinality(Plain(s)' \ (E \cup D)) \in Nat
      BY <3>1, Subsets
    <3>. QED  BY <3>2, <3>3, <3>4, <1>4, <1>5, <1>7
  <2>2. CASE s # First
    <3>1. Plain(s)' \ (E \cup D) \in SUBSET (Plain(s) \ E) /\ Plain(s) \ E \in SUBSET Machines
      BY <1>2, LiveSubset
    <3>2. /\ Cardinality(Plain(s)' \ (E \cup D)) <= Cardinality(Plain(s) \ E)
          /\ Cardinality(Plain(s)' \ (E \cup D)) \in Nat /\ Cardinality(Plain(s) \ E) \in Nat
      BY <3>1, Subsets
    <3>3. replicas'[s] = replicas[s] /\ replicas[s] \in Nat
      BY <1>1, <2>2 DEF TypeOK
    <3>4. Cardinality(Plain(s) \ E) <= replicas[s]
      BY <1>3
    <3>. QED  BY <3>2, <3>3, <3>4
  <2>. QED  BY <2>1, <2>2
<1>10. Cardinality(lost' \cup (E \cup D)) + Owed' <= changes'
  <2>1. lost \cup E \in SUBSET Machines
    BY DEF TypeOK
  <2>2. Cardinality((lost \cup E) \cup D) <= Cardinality(lost \cup E) + d
    BY <1>7, <1>8, <2>1, Together
  <2>3. lost' \cup (E \cup D) = (lost \cup E) \cup D
    BY <1>1
  <2>4. (lost \cup E) \cup D \in SUBSET Machines
    BY <1>8, <2>1
  <2>5. Cardinality((lost \cup E) \cup D) \in Nat /\ Cardinality(lost \cup E) \in Nat
    BY <2>1, <2>4, Subsets
  <2>6. Owed' = 0
    BY <1>1, BoundsAssumption DEF Owed, TypeOK
  <2>7. changes \in Nat /\ changes' = changes
    BY <1>1, BoundsAssumption DEF TypeOK
  <2>8. Cardinality(lost' \cup (E \cup D)) = Cardinality((lost \cup E) \cup D)
    BY <2>3
  <2>. QED  BY <1>3, <1>5, <1>6, <2>2, <2>5, <2>6, <2>7, <2>8
<1>11. Accounts(E \cup D)'
  BY <1>9, <1>10 DEF Accounts
<1>. QED  BY <1>8, <1>11

\* A change of somebody else makes one machine owed, or superfluous.
LEMMA SurplusOther ==
  ASSUME TypeOK, TypeOK', NEW E \in SUBSET Machines, Accounts(E), Other
  PROVE  \E F \in SUBSET Machines : Accounts(F)'
<1>1. changes' = changes + 1 /\ UNCHANGED <<role, lost>>
  BY DEF Other, history
<1>2. /\ \A s \in Sets : Cardinality(Plain(s) \ E) <= replicas[s]
      /\ Cardinality(lost \cup E) + Owed <= changes
  BY DEF Accounts
<1>3. lost \cup E \in SUBSET Machines
  BY DEF TypeOK
<1>4. Cardinality(lost \cup E) \in Nat /\ Owed \in Nat /\ changes \in Nat /\ Owed' \in Nat
  BY <1>3, Subsets, Numbers, NumbersLater, BoundsAssumption DEF Counted, TypeOK
<1>5. ASSUME NEW r \in Sets, NEW n \in Nat, n = replicas[r] + 1 \/ n = replicas[r] - 1,
             replicas' = [replicas EXCEPT ![r] = n], UNCHANGED machine
      PROVE  \E F \in SUBSET Machines : Accounts(F)'
  <2>1. \A s \in Sets : Live(s)' = Live(s) /\ Plain(s)' = Plain(s)
    BY <1>5 DEF Live, Plain, Existing
  <2>2. /\ replicas'[r] = n /\ \A s \in Sets \ {r} : replicas'[s] = replicas[s]
        /\ \A s \in Sets : replicas[s] \in Nat
    BY <1>5 DEF TypeOK
  <2>3. Cardinality(Plain(First)' \ Loop) <= Cardinality(Plain(First) \ Loop) + 0
    BY <2>1, FirstAssumption, Numbers DEF Counted
  <2>4. CASE n = replicas[r] + 1
    <3>1. Lacking' <= Lacking + 1
      <4>1. replicas'[First] <= replicas[First] + 1 /\ replicas'[First] \in Nat /\ replicas[First] \in Nat
        BY <2>2, <2>4, FirstAssumption
      <4>2. Cardinality(Live(First)) \in Nat
        BY Numbers DEF Counted
      <4>3. Lacking' = Positive(replicas'[First] - Cardinality(Live(First)))
        BY <2>1, FirstAssumption DEF Lacking, Positive
      <4>. QED  BY <4>1, <4>2, <4>3 DEF Lacking, Positive
    <3>2. Owed' <= Owed + 0 + 1
      BY <3>1, <2>3, <1>1, OwedMoves
    <3>3. \A s \in Sets : Cardinality(Plain(s)' \ E) <= replicas'[s]
      <4>. SUFFICES ASSUME NEW s \in Sets PROVE Cardinality(Plain(s)' \ E) <= replicas'[s]
        OBVIOUS
      <4>1. Plain(s) \ E \in SUBSET Machines
        BY LiveSubset
      <4>2. Cardinality(Plain(s) \ E) \in Nat /\ Cardinality(Plain(s) \ E) <= replicas[s]
        BY <4>1, <1>2, Subsets
      <4>3. replicas[s] <= replicas'[s] /\ replicas'[s] \in Nat /\ replicas[s] \in Nat
        BY <2>2, <2>4
      <4>. QED  BY <4>2, <4>3, <2>1
    <3>4. Cardinality(lost' \cup E) + Owed' <= changes'
      BY <1>1, <1>2, <1>4, <3>2
    <3>5. Accounts(E)'
      BY <3>3, <3>4 DEF Accounts
    <3>. QED  BY <3>5
  <2>5. CASE n = replicas[r] - 1
    <3>1. Lacking' <= Lacking + 0
      <4>1. replicas'[First] <= replicas[First] /\ replicas'[First] \in Nat /\ replicas[First] \in Nat
        BY <2>2, <2>5, FirstAssumption
      <4>2. Cardinality(Live(First)) \in Nat
        BY Numbers DEF Counted
      <4>3. Lacking' = Positive(replicas'[First] - Cardinality(Live(First)))
        BY <2>1, FirstAssumption DEF Lacking, Positive
      <4>. QED  BY <4>1, <4>2, <4>3 DEF Lacking, Positive
    <3>2. Owed' <= Owed + 0 + 0
      BY <3>1, <2>3, <1>1, OwedMoves
    <3>3. Plain(r) \ E \in SUBSET Machines
      BY LiveSubset
    <3>4. Cardinality(Plain(r) \ E) \in Nat /\ Cardinality(Plain(r) \ E) <= replicas[r]
      BY <3>3, <1>2, Subsets
    <3>5. CASE Cardinality(Plain(r) \ E) <= n
      <4>1. \A s \in Sets : Cardinality(Plain(s)' \ E) <= replicas'[s]
        <5>. SUFFICES ASSUME NEW s \in Sets PROVE Cardinality(Plain(s)' \ E) <= replicas'[s]
          OBVIOUS
        <5>1. Cardinality(Plain(s)' \ E) = Cardinality(Plain(s) \ E)
          BY <2>1
        <5>2. s # r => Cardinality(Plain(s)' \ E) <= replicas'[s]
          BY <5>1, <1>2, <2>2
        <5>3. s = r => Cardinality(Plain(s)' \ E) <= replicas'[s]
          BY <5>1, <2>2, <3>5
        <5>. QED  BY <5>2, <5>3
      <4>2. Cardinality(lost' \cup E) + Owed' <= changes'
        BY <1>1, <1>2, <1>4, <3>2
      <4>3. Accounts(E)'
        BY <4>1, <4>2 DEF Accounts
      <4>. QED  BY <4>3
    <3>6. CASE ~(Cardinality(Plain(r) \ E) <= n)
      <4>1. Cardinality(Plain(r) \ E) = n + 1
        BY <2>2, <2>5, <3>4, <3>6
      <4>2. PICK e \in Machines : e \in Plain(r) \ E
        <5>1. Plain(r) \ E # {}
          BY <4>1, FS_EmptySet
        <5>. QED  BY <3>3, <5>1
      <4>. DEFINE F == E \cup {e}
      <4>3. ASSUME NEW s \in Sets PROVE Cardinality(Plain(s)' \ F) <= replicas'[s]
        <5>1. CASE s = r
          <6>1. Plain(s)' \ F = (Plain(r) \ E) \ {e}
            BY <2>1, <5>1
          <6>2. Cardinality((Plain(r) \ E) \ {e}) = Cardinality(Plain(r) \ E) - 1
            BY <3>3, <4>2, OneMore
          <6>. HIDE DEF F
          <6>3. Cardinality(Plain(s)' \ F) = n
            BY <4>1, <6>1, <6>2
          <6>. QED  BY <2>2, <5>1, <6>3
        <5>2. CASE s # r
          <6>1. Plain(s)' \ F \in SUBSET (Plain(s) \ E) /\ Plain(s) \ E \in SUBSET Machines
            BY <2>1, LiveSubset
          <6>. HIDE DEF F
          <6>2. /\ Cardinality(Plain(s)' \ F) <= Cardinality(Plain(s) \ E)
                /\ Cardinality(Plain(s)' \ F) \in Nat /\ Cardinality(Plain(s) \ E) \in Nat
            BY <6>1, Subsets
          <6>3. Cardinality(Plain(s) \ E) <= replicas[s] /\ replicas'[s] = replicas[s] /\ replicas[s] \in Nat
            BY <1>2, <2>2, <5>2
          <6>. QED  BY <6>2, <6>3
        <5>. QED  BY <5>1, <5>2
      <4>4. Cardinality(lost' \cup F) + Owed' <= changes'
        <5>1. lost' \cup F = (lost \cup E) \cup {e}
          BY <1>1
        <5>2. Cardinality((lost \cup E) \cup {e})
                = IF e \in lost \cup E THEN Cardinality(lost \cup E) ELSE Cardinality(lost \cup E) + 1
          BY <1>3, OneMore
        <5>. HIDE DEF F
        <5>3. Cardinality(lost' \cup F) <= Cardinality(lost \cup E) + 1 /\ Cardinality(lost' \cup F) \in Nat
          BY <1>4, <5>1, <5>2
        <5>. QED  BY <1>1, <1>2, <1>4, <3>2, <5>3
      <4>5. F \in SUBSET Machines
        OBVIOUS
      <4>. HIDE DEF F
      <4>6. Accounts(F)'
        BY <4>3, <4>4 DEF Accounts
      <4>. QED  BY <4>5, <4>6
    <3>. QED  BY <3>5, <3>6
  <2>. QED  BY <1>5, <2>4, <2>5
<1>6. ASSUME NEW m \in Existing, Delete(m), UNCHANGED replicas
      PROVE  \E F \in SUBSET Machines : Accounts(F)'
  <2>1. \A s \in Sets : Live(s)' = Live(s) \ {m} /\ Plain(s)' = Plain(s) \ {m}
    BY <1>6, DeleteFrame
  <2>2. m \in Machines
    BY ExistingMachine
  <2>3. Lacking' <= Lacking + 1
    <3>1. Live(First) \in SUBSET Machines
      BY LiveSubset
    <3>2. Cardinality(Live(First) \ {m})
            = IF m \in Live(First) THEN Cardinality(Live(First)) - 1 ELSE Cardinality(Live(First))
      BY <2>2, <3>1, OneMore
    <3>3. Lacking' = Positive(replicas[First] - Cardinality(Live(First) \ {m}))
      BY <1>6, <2>1, FirstAssumption DEF Lacking, Positive
    <3>. QED  BY <3>2, <3>3, Numbers DEF Lacking, Positive, Counted
  <2>4. Cardinality(Plain(First)' \ Loop) <= Cardinality(Plain(First) \ Loop) + 0
    <3>1. Plain(First)' \ Loop \in SUBSET (Plain(First) \ Loop) /\ Plain(First) \ Loop \in SUBSET Machines
      BY <2>1, LiveSubset, FirstAssumption
    <3>2. Cardinality(Plain(First)' \ Loop) <= Cardinality(Plain(First) \ Loop)
      BY <3>1, Subsets
    <3>. QED  BY <3>2, Numbers DEF Counted
  <2>5. Owed' <= Owed + 0 + 1
    BY <1>1, <2>3, <2>4, OwedMoves
  <2>6. ASSUME NEW s \in Sets PROVE Cardinality(Plain(s)' \ E) <= replicas'[s]
    <3>1. Plain(s)' \ E \in SUBSET (Plain(s) \ E) /\ Plain(s) \ E \in SUBSET Machines
      BY <2>1, LiveSubset
    <3>2. /\ Cardinality(Plain(s)' \ E) <= Cardinality(Plain(s) \ E)
          /\ Cardinality(Plain(s)' \ E) \in Nat /\ Cardinality(Plain(s) \ E) \in Nat
      BY <3>1, Subsets
    <3>3. Cardinality(Plain(s) \ E) <= replicas[s] /\ replicas[s] \in Nat
      BY <1>2 DEF TypeOK
    <3>. QED  BY <1>6, <3>2, <3>3
  <2>7. Cardinality(lost' \cup E) + Owed' <= changes'
    BY <1>1, <1>2, <1>4, <2>5
  <2>8. Accounts(E)'
    BY <2>6, <2>7 DEF Accounts
  <2>. QED  BY <2>8
<1>7. \/ \E r \in Sets : \E n \in {replicas[r] + 1} \cup ({replicas[r] - 1} \cap Nat) :
           replicas' = [replicas EXCEPT ![r] = n] /\ UNCHANGED machine
      \/ \E m \in Existing : Delete(m) /\ UNCHANGED replicas
  BY DEF Other
<1>8. \A r \in Sets : replicas[r] \in Nat
  BY DEF TypeOK
<1>. QED  BY <1>5, <1>6, <1>7, <1>8

\* Runs and changes are counted, and the machines of the beginning are remembered.
LEMMA Counters ==
  ASSUME TypeOK, [Next]_vars
  PROVE  /\ runs \in Nat /\ changes \in Nat /\ runs' \in {runs, runs + 1}
         /\ changes' \in {changes, changes + 1} /\ (Other => changes' = changes + 1)
         /\ original' = original
<1>1. runs \in Nat /\ changes \in Nat
  BY BoundsAssumption DEF TypeOK
<1>2. Role => runs' \in {runs, runs + 1} /\ changes' = changes /\ original' = original
  BY DEF Role, Start, GetMachines, Annotate, Reduce, WaitMachines, DeleteHost, TaskError, history
<1>3. Cluster => runs' = runs /\ changes' \in {changes, changes + 1} /\ original' = original
  BY DEF Cluster, ScaleDown, ScaleUp, Provision, Vanish, Other, role, history
<1>4. UNCHANGED vars => UNCHANGED <<runs, changes, original>>
  BY DEF vars, role, history
<1>5. Other => changes' = changes + 1
  BY DEF Other
<1>. QED  BY <1>1, <1>2, <1>3, <1>4, <1>5 DEF Next

\* Every step keeps the account.
LEMMA SurplusStep ==
  TypeOK /\ TypeOK' /\ MachineInv /\ LoopInv /\ SurplusInv /\ [Next]_vars => SurplusInv'
<1>. SUFFICES ASSUME TypeOK, TypeOK', MachineInv, LoopInv, SurplusInv, [Next]_vars, runs' <= 1
              PROVE  \E F \in SUBSET Machines : Accounts(F)'
  BY DEF SurplusInv
<1>1. runs \in Nat /\ runs <= 1
  BY Counters
<1>2. PICK E \in SUBSET Machines : Accounts(E)
  BY <1>1 DEF SurplusInv
<1>a. ASSUME \A s \in Sets : Plain(s)' = Plain(s), UNCHANGED <<replicas, lost, changes>>, Owed' <= Owed
      PROVE  Accounts(E)'
  <2>1. \A s \in Sets : Cardinality(Plain(s)' \ E) <= replicas'[s]
    BY <1>2, <1>a DEF Accounts
  <2>2. lost \cup E \in SUBSET Machines
    BY DEF TypeOK
  <2>3. /\ Cardinality(lost \cup E) \in Nat /\ changes \in Nat /\ Owed \in Nat /\ Owed' \in Nat
        /\ Cardinality(lost \cup E) + Owed <= changes
    BY <1>2, <2>2, Subsets, Numbers, NumbersLater, BoundsAssumption DEF Accounts, Counted, TypeOK
  <2>4. Cardinality(lost' \cup E) + Owed' <= changes'
    BY <1>a, <2>3
  <2>. QED  BY <2>1, <2>4 DEF Accounts
<1>b. ASSUME UNCHANGED <<cluster, lost, changes>>, Owed' <= Owed PROVE Accounts(E)'
  <2>1. \A s \in Sets : Plain(s)' = Plain(s)
    BY <1>b DEF cluster, Plain, Live, Existing
  <2>. QED  BY <1>a, <1>b, <2>1 DEF cluster
<1>c. UNCHANGED cluster => Lacking' = Lacking /\ Plain(First)' = Plain(First)
  BY DEF cluster, Lacking, Plain, Live, Existing, Positive
<1>3. CASE UNCHANGED vars
  <2>1. Owed' = Owed
    BY <1>3, <1>c DEF Owed, vars, role, Loop, Positive
  <2>. QED  BY <1>3, <1>b, <2>1, Numbers DEF vars, history, Counted
<1>4. ASSUME NEW some \in SUBSET Hosts, Start(some) PROVE Accounts(E)'
  <2>1. runs = 0 /\ pc' = "list"
    BY <1>1, <1>4 DEF Start
  <2>2. Owed' = Owed
    BY <1>4, <1>c, <2>1 DEF Owed, Start
  <2>. QED  BY <1>4, <1>b, <2>2, Numbers DEF Start, Counted
<1>5. CASE GetMachines
  <2>1. Owed = Lacking /\ Lacking' = Lacking /\ Plain(First)' = Plain(First) /\ kept' = 0
    BY <1>5, <1>c DEF Owed, GetMachines
  <2>2. Plain(First)' \ Loop' = {}
    BY <1>5, <2>1, LoopListed, LiveSubset
  <2>3. Cardinality((Plain(First) \ Loop)') = 0
    BY <2>2, FS_EmptySet
  <2>4. Owed' = Lacking
    <3>1. Positive(Cardinality((Plain(First) \ Loop)') - kept') = 0
      BY <2>1, <2>3 DEF Positive
    <3>2. Owed' = Lacking' \/ Owed' = Lacking' + Positive(Cardinality((Plain(First) \ Loop)') - kept')
          \/ Owed' = 0
      BY DEF Owed, Positive
    <3>3. pc' = "annotate" /\ ~broken' /\ runs' # 0
      BY <1>5 DEF GetMachines, LoopInv
    <3>4. Owed' = Lacking' + Positive(Cardinality((Plain(First) \ Loop)') - kept')
      BY <3>3 DEF Owed, Positive
    <3>. QED  BY <2>1, <3>1, <3>4, Numbers DEF Counted
  <2>. QED  BY <1>5, <1>b, <2>1, <2>4, Numbers DEF GetMachines, history, Counted
<1>6. ASSUME NEW m \in Machines, NEW node \in Hosts \cup {None}, Annotate(m, node) PROVE Accounts(E)'
  BY <1>2, <1>6, SurplusAnnotate
<1>7. CASE Reduce
  BY <1>2, <1>7, SurplusReduce
<1>d. ASSUME UNCHANGED <<cluster, lost, changes, runs>>, pc \in {"wait", "delete"} \/ pc' = "idle",
             pc # "idle", pc' \notin {"list", "annotate"}
      PROVE  Accounts(E)'
  <2>1. Owed' = 0
    BY <1>d DEF Owed, LoopInv
  <2>. QED  BY <1>b, <1>d, <2>1, Numbers DEF Counted
<1>8. CASE WaitMachines
  BY <1>8, <1>d DEF WaitMachines, End, history
<1>9. ASSUME NEW h \in Hosts, DeleteHost(h) PROVE Accounts(E)'
  <2>1. /\ UNCHANGED <<machine, replicas, lost, changes, runs>> /\ pc = "delete"
        /\ pc' \in {"delete", "idle"}
    BY <1>9 DEF DeleteHost, End
  <2>2. Owed' = 0
    BY <2>1 DEF Owed, LoopInv
  <2>3. \A s \in Sets : Plain(s)' = Plain(s)
    BY <2>1 DEF Plain, Live, Existing
  <2>. QED  BY <1>a, <2>1, <2>2, <2>3, Numbers DEF Counted
<1>10. CASE TaskError
  BY <1>10, <1>d DEF TaskError, End, history
<1>11. ASSUME NEW s \in Sets, NEW m \in Machines, ScaleDown(s, m)
       PROVE  \E F \in SUBSET Machines : Accounts(F)'
  BY <1>1, <1>2, <1>11, SurplusScaleDown
<1>12. ASSUME NEW s \in Sets, NEW m \in Machines, ScaleUp(s, m) PROVE Accounts(E)'
  BY <1>2, <1>12, SurplusScaleUp
<1>e. ASSUME \A s \in Sets : Live(s)' = Live(s) /\ Plain(s)' = Plain(s),
             UNCHANGED <<replicas, role, lost, changes>>
      PROVE  Accounts(E)'
  <2>1. Lacking' = Lacking /\ Loop' = Loop
    BY <1>e, FirstAssumption DEF Lacking, Positive, role, Loop
  <2>2. Owed' = Owed
    BY <1>e, <2>1, FirstAssumption DEF Owed, Positive, role
  <2>. QED  BY <1>a, <1>e, <2>2, Numbers DEF Counted
<1>13. ASSUME NEW m \in Machines, NEW h \in Hosts, Provision(m, h) PROVE Accounts(E)'
  <2>1. \A s \in Sets : Live(s)' = Live(s) /\ Plain(s)' = Plain(s)
    BY <1>13, ProvisionFrame
  <2>. QED  BY <1>13, <1>e, <2>1 DEF Provision, history
<1>14. ASSUME NEW m \in Machines, Vanish(m) PROVE Accounts(E)'
  <2>1. \A s \in Sets : Live(s)' = Live(s) /\ Plain(s)' = Plain(s)
    BY <1>14, VanishFrame
  <2>. QED  BY <1>14, <1>e, <2>1 DEF Vanish, history
<1>15. CASE Other
  BY <1>2, <1>15, SurplusOther
<1>. QED  BY <1>3, <1>4, <1>5, <1>6, <1>7, <1>8, <1>9, <1>10, <1>11, <1>12, <1>13, <1>14, <1>15
       DEF Next, Role, Cluster

-----------------------------------------------------------------------------
(* The invariant: undisturbed runs.                                        *)

\* As long as nothing moves, what does not touch the cluster keeps it so.
LEMMA QuietFrame ==
  ASSUME Quiet, UNCHANGED <<machine, replicas, hosts, original>>
  PROVE  /\ \A s \in Sets : replicas'[s] = Cardinality(Live(s)')
         /\ \A m \in Machines : machine'[m] = None <=> original'[m] = None
         /\ \A m \in Machines : machine'[m] # Gone
         /\ \A m \in Existing' : ~machine'[m].deleting /\ machine'[m].host # None
         /\ hosts' = Hosts
<1>1. Existing' = Existing /\ \A s : Live(s)' = Live(s)
  BY DEF Existing, Live
<1>. QED  BY <1>1 DEF Quiet

\* Every step but the last of them keeps it quiet before the reduction.
LEMMA QuietStep ==
  TypeOK /\ MachineInv /\ LoopInv /\ QuietInv /\ [Next]_vars => QuietInv'
<1>. SUFFICES ASSUME TypeOK, MachineInv, LoopInv, QuietInv, [Next]_vars,
                     changes' = 0, runs' = 0 \/ (runs' = 1 /\ pc' \in {"list", "annotate"})
              PROVE  Quiet'
  BY DEF QuietInv
<1>1. /\ changes = 0 /\ runs \in {0, 1} /\ ~Other /\ original' = original /\ runs' \in {runs, runs + 1}
      /\ runs \in Nat
  BY Counters
<1>2. runs = 0 \/ pc \in {"list", "annotate"} => Quiet
  BY <1>1 DEF QuietInv
<1>3. runs = 0 => pc = "idle"
  BY DEF LoopInv
<1>4. CASE UNCHANGED vars
  <2>1. UNCHANGED <<machine, replicas, hosts, pc, nodes, todo, kept, broken, runs>>
    BY <1>4 DEF vars, cluster, role
  <2>2. Quiet
    BY <1>1, <1>2, <2>1
  <2>3. Stay' = Stay /\ Loop' = Loop /\ Existing' = Existing /\ SomeAsked' = SomeAsked
    BY <1>1, <2>1 DEF Stay, Loop, Existing, SomeAsked
  <2>. QED  BY <1>1, <2>1, <2>2, <2>3, QuietFrame DEF Quiet
<1>5. ASSUME NEW some \in SUBSET Hosts, Start(some) PROVE Quiet'
  <2>1. /\ UNCHANGED <<machine, replicas, hosts>> /\ runs' = runs + 1 /\ nodes' = some /\ pc' = "list"
        /\ some # {} /\ some \subseteq Used
    BY <1>5 DEF Start, cluster
  <2>2. Quiet
    BY <1>1, <1>2, <2>1
  <2>3. SomeAsked'
    <3>1. PICK h \in some : TRUE
      BY <2>1
    <3>2. PICK m \in Existing : machine[m].host = h
      BY <2>1, <3>1 DEF Used
    <3>3. m \in Machines /\ machine[m] # None
      BY DEF Existing
    <3>4. original[m] # None
      BY <2>2, <3>3 DEF Quiet
    <3>5. original[m].host = h
      BY <3>2, <3>3, <3>4 DEF MachineInv
    <3>. QED  BY <1>1, <2>1, <3>1, <3>3, <3>4, <3>5 DEF SomeAsked
  <2>. QED  BY <1>1, <2>1, <2>2, <2>3, QuietFrame DEF Quiet
<1>6. CASE GetMachines
  <2>1. /\ UNCHANGED <<machine, replicas, hosts, nodes, runs>> /\ pc = "list" /\ kept' = 0 /\ ~broken'
        /\ todo' = {<<m, machine[m].host>> : m \in Existing}
    BY <1>6 DEF GetMachines, cluster
  <2>2. Quiet
    BY <1>2, <2>1
  <2>3. Loop' = Existing /\ Existing' = Existing
    BY <1>6, <2>1, LoopListed DEF Existing
  <2>4. Stay' \ Loop' = {}
    <3>. SUFFICES ASSUME NEW m \in Stay' PROVE m \in Existing
      BY <2>3
    <3>. QED  BY <1>1, <2>1, <2>2 DEF Stay, Quiet, Existing
  <2>5. Cardinality((Stay \ Loop)') = kept'
    BY <2>1, <2>4, FS_EmptySet
  <2>6. SomeAsked' = SomeAsked
    BY <1>1, <2>1 DEF SomeAsked
  <2>7. todo' \subseteq {<<m, machine'[m].host>> : m \in Existing'}
    BY <2>1, <2>3
  <2>. QED  BY <1>1, <2>1, <2>2, <2>3, <2>5, <2>6, <2>7, QuietFrame DEF Quiet
<1>7. ASSUME NEW m \in Machines, NEW node \in Hosts \cup {None}, Annotate(m, node) PROVE Quiet'
  <2>1. /\ pc = "annotate" /\ <<m, node>> \in todo /\ todo' = todo \ {<<m, node>>}
        /\ UNCHANGED <<replicas, hosts, pc, nodes, runs>>
    BY <1>7 DEF Annotate
  <2>2. Quiet
    BY <1>2, <2>1
  <2>3. m \in Existing /\ node = machine[m].host /\ node # None
    BY <2>1, <2>2 DEF Quiet
  <2>4. /\ original[m] # None /\ original[m].host = node /\ machine[m] # None
    <3>1. machine[m] # None
      BY <2>3 DEF Existing
    <3>2. original[m] # None
      BY <2>2, <3>1 DEF Quiet
    <3>. QED  BY <2>3, <3>1, <3>2 DEF MachineInv
  <2>5. Loop' = Loop \ {m} /\ m \in Loop /\ Stay' = Stay /\ SomeAsked' = SomeAsked
    BY <1>1, <1>7, <2>1, LoopRound DEF Stay, SomeAsked
  <2>6. todo' \subseteq {<<n, machine[n].host>> : n \in Existing} /\ ~broken /\ Cardinality(Stay \ Loop) = kept
    BY <2>1, <2>2 DEF Quiet
  <2>7. CASE node \in nodes /\ machine' = Annotated(m) /\ UNCHANGED <<kept, broken>>
    <3>1. /\ \A n \in Machines \ {m} : machine'[n] = machine[n]
          /\ machine'[m].deleting = machine[m].deleting /\ machine'[m].annotated
          /\ machine'[m].host = machine[m].host
          /\ Existing' = Existing
          /\ \A s \in Sets : Live(s)' = Live(s)
      BY <2>3, <2>7, AnnotatedFrame
    <3>2. m \notin Stay
      BY <2>4, <2>7 DEF Stay
    <3>3. (Stay \ Loop)' = Stay \ Loop
      BY <2>5, <3>2
    <3>4. Cardinality((Stay \ Loop)') = kept'
      BY <2>6, <2>7, <3>3
    <3>5. \A n \in Existing : machine'[n].host = machine[n].host
      BY <3>1, LiveSubset
    <3>6. todo' \subseteq {<<n, machine'[n].host>> : n \in Existing'}
      BY <2>6, <3>1, <3>5
    <3>7. \A n \in Existing' \ Loop' : machine'[n].host \in nodes' => machine'[n].annotated
      <4>. SUFFICES ASSUME NEW n \in Existing' \ Loop', machine'[n].host \in nodes'
                    PROVE  machine'[n].annotated
        OBVIOUS
      <4>1. CASE n = m
        BY <3>1, <4>1
      <4>2. CASE n # m
        <5>1. n \in Existing \ Loop /\ n \in Machines \ {m}
          BY <2>5, <3>1, <4>2, LiveSubset
        <5>. QED  BY <2>1, <2>2, <3>1, <5>1 DEF Quiet
      <4>. QED  BY <4>1, <4>2
    <3>8. \A n \in Machines : machine'[n] = None <=> original'[n] = None
      <4>. SUFFICES ASSUME NEW n \in Machines PROVE machine'[n] = None <=> original'[n] = None
        OBVIOUS
      <4>1. CASE n = m
        BY <1>1, <2>3, <2>4, <3>1, <4>1 DEF Existing
      <4>2. CASE n # m
        BY <1>1, <2>2, <3>1, <4>2 DEF Quiet
      <4>. QED  BY <4>1, <4>2
    <3>9. \A n \in Machines : machine'[n] # Gone
      <4>. SUFFICES ASSUME NEW n \in Machines PROVE machine'[n] # Gone
        OBVIOUS
      <4>1. CASE n = m
        BY <2>3, <3>1, <4>1 DEF Existing
      <4>2. CASE n # m
        BY <2>2, <3>1, <4>2 DEF Quiet
      <4>. QED  BY <4>1, <4>2
    <3>10. \A n \in Existing' : ~machine'[n].deleting /\ machine'[n].host # None
      <4>. SUFFICES ASSUME NEW n \in Existing PROVE ~machine'[n].deleting /\ machine'[n].host # None
        BY <3>1
      <4>1. CASE n = m
        BY <2>2, <3>1, <4>1 DEF Quiet
      <4>2. CASE n # m
        BY <2>2, <3>1, <4>2, LiveSubset DEF Quiet
      <4>. QED  BY <4>1, <4>2
    <3>11. \A s \in Sets : replicas'[s] = Cardinality(Live(s)')
      BY <2>1, <2>2, <3>1 DEF Quiet
    <3>12. hosts' = Hosts /\ (runs' = 1 => SomeAsked') /\ ~broken'
      BY <2>1, <2>2, <2>5, <2>6, <2>7 DEF Quiet
    <3>. QED  BY <3>4, <3>6, <3>7, <3>8, <3>9, <3>10, <3>11, <3>12 DEF Quiet
  <2>8. CASE node \in Hosts \ nodes /\ kept' = kept + 1 /\ UNCHANGED <<machine, broken>>
    <3>1. m \in Stay
      BY <2>4, <2>8 DEF Stay
    <3>. DEFINE X == Stay \ Loop
    <3>2. (Stay \ Loop)' = X \cup {m} /\ m \notin X
      BY <2>5, <3>1
    <3>3. X \in SUBSET Machines
      BY DEF Stay
    <3>4. Cardinality((Stay \ Loop)') = kept'
      <4>. HIDE DEF X
      <4>1. Cardinality(X \cup {m}) = Cardinality(X) + 1
        BY <3>2, <3>3, OneMore
      <4>2. Cardinality(X) = kept
        BY <2>6 DEF X
      <4>. QED  BY <2>8, <3>2, <4>1, <4>2
    <3>5. Existing' = Existing
      BY <2>8 DEF Existing
    <3>6. \A n \in Existing' \ Loop' : machine'[n].host \in nodes' => machine'[n].annotated
      BY <2>1, <2>2, <2>3, <2>5, <2>8, <3>5 DEF Quiet
    <3>7. todo' \subseteq {<<n, machine'[n].host>> : n \in Existing'}
      BY <2>6, <2>8, <3>5
    <3>. QED  BY <1>1, <2>1, <2>2, <2>5, <2>6, <2>8, <3>4, <3>6, <3>7, QuietFrame DEF Quiet
  <2>. QED  BY <1>7, <2>3, <2>7, <2>8 DEF Annotate
<1>8. CASE Reduce \/ WaitMachines \/ (\E h \in Hosts : DeleteHost(h)) \/ TaskError
  BY <1>1, <1>3, <1>8 DEF Reduce, WaitMachines, DeleteHost, TaskError, End
<1>9. CASE Cluster
  <2>1. UNCHANGED <<pc, nodes, todo, kept, broken, runs>>
    BY <1>1, <1>9 DEF Cluster, ScaleDown, ScaleUp, Provision, Vanish, role
  <2>2. Quiet
    BY <1>1, <1>2, <2>1
  <2>3. \A s \in Sets : replicas[s] = Cardinality(Live(s)) /\ replicas[s] \in Nat
    BY <2>2 DEF Quiet, TypeOK
  <2>4. ~ \E s \in Sets, m \in Machines : ScaleDown(s, m) \/ ScaleUp(s, m)
    BY <2>3 DEF ScaleDown, ScaleUp
  <2>. QED  BY <1>1, <1>9, <2>2, <2>4 DEF Cluster, Quiet, Provision, Vanish
<1>. QED  BY <1>4, <1>5, <1>6, <1>7, <1>8, <1>9 DEF Next, Role

\* What does not touch the machines keeps the first set reduced.
LEMMA ReducedFrame ==
  ASSUME Reduced, UNCHANGED <<machine, replicas, kept, nodes, original>>
  PROVE  Reduced' /\ Stay' = Stay /\ Existing' = Existing
<1>1. /\ Existing' = Existing /\ Stay' = Stay /\ SomeAsked' = SomeAsked
      /\ \A s : Live(s)' = Live(s)
  BY DEF Existing, Live, Stay, SomeAsked
<1>2. /\ kept = Cardinality(Stay) /\ replicas[First] = kept
      /\ \A s \in Sets \ {First} : replicas[s] = Cardinality(Live(s))
      /\ \A m \in Stay : m \in Existing /\ ~machine[m].deleting
      /\ \A m \in Existing : original[m] # None /\ machine[m].host \in nodes => machine[m].annotated
      /\ SomeAsked
  BY DEF Reduced
<1>3. \/ /\ Cardinality(Live(First)) >= replicas[First]
         /\ \A m \in Existing : original[m] # None
      \/ /\ Cardinality(Live(First)) <= replicas[First]
         /\ \A m \in Machines : original[m] # None => m \in Existing /\ ~machine[m].deleting
  BY DEF Reduced
<1>. QED  BY <1>1, <1>2, <1>3 DEF Reduced

\* What the role does after the count, and with the count itself.
LEMMA ReducedByRole ==
  ASSUME TypeOK, MachineInv, LoopInv, QuietInv, ReducedInv, changes = 0, runs = 1, original' = original,
         Reduce \/ WaitMachines \/ \E h \in Hosts : DeleteHost(h),
         pc' \in {"wait", "delete"} \/ (pc' = "idle" /\ outcome' = "ok")
  PROVE  Reduced' /\ Decided'
<1>1. CASE Reduce
  <2>1. /\ pc = "annotate" /\ todo = {} /\ pc' = "wait" /\ replicas' = [replicas EXCEPT ![First] = kept]
        /\ UNCHANGED <<machine, hosts, nodes, kept>>
    BY <1>1 DEF Reduce
  <2>2. Quiet
    BY <2>1 DEF QuietInv
  <2>3. Loop = {} /\ Stay \ Loop = Stay
    BY <2>1 DEF Loop
  <2>4. /\ Existing' = Existing /\ Stay' = Stay /\ SomeAsked' = SomeAsked
        /\ \A s : Live(s)' = Live(s)
    BY <2>1 DEF Existing, Live, Stay, SomeAsked
  <2>5. kept = Cardinality(Stay)
    BY <2>1, <2>2, <2>3 DEF Quiet
  <2>6. replicas'[First] = kept /\ \A s \in Sets \ {First} : replicas'[s] = Cardinality(Live(s))
    BY <2>1, <2>2, FirstAssumption DEF Quiet, TypeOK
  <2>7. \A m \in Machines : original[m] # None => m \in Existing /\ ~machine[m].deleting
    BY <2>2 DEF Quiet, Existing
  <2>8. \A m \in Existing : original[m] # None
    BY <2>2 DEF Quiet, Existing
  <2>9. \A m \in Existing : machine[m].host \in nodes => machine[m].annotated
    BY <2>1, <2>2, <2>3 DEF Quiet
  <2>10. Cardinality(Live(First)) >= kept \/ Cardinality(Live(First)) <= kept
    BY Numbers DEF Counted
  <2>11. SomeAsked /\ hosts = Hosts
    BY <2>2 DEF Quiet
  <2>12. \A m \in Stay' : m \in Existing' /\ ~machine'[m].deleting
    BY <2>1, <2>4, <2>7 DEF Stay
  <2>13. \/ /\ Cardinality(Live(First)') >= replicas'[First]
            /\ \A m \in Existing' : original'[m] # None
         \/ /\ Cardinality(Live(First)') <= replicas'[First]
            /\ \A m \in Machines : original'[m] # None => m \in Existing' /\ ~machine'[m].deleting
    BY <2>1, <2>4, <2>6, <2>7, <2>8, <2>10
  <2>14. Reduced'
    BY <2>1, <2>4, <2>5, <2>6, <2>9, <2>11, <2>12, <2>13 DEF Reduced
  <2>15. Decided'
    BY <2>1, <2>11 DEF Decided
  <2>. QED  BY <2>14, <2>15
<1>2. CASE WaitMachines
  <2>1. /\ pc = "wait" /\ UNCHANGED <<machine, replicas, hosts, nodes, kept>>
        /\ \/ pc' = "wait"
           \/ pc' = "delete" /\ Decommissioned /\ todo' = nodes
    BY <1>2 DEF WaitMachines, End, cluster
  <2>2. Reduced /\ hosts = Hosts
    BY <2>1 DEF ReducedInv, Decided
  <2>3. Reduced' /\ Stay' = Stay /\ Existing' = Existing
    BY <2>1, <2>2, ReducedFrame
  <2>4. Decommissioned => Existing = Stay
    <3>1. Stay \in SUBSET Existing /\ kept = Cardinality(Stay)
      BY <2>2 DEF Reduced
    <3>. QED  BY <3>1, Subsets, LiveSubset DEF Decommissioned
  <2>5. nodes \subseteq Hosts
    BY DEF TypeOK
  <2>6. Decided'
    BY <2>1, <2>2, <2>3, <2>4, <2>5 DEF Decided
  <2>. QED  BY <2>3, <2>6
<1>3. ASSUME NEW h \in Hosts, DeleteHost(h) PROVE Reduced' /\ Decided'
  <2>1. /\ pc = "delete" /\ h \in todo /\ todo' = todo \ {h} /\ hosts' = hosts \ {h}
        /\ UNCHANGED <<machine, replicas, nodes, kept>>
        /\ pc' \in {"delete", "idle"} /\ (pc' = "idle" <=> todo' = {})
    BY <1>3 DEF DeleteHost, End
  <2>2. Reduced /\ Existing = Stay /\ hosts = (Hosts \ nodes) \cup todo /\ todo \subseteq nodes
    BY <2>1 DEF ReducedInv, Decided, LoopInv
  <2>3. Reduced' /\ Stay' = Stay /\ Existing' = Existing
    BY <2>1, <2>2, ReducedFrame
  <2>4. hosts' = (Hosts \ nodes') \cup todo'
    BY <2>1, <2>2
  <2>5. Decided'
    BY <2>1, <2>2, <2>3, <2>4 DEF Decided
  <2>. QED  BY <2>3, <2>5
<1>. QED  BY <1>1, <1>2, <1>3

\* What the cluster does to the machines of a first set that was reduced.
LEMMA ReducedByCluster ==
  ASSUME TypeOK, MachineInv, LoopInv, Reduced, Decided, changes = 0, runs = 1, original' = original,
         Cluster, ~Other
  PROVE  Reduced' /\ Decided'
<1>1. /\ kept = Cardinality(Stay) /\ replicas[First] = kept
      /\ \A s \in Sets \ {First} : replicas[s] = Cardinality(Live(s))
      /\ \A m \in Stay : m \in Existing /\ ~machine[m].deleting
      /\ \A m \in Existing : original[m] # None /\ machine[m].host \in nodes => machine[m].annotated
      /\ SomeAsked
  BY DEF Reduced
<1>2. \/ /\ Cardinality(Live(First)) >= replicas[First]
         /\ \A m \in Existing : original[m] # None
      \/ /\ Cardinality(Live(First)) <= replicas[First]
         /\ \A m \in Machines : original[m] # None => m \in Existing /\ ~machine[m].deleting
  BY DEF Reduced
<1>3. asked = nodes /\ \A m \in Existing : machine[m].annotated => machine[m].host \in nodes
  BY DEF MachineInv
<1>4. /\ UNCHANGED <<replicas, hosts, pc, nodes, todo, kept, outcome>>
      /\ Stay' = Stay /\ SomeAsked' = SomeAsked
  BY DEF Cluster, ScaleDown, ScaleUp, Provision, Vanish, role, Stay, SomeAsked
<1>5. \A s \in Sets : replicas[s] \in Nat /\ Cardinality(Live(s)) \in Nat
  BY Numbers DEF Counted
<1>6. ASSUME NEW s \in Sets, NEW m \in Machines, ScaleDown(s, m) PROVE Reduced' /\ Decided'
  <2>1. /\ m \in Live(s) /\ m \in Existing /\ Delete(m) /\ Cardinality(Live(s)) > replicas[s]
        /\ machine[m].annotated \/ \A n \in Live(s) : ~machine[n].annotated
    BY <1>6, LiveSubset DEF ScaleDown
  <2>2. /\ \A n \in Machines \ {m} : machine'[n] = machine[n]
        /\ machine'[m].annotated = machine[m].annotated
        /\ machine'[m].host = machine[m].host
        /\ Existing' = Existing
        /\ \A r \in Sets : Live(r)' = Live(r) \ {m}
    BY <2>1, DeleteFrame
  <2>3. s = First
    BY <1>1, <1>5, <2>1
  <2>4. /\ Cardinality(Live(First)) >= replicas[First]
        /\ \A n \in Existing : original[n] # None
    BY <1>2, <1>5, <2>1, <2>3
  <2>5. m \notin Stay
    <3>. SUFFICES ASSUME m \in Stay PROVE FALSE
      OBVIOUS
    <3>1. machine[m].host = original[m].host /\ original[m].host \notin nodes
      BY <2>1 DEF Stay, MachineInv
    <3>2. \A n \in Live(First) : ~machine[n].annotated
      BY <1>3, <2>1, <2>3, <3>1
    <3>3. ASSUME NEW n \in Live(First) PROVE n \in Stay
      <4>1. n \in Existing /\ n \in Machines /\ original[n] # None
        BY <2>4, LiveSubset
      <4>2. machine[n].host \notin nodes
        BY <1>1, <3>2, <4>1
      <4>3. machine[n].host = original[n].host
        BY <4>1 DEF MachineInv
      <4>. QED  BY <4>1, <4>2, <4>3 DEF Stay
    <3>4. Live(First) \in SUBSET Stay /\ Stay \in SUBSET Machines
      BY <3>3 DEF Stay
    <3>5. /\ Cardinality(Live(First)) <= Cardinality(Stay) /\ Cardinality(Stay) \in Nat
          /\ Cardinality(Live(First)) \in Nat
      BY <3>4, Subsets
    <3>. QED  BY <1>1, <2>1, <2>3, <3>5
  <2>6. Cardinality(Live(First)') >= replicas'[First]
    <3>1. Live(First) \in SUBSET Machines
      BY LiveSubset
    <3>2. Cardinality(Live(First) \ {m}) = Cardinality(Live(First)) - 1
      BY <2>1, <2>3, <3>1, OneMore
    <3>3. Cardinality(Live(First)) \in Nat /\ replicas[First] \in Nat
      BY <1>5, FirstAssumption
    <3>4. Cardinality(Live(First)') = Cardinality(Live(First)) - 1
      BY <2>2, <3>2, FirstAssumption
    <3>. QED  BY <1>4, <2>1, <2>3, <3>3, <3>4
  <2>7. \A r \in Sets \ {First} : replicas'[r] = Cardinality(Live(r)')
    <3>. SUFFICES ASSUME NEW r \in Sets \ {First} PROVE replicas[r] = Cardinality(Live(r)')
      BY <1>4
    <3>1. m \notin Live(r)
      BY <2>1, <2>3 DEF Live
    <3>2. Live(r)' = Live(r)
      BY <2>2, <3>1
    <3>. QED  BY <1>1, <3>2
  <2>8. \A n \in Stay' : n \in Existing' /\ ~machine'[n].deleting
    <3>. SUFFICES ASSUME NEW n \in Stay PROVE n \in Existing /\ ~machine'[n].deleting
      BY <1>4, <2>2
    <3>. QED  BY <1>1, <2>2, <2>5 DEF Stay
  <2>9. \A n \in Existing' : original'[n] # None /\ machine'[n].host \in nodes' => machine'[n].annotated
    <3>. SUFFICES ASSUME NEW n \in Existing, original[n] # None, machine'[n].host \in nodes
                  PROVE  machine'[n].annotated
      BY <1>4, <2>2
    <3>1. CASE n = m
      BY <1>1, <2>2, <3>1
    <3>2. CASE n # m
      BY <1>1, <2>2, <3>2, LiveSubset
    <3>. QED  BY <3>1, <3>2
  <2>10. Reduced'
    BY <1>1, <1>4, <2>2, <2>4, <2>6, <2>7, <2>8, <2>9 DEF Reduced
  <2>11. Decided'
    BY <1>4, <2>2 DEF Decided
  <2>. QED  BY <2>10, <2>11
<1>7. ASSUME NEW s \in Sets, NEW m \in Machines, ScaleUp(s, m) PROVE Reduced' /\ Decided'
  <2>1. /\ \A n \in Machines \ {m} : machine'[n] = machine[n]
        /\ m \notin Existing /\ Existing' = Existing \cup {m}
        /\ Live(s)' = Live(s) \cup {m}
        /\ \A r \in Sets \ {s} : Live(r)' = Live(r)
    BY <1>7, ScaleUpFrame
  <2>2. Cardinality(Live(s)) < replicas[s] /\ machine[m] = None
    BY <1>7 DEF ScaleUp
  <2>3. s = First /\ original[m] = None
    BY <1>1, <1>5, <2>2 DEF MachineInv
  <2>4. \A n \in Machines : original[n] # None => n \in Existing /\ ~machine[n].deleting
    BY <1>2, <1>5, <2>2, <2>3
  <2>5. pc = "wait"
    <3>1. PICK n \in Machines : original[n] # None /\ original[n].host \in nodes
      BY <1>1 DEF SomeAsked
    <3>2. n \in Existing /\ n \notin Stay
      BY <2>4, <3>1 DEF Stay
    <3>. QED  BY <3>2 DEF Decided
  <2>6. Cardinality(Live(First)') <= replicas'[First]
    <3>1. Live(First) \in SUBSET Machines /\ m \notin Live(First)
      BY <2>1, LiveSubset
    <3>2. Cardinality(Live(First) \cup {m}) = Cardinality(Live(First)) + 1
      BY <3>1, OneMore
    <3>3. Cardinality(Live(First)) \in Nat /\ replicas[First] \in Nat
      BY <1>5, FirstAssumption
    <3>4. Cardinality(Live(First)') = Cardinality(Live(First)) + 1
      BY <2>1, <2>3, <3>2
    <3>. QED  BY <1>4, <2>2, <2>3, <3>3, <3>4
  <2>7. \A r \in Sets \ {First} : replicas'[r] = Cardinality(Live(r)')
    BY <1>1, <1>4, <2>1, <2>3
  <2>8. \A n \in Stay' : n \in Existing' /\ ~machine'[n].deleting
    <3>. SUFFICES ASSUME NEW n \in Stay PROVE n \in Existing' /\ ~machine'[n].deleting
      BY <1>4
    <3>1. n \in Machines \ {m}
      BY <2>3 DEF Stay
    <3>. QED  BY <1>1, <2>1, <3>1
  <2>9. \A n \in Existing' : original'[n] # None /\ machine'[n].host \in nodes' => machine'[n].annotated
    <3>. SUFFICES ASSUME NEW n \in Existing', original[n] # None, machine'[n].host \in nodes
                  PROVE  machine'[n].annotated
      BY <1>4
    <3>1. n \in Existing /\ n \in Machines \ {m}
      BY <2>1, <2>3, LiveSubset
    <3>. QED  BY <1>1, <2>1, <3>1
  <2>10. \A n \in Machines : original'[n] # None => n \in Existing' /\ ~machine'[n].deleting
    <3>. SUFFICES ASSUME NEW n \in Machines, original[n] # None
                  PROVE  n \in Existing' /\ ~machine'[n].deleting
      OBVIOUS
    <3>1. n \in Machines \ {m}
      BY <2>3
    <3>. QED  BY <2>1, <2>4, <3>1
  <2>11. Reduced'
    BY <1>1, <1>4, <2>6, <2>7, <2>8, <2>9, <2>10 DEF Reduced
  <2>12. Decided'
    BY <1>4, <2>5 DEF Decided
  <2>. QED  BY <2>11, <2>12
<1>8. ASSUME NEW m \in Machines, NEW h \in Hosts, Provision(m, h) PROVE Reduced' /\ Decided'
  <2>1. /\ \A n \in Machines \ {m} : machine'[n] = machine[n]
        /\ machine'[m].deleting = machine[m].deleting /\ machine[m].host = None
        /\ m \in Existing /\ Existing' = Existing
        /\ \A s \in Sets : Live(s)' = Live(s)
    BY <1>8, ProvisionFrame
  <2>2. original[m] = None
    BY <2>1 DEF MachineInv
  <2>3. \A n \in Stay' : n \in Existing' /\ ~machine'[n].deleting
    <3>. SUFFICES ASSUME NEW n \in Stay PROVE n \in Existing' /\ ~machine'[n].deleting
      BY <1>4
    <3>1. n \in Machines \ {m}
      BY <2>2 DEF Stay
    <3>. QED  BY <1>1, <2>1, <3>1
  <2>4. \A n \in Existing' : original'[n] # None /\ machine'[n].host \in nodes' => machine'[n].annotated
    <3>. SUFFICES ASSUME NEW n \in Existing, original[n] # None, machine'[n].host \in nodes
                  PROVE  machine'[n].annotated
      BY <1>4, <2>1
    <3>1. n \in Machines \ {m}
      BY <2>2, LiveSubset
    <3>. QED  BY <1>1, <2>1, <3>1
  <2>5. ASSUME NEW n \in Machines, original[n] # None, ~machine[n].deleting PROVE ~machine'[n].deleting
    BY <2>1, <2>2, <2>5
  <2>6. \/ /\ Cardinality(Live(First)') >= replicas'[First]
           /\ \A n \in Existing' : original'[n] # None
        \/ /\ Cardinality(Live(First)') <= replicas'[First]
           /\ \A n \in Machines : original'[n] # None => n \in Existing' /\ ~machine'[n].deleting
    BY <1>2, <1>4, <2>1, <2>5, FirstAssumption
  <2>7. \A r \in Sets \ {First} : replicas'[r] = Cardinality(Live(r)')
    BY <1>1, <1>4, <2>1
  <2>8. Reduced'
    BY <1>1, <1>4, <2>3, <2>4, <2>6, <2>7 DEF Reduced
  <2>9. Decided'
    BY <1>4, <2>1 DEF Decided
  <2>. QED  BY <2>8, <2>9
<1>9. ASSUME NEW m \in Machines, Vanish(m) PROVE Reduced' /\ Decided'
  <2>1. /\ \A n \in Machines \ {m} : machine'[n] = machine[n]
        /\ m \in Existing /\ machine[m].deleting /\ Existing' = Existing \ {m}
        /\ \A s \in Sets : Live(s)' = Live(s)
    BY <1>9, VanishFrame
  <2>2. m \notin Stay /\ pc = "wait"
    BY <1>1, <2>1 DEF Decided
  <2>3. \A n \in Stay' : n \in Existing' /\ ~machine'[n].deleting
    <3>. SUFFICES ASSUME NEW n \in Stay PROVE n \in Existing' /\ ~machine'[n].deleting
      BY <1>4
    <3>1. n \in Machines \ {m}
      BY <2>2 DEF Stay
    <3>. QED  BY <1>1, <2>1, <3>1
  <2>4. \A n \in Existing' : original'[n] # None /\ machine'[n].host \in nodes' => machine'[n].annotated
    <3>. SUFFICES ASSUME NEW n \in Existing', original[n] # None, machine'[n].host \in nodes
                  PROVE  machine'[n].annotated
      BY <1>4
    <3>1. n \in Existing /\ n \in Machines \ {m}
      BY <2>1, LiveSubset
    <3>. QED  BY <1>1, <2>1, <3>1
  <2>5. ASSUME NEW n \in Machines, original[n] # None,
               original[n] # None => n \in Existing /\ ~machine[n].deleting
        PROVE  n \in Existing' /\ ~machine'[n].deleting
    BY <2>1, <2>5
  <2>6. \/ /\ Cardinality(Live(First)') >= replicas'[First]
           /\ \A n \in Existing' : original'[n] # None
        \/ /\ Cardinality(Live(First)') <= replicas'[First]
           /\ \A n \in Machines : original'[n] # None => n \in Existing' /\ ~machine'[n].deleting
    BY <1>2, <1>4, <2>1, <2>5, FirstAssumption
  <2>7. \A r \in Sets \ {First} : replicas'[r] = Cardinality(Live(r)')
    BY <1>1, <1>4, <2>1
  <2>8. Reduced'
    BY <1>1, <1>4, <2>3, <2>4, <2>6, <2>7 DEF Reduced
  <2>9. Decided'
    BY <1>4, <2>2 DEF Decided
  <2>. QED  BY <2>8, <2>9
<1>. QED  BY <1>6, <1>7, <1>8, <1>9 DEF Cluster

\* Every step of an undisturbed first run keeps what holds after the reduction.
LEMMA ReducedStep ==
  TypeOK /\ MachineInv /\ LoopInv /\ QuietInv /\ ReducedInv /\ [Next]_vars => ReducedInv'
<1>. SUFFICES ASSUME TypeOK, MachineInv, LoopInv, QuietInv, ReducedInv, [Next]_vars, changes' = 0, runs' = 1,
                     pc' \in {"wait", "delete"} \/ (pc' = "idle" /\ outcome' = "ok")
              PROVE  Reduced' /\ Decided'
  BY DEF ReducedInv
<1>1. changes = 0 /\ ~Other /\ original' = original
  BY Counters
<1>2. CASE UNCHANGED vars
  <2>1. UNCHANGED <<machine, replicas, hosts, pc, nodes, todo, kept, outcome, runs>>
    BY <1>2 DEF vars, cluster, role
  <2>2. Reduced /\ Decided
    BY <1>1, <2>1 DEF ReducedInv
  <2>3. Reduced' /\ Stay' = Stay /\ Existing' = Existing
    BY <1>1, <2>1, <2>2, ReducedFrame
  <2>. QED  BY <2>1, <2>2, <2>3 DEF Decided
<1>3. CASE Reduce \/ WaitMachines \/ \E h \in Hosts : DeleteHost(h)
  <2>1. runs = 1
    BY <1>3 DEF Reduce, WaitMachines, DeleteHost
  <2>. QED  BY <1>1, <1>3, <2>1, ReducedByRole
<1>4. CASE Cluster
  <2>1. UNCHANGED <<pc, outcome, runs>>
    BY <1>1, <1>4 DEF Cluster, ScaleDown, ScaleUp, Provision, Vanish, role
  <2>2. Reduced /\ Decided
    BY <1>1, <2>1 DEF ReducedInv
  <2>. QED  BY <1>1, <1>4, <2>1, <2>2, ReducedByCluster
<1>5. CASE (\E some \in SUBSET Hosts : Start(some)) \/ GetMachines \/ TaskError
           \/ \E m \in Machines, node \in Hosts \cup {None} : Annotate(m, node)
  BY <1>5 DEF Start, GetMachines, TaskError, Annotate, End
<1>. QED  BY <1>2, <1>3, <1>4, <1>5 DEF Next, Role

\* What does not touch the machines, or the count, leaves no machine out.
LEMMA CoveredFrame ==
  ASSUME Covered, UNCHANGED <<machine, replicas, lost>>,
         runs' < 2 \/ pc' \in {"list", "annotate"} => runs < 2 \/ pc \in {"list", "annotate"},
         pc' = "annotate" => UNCHANGED <<pc, todo, kept, broken>>
  PROVE  Covered'
<1>1. Existing' = Existing /\ \A s : Live(s)' = Live(s) /\ Plain(s)' = Plain(s)
  BY DEF Existing, Live, Plain
<1>2. UNCHANGED todo => Loop' = Loop
  BY DEF Loop
<1>. QED  BY <1>1, <1>2 DEF Covered

\* What the role does leaves no machine out.
LEMMA CoveredByRole ==
  ASSUME TypeOK, TypeOK', LoopInv, QuietInv, Covered, SingleSet, changes = 0, runs' <= 2,
         original' = original, Role
  PROVE  Covered'
<1>1. runs \in Nat /\ Cardinality(Live(First)) \in Nat /\ replicas[First] \in Nat /\ kept \in Nat
  BY Numbers, BoundsAssumption DEF Counted, TypeOK
<1>2. ASSUME NEW some \in SUBSET Hosts, Start(some) PROVE Covered'
  <2>1. UNCHANGED <<machine, replicas, lost>> /\ runs < 2 /\ pc' = "list"
    BY <1>1, <1>2 DEF Start, cluster
  <2>. QED  BY <2>1, CoveredFrame
<1>3. CASE GetMachines
  <2>1. /\ UNCHANGED <<machine, replicas, lost, runs>> /\ pc = "list" /\ kept' = 0 /\ pc' = "annotate"
    BY <1>3 DEF GetMachines, cluster, history
  <2>2. Existing' = Existing /\ \A s : Live(s)' = Live(s) /\ Plain(s)' = Plain(s)
    BY <2>1 DEF Existing, Live, Plain
  <2>3. Plain(First)' \ Loop' = {}
    BY <1>3, <2>2, LoopListed, LiveSubset
  <2>4. Cardinality((Plain(First) \ Loop)') = 0
    BY <2>3, FS_EmptySet
  <2>5. Cardinality((Plain(First) \ Loop)') <= kept'
    BY <2>1, <2>4
  <2>. QED  BY <2>1, <2>2, <2>5 DEF Covered
<1>4. ASSUME NEW m \in Machines, NEW node \in Hosts \cup {None}, Annotate(m, node) PROVE Covered'
  <2>1. /\ pc = "annotate" /\ m \in Loop /\ Loop' = Loop \ {m}
        /\ UNCHANGED <<replicas, pc, runs, lost>>
    BY <1>4, LoopRound DEF Annotate, history
  <2>2. \/ m \in Existing /\ machine' = Annotated(m) /\ UNCHANGED <<kept, broken>>
        \/ UNCHANGED machine /\ broken'
        \/ UNCHANGED <<machine, broken>> /\ kept' = kept + 1
    BY <1>4 DEF Annotate
  <2>3. UNCHANGED machine => Existing' = Existing /\ \A s : Live(s)' = Live(s) /\ Plain(s)' = Plain(s)
    BY DEF Existing, Live, Plain
  <2>4. m \in Existing /\ machine' = Annotated(m) =>
          /\ Existing' = Existing /\ \A n \in Existing : machine'[n].set = machine[n].set
          /\ Live(First)' = Live(First) /\ Plain(First)' = Plain(First) \ {m}
    <3>. SUFFICES ASSUME m \in Existing, machine' = Annotated(m)
                  PROVE  /\ Existing' = Existing /\ \A n \in Existing : machine'[n].set = machine[n].set
                         /\ Live(First)' = Live(First) /\ Plain(First)' = Plain(First) \ {m}
      OBVIOUS
    <3>1. /\ \A n \in Machines \ {m} : machine'[n] = machine[n]
          /\ machine'[m].set = machine[m].set /\ Existing' = Existing
          /\ Live(First)' = Live(First) /\ Plain(First)' = Plain(First) \ {m}
      BY AnnotatedFrame, FirstAssumption
    <3>. QED  BY <3>1, LiveSubset
  <2>5. /\ \A n \in Existing' : machine'[n].set = First
        /\ Live(First)' = Live(First) /\ Plain(First)' \subseteq Plain(First)
    BY <2>2, <2>3, <2>4 DEF Covered
  <2>6. Cardinality(Plain(First)') <= replicas'[First]
    <3>1. Plain(First)' \in SUBSET Plain(First) /\ Plain(First) \in SUBSET Machines
      BY <2>5, LiveSubset
    <3>2. /\ Cardinality(Plain(First)') <= Cardinality(Plain(First))
          /\ Cardinality(Plain(First)') \in Nat /\ Cardinality(Plain(First)) \in Nat
      BY <3>1, Subsets
    <3>3. Cardinality(Plain(First)) <= replicas[First]
      BY DEF Covered
    <3>. QED  BY <1>1, <2>1, <3>2, <3>3
  <2>7. ~broken' => Cardinality((Plain(First) \ Loop)') <= kept'
    <3>. SUFFICES ASSUME ~broken' PROVE Cardinality((Plain(First) \ Loop)') <= kept'
      OBVIOUS
    <3>1. Cardinality(Plain(First) \ Loop) <= kept
      BY <2>1, <2>2 DEF Covered
    <3>2. CASE Plain(First)' = Plain(First) \ {m} /\ kept' = kept
      <4>1. (Plain(First) \ Loop)' = Plain(First) \ Loop
        BY <2>1, <3>2
      <4>2. Cardinality((Plain(First) \ Loop)') = Cardinality(Plain(First) \ Loop)
        BY <4>1
      <4>. QED  BY <3>1, <3>2, <4>2
    <3>3. CASE Plain(First)' = Plain(First) /\ kept' = kept + 1
      <4>. DEFINE X == Plain(First) \ Loop
      <4>1. (Plain(First) \ Loop)' \in SUBSET (X \cup {m}) /\ X \in SUBSET Machines
        BY <2>1, <3>3, LiveSubset
      <4>2. X \cup {m} \in SUBSET Machines /\ Cardinality(X) <= kept
        BY <3>1, <4>1
      <4>. HIDE DEF X
      <4>3. Cardinality(X \cup {m}) = IF m \in X THEN Cardinality(X) ELSE Cardinality(X) + 1
        BY <4>1, OneMore
      <4>4. /\ Cardinality((Plain(First) \ Loop)') <= Cardinality(X \cup {m})
            /\ Cardinality((Plain(First) \ Loop)') \in Nat /\ Cardinality(X) \in Nat
        BY <4>1, <4>2, Subsets
      <4>. QED  BY <1>1, <3>3, <4>2, <4>3, <4>4
    <3>. QED  BY <2>2, <2>3, <2>4, <3>2, <3>3
  <2>. QED  BY <2>1, <2>5, <2>6, <2>7 DEF Covered
<1>5. CASE Reduce
  <2>1. /\ pc = "annotate" /\ todo = {} /\ ~broken /\ pc' = "wait"
        /\ replicas' = [replicas EXCEPT ![First] = kept] /\ UNCHANGED <<machine, runs, lost>>
    BY <1>5 DEF Reduce, history
  <2>2. Existing' = Existing /\ \A s : Live(s)' = Live(s) /\ Plain(s)' = Plain(s)
    BY <2>1 DEF Existing, Live, Plain
  <2>3. Loop = {}
    BY <2>1 DEF Loop
  <2>4. replicas'[First] = kept /\ \A s \in Sets \ {First} : replicas'[s] = replicas[s]
    BY <2>1, FirstAssumption DEF TypeOK
  <2>5. Cardinality(Plain(First)') <= replicas'[First]
    <3>1. Plain(First) \ Loop = Plain(First)
      BY <2>3
    <3>. QED  BY <2>1, <2>2, <2>4, <3>1 DEF Covered
  <2>6. runs < 2 => Cardinality(Live(First)') >= replicas'[First]
    <3>. SUFFICES ASSUME runs < 2 PROVE Cardinality(Live(First)) >= kept
      BY <2>2, <2>4
    <3>1. runs = 1
      BY <1>1, <2>1 DEF LoopInv
    <3>2. Quiet
      BY <2>1, <3>1 DEF QuietInv
    <3>3. Stay \ Loop = Stay
      BY <2>3
    <3>4. Stay \in SUBSET Live(First)
      <4>. SUFFICES ASSUME NEW m \in Stay PROVE m \in Live(First)
        OBVIOUS
      <4>1. m \in Existing /\ ~machine[m].deleting
        BY <3>2 DEF Quiet, Stay, Existing
      <4>. QED  BY <4>1 DEF Covered, Live
    <3>5. Cardinality(Stay) = kept
      BY <2>1, <3>2, <3>3 DEF Quiet
    <3>6. Cardinality(Stay) <= Cardinality(Live(First))
      BY <3>4, Subsets, LiveSubset
    <3>. QED  BY <1>1, <3>5, <3>6
  <2>. QED  BY <2>1, <2>2, <2>4, <2>5, <2>6 DEF Covered
<1>6. CASE WaitMachines
  <2>1. UNCHANGED <<machine, replicas, lost, runs>> /\ pc' \in {"wait", "delete", "idle"}
    BY <1>6 DEF WaitMachines, End, cluster, history
  <2>. QED  BY <2>1, CoveredFrame
<1>7. ASSUME NEW h \in Hosts, DeleteHost(h) PROVE Covered'
  <2>1. UNCHANGED <<machine, replicas, lost, runs>> /\ pc' \in {"delete", "idle"}
    BY <1>7 DEF DeleteHost, End
  <2>. QED  BY <2>1, CoveredFrame
<1>8. CASE TaskError
  <2>1. UNCHANGED <<machine, replicas, lost, runs>> /\ pc' = "idle"
    BY <1>8 DEF TaskError, End, cluster, history
  <2>. QED  BY <2>1, CoveredFrame
<1>. QED  BY <1>2, <1>3, <1>4, <1>5, <1>6, <1>7, <1>8 DEF Role

\* What an undisturbed cluster does leaves no machine out.
LEMMA CoveredByCluster ==
  ASSUME TypeOK, TypeOK', MachineInv, LoopInv, Covered, SingleSet, Cluster, ~Other
  PROVE  Covered'
<1>1. /\ Cardinality(Live(First)) \in Nat /\ replicas[First] \in Nat
      /\ Cardinality(Plain(First)) \in Nat
      /\ \A s \in Sets : replicas[s] \in Nat /\ Cardinality(Live(s)) \in Nat
  BY Numbers, FirstAssumption DEF Counted
<1>2. /\ lost = {}
      /\ \A s \in Sets \ {First} : replicas[s] = 0
      /\ \A m \in Existing : machine[m].set = First
      /\ Cardinality(Plain(First)) <= replicas[First]
      /\ runs < 2 \/ pc \in {"list", "annotate"} => Cardinality(Live(First)) >= replicas[First]
      /\ pc = "annotate" /\ ~broken => Cardinality(Plain(First) \ Loop) <= kept
  BY DEF Covered
<1>3. UNCHANGED <<replicas, pc, runs, broken, kept>> /\ Loop' = Loop
  BY DEF Cluster, ScaleDown, ScaleUp, Provision, Vanish, role, Loop
<1>4. ASSUME NEW s \in Sets, NEW m \in Machines, ScaleDown(s, m) PROVE Covered'
  <2>1. /\ m \in Live(s) /\ m \in Existing /\ Delete(m) /\ Cardinality(Live(s)) > replicas[s]
        /\ machine[m].annotated \/ \A n \in Live(s) : ~machine[n].annotated
    BY <1>4, LiveSubset DEF ScaleDown
  <2>2. s = First
    BY <1>2, <2>1 DEF Live
  <2>3. machine[m].annotated
    <3>1. Plain(First) # Live(First)
      BY <1>1, <1>2, <2>1, <2>2
    <3>. QED  BY <2>1, <2>2, <3>1 DEF Plain
  <2>4. lost' = {}
    BY <1>2, <1>4, <2>1, <2>3 DEF ScaleDown, MachineInv
  <2>5. /\ \A n \in Machines \ {m} : machine'[n] = machine[n]
        /\ machine'[m].set = machine[m].set /\ Existing' = Existing
        /\ Live(First)' = Live(First) \ {m} /\ Plain(First)' = Plain(First) \ {m}
    BY <2>1, DeleteFrame, FirstAssumption
  <2>6. Plain(First)' = Plain(First)
    BY <2>3, <2>5 DEF Plain
  <2>7. Cardinality(Live(First)') >= replicas'[First]
    <3>1. Live(First) \in SUBSET Machines
      BY LiveSubset
    <3>2. Cardinality(Live(First) \ {m}) = Cardinality(Live(First)) - 1
      BY <2>1, <2>2, <3>1, OneMore
    <3>3. Cardinality(Live(First)') = Cardinality(Live(First)) - 1
      BY <2>5, <3>2
    <3>. QED  BY <1>1, <1>3, <2>1, <2>2, <3>3
  <2>8. \A n \in Existing' : machine'[n].set = First
    BY <1>2, <2>5, LiveSubset
  <2>. QED  BY <1>2, <1>3, <2>4, <2>6, <2>7, <2>8 DEF Covered
<1>5. ASSUME NEW s \in Sets, NEW m \in Machines, ScaleUp(s, m) PROVE Covered'
  <2>1. Cardinality(Live(s)) < replicas[s] /\ lost' = lost
    BY <1>5 DEF ScaleUp, history
  <2>2. s = First
    BY <1>1, <1>2, <2>1
  <2>3. ~(runs < 2 \/ pc \in {"list", "annotate"})
    BY <1>1, <1>2, <2>1, <2>2
  <2>4. /\ \A n \in Machines \ {m} : machine'[n] = machine[n]
        /\ machine'[m].set = s /\ m \notin Existing /\ Existing' = Existing \cup {m}
        /\ Plain(s)' = Plain(s) \cup {m}
    BY <1>5, ScaleUpFrame
  <2>5. Cardinality(Plain(First)') <= replicas'[First]
    <3>1. Plain(First) \in SUBSET Machines /\ m \notin Plain(First)
      BY <2>4, LiveSubset
    <3>2. Cardinality(Plain(First) \cup {m}) = Cardinality(Plain(First)) + 1
      BY <3>1, OneMore
    <3>3. Cardinality(Plain(First)) <= Cardinality(Live(First))
      BY Numbers, FirstAssumption DEF Counted
    <3>4. Cardinality(Plain(First)') = Cardinality(Plain(First)) + 1
      BY <2>2, <2>4, <3>2
    <3>. QED  BY <1>1, <1>3, <2>1, <2>2, <3>3, <3>4
  <2>6. \A n \in Existing' : machine'[n].set = First
    BY <1>2, <2>2, <2>4, LiveSubset
  <2>. QED  BY <1>2, <1>3, <2>1, <2>3, <2>5, <2>6 DEF Covered
<1>a. ASSUME NEW m \in Machines, \A n \in Machines \ {m} : machine'[n] = machine[n],
             m \in Existing' => machine'[m].set = machine[m].set, Existing' \subseteq Existing,
             \A s \in Sets : Live(s)' = Live(s) /\ Plain(s)' = Plain(s), lost' = lost
      PROVE  Covered'
  <2>1. \A n \in Existing' : machine'[n].set = First
    BY <1>2, <1>a, LiveSubset
  <2>. QED  BY <1>2, <1>3, <1>a, <2>1, FirstAssumption DEF Covered
<1>6. ASSUME NEW m \in Machines, NEW h \in Hosts, Provision(m, h) PROVE Covered'
  <2>1. /\ \A n \in Machines \ {m} : machine'[n] = machine[n]
        /\ machine'[m].set = machine[m].set /\ Existing' = Existing
        /\ \A s \in Sets : Live(s)' = Live(s) /\ Plain(s)' = Plain(s)
    BY <1>6, ProvisionFrame
  <2>2. lost' = lost
    BY <1>6 DEF Provision, history
  <2>. QED  BY <1>a, <2>1, <2>2
<1>7. ASSUME NEW m \in Machines, Vanish(m) PROVE Covered'
  <2>1. /\ \A n \in Machines \ {m} : machine'[n] = machine[n]
        /\ Existing' = Existing \ {m}
        /\ \A s \in Sets : Live(s)' = Live(s) /\ Plain(s)' = Plain(s)
    BY <1>7, VanishFrame
  <2>2. lost' = lost
    BY <1>7 DEF Vanish, history
  <2>. QED  BY <1>a, <2>1, <2>2
<1>. QED  BY <1>4, <1>5, <1>6, <1>7 DEF Cluster

\* Every step of two undisturbed runs leaves no machine out.
LEMMA SecondStep ==
  TypeOK /\ TypeOK' /\ MachineInv /\ LoopInv /\ QuietInv /\ SecondInv /\ [Next]_vars => SecondInv'
<1>. SUFFICES ASSUME TypeOK, TypeOK', MachineInv, LoopInv, QuietInv, SecondInv, [Next]_vars,
                     changes' = 0, SingleSet', runs' <= 2
              PROVE  Covered'
  BY DEF SecondInv
<1>1. /\ changes = 0 /\ ~Other /\ original' = original /\ runs \in Nat /\ runs <= 2
      /\ SingleSet
  BY Counters DEF SingleSet
<1>2. Covered
  BY <1>1 DEF SecondInv
<1>3. CASE UNCHANGED vars
  <2>1. UNCHANGED <<machine, replicas, lost, runs, pc, todo, kept, broken>>
    BY <1>3 DEF vars, cluster, role, history
  <2>. QED  BY <1>2, <2>1, CoveredFrame
<1>4. CASE Role
  BY <1>1, <1>2, <1>4, CoveredByRole
<1>5. CASE Cluster
  BY <1>1, <1>2, <1>5, CoveredByCluster
<1>. QED  BY <1>3, <1>4, <1>5 DEF Next

\* No step of an undisturbed first run pulls a host.
LEMMA PulledStep ==
  TypeOK /\ MachineInv /\ LoopInv /\ ReducedInv /\ PulledInv /\ [Next]_vars => PulledInv'
<1>. SUFFICES ASSUME TypeOK, MachineInv, LoopInv, ReducedInv, PulledInv, [Next]_vars,
                     changes' = 0, runs' <= 1
              PROVE  pulled' = {}
  BY DEF PulledInv
<1>1. changes = 0 /\ runs \in Nat /\ runs <= 1 /\ pulled = {}
  BY Counters DEF PulledInv
<1>2. ASSUME NEW h \in Hosts, DeleteHost(h) PROVE pulled' = {}
  <2>1. pc = "delete" /\ runs = 1 /\ h \in nodes
    BY <1>1, <1>2 DEF DeleteHost, LoopInv
  <2>2. Existing = Stay
    BY <1>1, <2>1 DEF ReducedInv, Decided
  <2>3. h \notin Used
    <3>. SUFFICES ASSUME NEW m \in Existing, machine[m].host = h PROVE FALSE
      BY DEF Used
    <3>1. m \in Machines /\ original[m] # None /\ original[m].host \notin nodes
      BY <2>2 DEF Stay
    <3>. QED  BY <2>1, <3>1 DEF MachineInv
  <2>. QED  BY <1>1, <1>2, <2>3 DEF DeleteHost
<1>3. UNCHANGED pulled \/ \E h \in Hosts : DeleteHost(h)
  BY DEF Next, Role, Cluster, Start, GetMachines, Annotate, Reduce, WaitMachines, TaskError,
    ScaleDown, ScaleUp, Provision, Vanish, Other, vars, history
<1>. QED  BY <1>1, <1>2, <1>3

-----------------------------------------------------------------------------
(* Theorems.                                                               *)

\* The invariant holds in every state of every behaviour.
THEOREM Invariance == Spec => []IInv
<1>1. Init => IInv
  BY InitInv
<1>2. IInv /\ [Next]_vars => IInv'
  BY TypeStep, MachineStep, LoopStep, SurplusStep, QuietStep, ReducedStep, SecondStep, PulledStep DEF IInv
<1>. QED  BY <1>1, <1>2, PTL DEF Spec

\* The variables always have the types of the facts and objects they model.
THEOREM TypeCorrect == Spec => []TypeOK
<1>1. IInv => TypeOK
  BY DEF IInv
<1>. QED  BY <1>1, Invariance, PTL

\* However the machines change while the run works on its list, a first run loses no
\* machine of a node nobody asked for, but one for each change of others; with one
\* set and no disturbance a second run does not either (main.yml:9-68).
THEOREM UnaskedAreSafe == Spec => []UnaskedSurvive
<1>1. IInv => UnaskedSurvive
  <2>. SUFFICES ASSUME IInv PROVE UnaskedSurvive
    OBVIOUS
  <2>1. runs <= 1 => Cardinality(lost) <= changes
    <3>. SUFFICES ASSUME runs <= 1 PROVE Cardinality(lost) <= changes
      OBVIOUS
    <3>1. PICK E \in SUBSET Machines : Accounts(E)
      BY DEF IInv, SurplusInv
    <3>2. lost \in SUBSET (lost \cup E) /\ lost \cup E \in SUBSET Machines
      BY DEF IInv, TypeOK
    <3>3. /\ Cardinality(lost) <= Cardinality(lost \cup E)
          /\ Cardinality(lost) \in Nat /\ Cardinality(lost \cup E) \in Nat
      BY <3>2, Subsets
    <3>4. Owed \in Nat /\ changes \in Nat
      BY Numbers, BoundsAssumption DEF IInv, Counted, TypeOK
    <3>5. Cardinality(lost \cup E) + Owed <= changes
      BY <3>1 DEF Accounts
    <3>. QED  BY <3>3, <3>4, <3>5
  <2>2. runs <= 2 /\ changes = 0 /\ SingleSet => lost = {}
    BY DEF IInv, SecondInv, Covered
  <2>. QED  BY <2>1, <2>2 DEF UnaskedSurvive
<1>. QED  BY <1>1, Invariance, PTL

\* A first run nobody disturbs pulls no host from under a machine; when it ends well,
\* the nodes to remove, and no others, are gone (tasks/main.yml:56-104).
THEOREM UndisturbedRemoves == Spec => []UndisturbedIsExact
<1>1. IInv => UndisturbedIsExact
  <2>. SUFFICES ASSUME IInv, runs = 1, changes = 0
                PROVE  pulled = {} /\ (outcome = "ok" => hosts = Hosts \ nodes /\ Used \cap nodes = {})
    BY DEF UndisturbedIsExact
  <2>1. pulled = {}
    BY DEF IInv, PulledInv
  <2>2. ASSUME outcome = "ok" PROVE hosts = Hosts \ nodes /\ Used \cap nodes = {}
    <3>1. pc = "idle"
      BY <2>2 DEF IInv, LoopInv
    <3>2. hosts = Hosts \ nodes /\ Existing = Stay
      BY <2>2, <3>1 DEF IInv, ReducedInv, Decided
    <3>3. \A m \in Existing : machine[m].host \notin nodes
      BY <3>2 DEF IInv, MachineInv, Stay
    <3>. QED  BY <3>2, <3>3 DEF Used
  <2>. QED  BY <2>1, <2>2
<1>. QED  BY <1>1, Invariance, PTL

=============================================================================
