---------------------------- MODULE FilterProofs ----------------------------
(***************************************************************************)
(* Proofs about the filters of plugins/filter and the roles around them:   *)
(* deprecated_api and the check preflight makes of its result, for any     *)
(* APIs, clusters, releases, namespaces and runs; junit2json and           *)
(* verify_tests, for any reports, inputs, expected results and roles.      *)
(***************************************************************************)
EXTENDS DeprecatedApi, JunitReports, SequenceTheorems, WellFoundedInduction, TLAPS

-----------------------------------------------------------------------------
(* deprecated_api.                                                         *)

\* What the filter has said of the versions it has come by.
FilterInv ==
  pc \in {"loop", "limit"} =>
    /\ version >= current
    /\ \A v \in current .. version - 1 :
         StrLeq(v, MaxVersion) /\ \E c \in compatibility : c.version = v
    /\ \A c \in compatibility :
         /\ c.version \in current .. version - 1
         /\ c.apis = {} <=> \A v \in current .. c.version : v \notin Failed
    /\ status = {} <=> \A v \in current .. version - 1 : v \notin Failed
    /\ pc = "limit" => ~StrLeq(version, MaxVersion)

\* The limit of a namespace is the last version before one that removes an API.
LimitInv ==
  pc = "compare" =>
    /\ limit # Undefined
    /\ \A v \in current .. limit : v \notin Failed
    /\ limit # Unlimited => limit + 1 \in Failed

Examined == pc \in {"loop", "limit", "compare"}

\* What the namespaces examined use is removed after the limit of all, but for what
\* the namespace in hand uses.
FoundInv ==
  pc # "failed" =>
    /\ Examined => Failed \subseteq found
    /\ \A v \in current .. (IF maxCompatible = Undefined THEN MaxMinor ELSE maxCompatible) :
         v \in found => Examined /\ v \in Failed
    /\ maxCompatible \notin {Undefined, Unlimited} => maxCompatible + 1 \in found

IInv == TypeOK /\ FilterInv /\ LimitInv /\ FoundInv

-----------------------------------------------------------------------------
(* Versions as numbers and as strings.                                     *)

\* The first digit of a version, and the order of versions as strings: that of the
\* numbers among those of two digits, and among those of one.
LEMMA StringOrder ==
  /\ \A a, b \in 10 .. 99 : StrLeq(a, b) <=> a <= b
  /\ \A a, b \in 0 .. 9 : StrLeq(a, b) <=> a <= b
<1>1. ASSUME NEW a \in 10 .. 99, NEW b \in 10 .. 99 PROVE StrLeq(a, b) <=> a <= b
  <2>1. /\ FirstDigit(a) = a \div 10 /\ FirstDigit(b) = b \div 10
    BY DEF FirstDigit
  <2>2. a >= 10 /\ b >= 10 /\ a \in Int /\ b \in Int /\ a \div 10 \in Int /\ b \div 10 \in Int
    OBVIOUS
  <2>3. (a <= b => a \div 10 <= b \div 10) /\ (b <= a => b \div 10 <= a \div 10)
    BY <2>2
  <2>4. a \div 10 = b \div 10 => (a <= b <=> a % 10 <= b % 10)
    BY <2>2
  <2>. DEFINE p == a \div 10
              q == b \div 10
              r == a % 10
              s == b % 10
  <2>5. StrLeq(a, b) <=> p < q \/ (p = q /\ r <= s)
    BY <2>1, <2>2 DEF StrLeq
  <2>6. /\ p \in Int /\ q \in Int /\ a \in Int /\ b \in Int
        /\ (a <= b => p <= q) /\ (b <= a => q <= p) /\ (p = q => (a <= b <=> r <= s))
    BY <2>2, <2>3, <2>4
  <2>. HIDE DEF p, q, r, s
  <2>. QED  BY <2>5, <2>6
<1>2. ASSUME NEW a \in 0 .. 9, NEW b \in 0 .. 9 PROVE StrLeq(a, b) <=> a <= b
  BY DEF StrLeq, FirstDigit
<1>. QED  BY <1>1, <1>2

\* No version of three digits comes before one of two.
LEMMA TwoDigits ==
  ASSUME NEW a \in Nat, NEW b \in Minors, StrLeq(a, b)
  PROVE  a \in Minors
<1>. SUFFICES ASSUME a >= 100 PROVE FALSE
  BY DEF Minors, MaxMinor
<1>1. FirstDigit(a) = a \div 10 /\ a \div 10 >= 10
  BY DEF FirstDigit
<1>2. FirstDigit(b) <= 9 /\ FirstDigit(b) \in Nat
  <2>1. CASE b < 10
    BY <2>1 DEF FirstDigit, Minors, MaxMinor
  <2>2. CASE b >= 10
    BY <2>2 DEF FirstDigit, Minors, MaxMinor
  <2>. QED  BY <2>1, <2>2 DEF Minors
<1>. QED  BY <1>1, <1>2 DEF StrLeq

\* The versions that remove APIs are versions.
LEMMA FailedType ==
  TypeOK => Failed \subseteq Minors /\ \A f \in Failed : \E m \in K8sReleases : f = K8s2ocp(m)
<1>. SUFFICES ASSUME TypeOK, NEW f \in Failed
              PROVE  f \in Minors /\ \E m \in K8sReleases : f = K8s2ocp(m)
  OBVIOUS
<1>1. PICK a \in DOMAIN removed : f = K8s2ocp(removed[a])
  BY DEF Failed, Releases
<1>2. removed[a] \in K8sReleases
  BY <1>1 DEF TypeOK
<1>3. removed[a] \in 13 .. 99 + 13
  BY <1>2, VersionsAssumption DEF MaxMinor
<1>4. f \in Minors
  BY <1>1, <1>3 DEF K8s2ocp, Minors, MaxMinor
<1>. QED  BY <1>1, <1>2, <1>4

\* A set of versions has a largest one.
LEMMA LargestExists ==
  ASSUME NEW S \in SUBSET (0 .. 99), S # {}
  PROVE  \E m \in S : \A v \in S : v <= m
<1>. DEFINE T == {n \in Nat : 99 - n \in S}
            R == OpToRel(<, Nat)
<1>1. T \subseteq Nat
  OBVIOUS
<1>2. T # {}
  <2>1. PICK v \in S : TRUE
    OBVIOUS
  <2>2. 99 - v \in Nat /\ 99 - (99 - v) = v
    OBVIOUS
  <2>. QED  BY <2>1, <2>2
<1>3. PICK x \in T : \A y \in T : ~ (<<y, x>> \in R)
  <2>1. IsWellFoundedOn(R, Nat)
    BY NatLessThanWellFounded
  <2>. HIDE DEF T, R
  <2>. QED  BY <1>1, <1>2, <2>1, WFMin
<1>4. ASSUME NEW v \in S PROVE v <= 99 - x
  <2>1. 99 - v \in T /\ 99 - v \in Nat /\ x \in Nat
    OBVIOUS
  <2>2. ~ (99 - v < x)
    <3>. SUFFICES ASSUME 99 - v < x PROVE <<99 - v, x>> \in R
      BY <1>3, <2>1
    <3>. QED  BY <2>1 DEF OpToRel
  <2>. QED  BY <2>1, <2>2
<1>. QED  BY <1>3, <1>4

\* The filter goes up to the last version that removes an API, or to the next one.
LEMMA MaxVersionIs ==
  TypeOK => /\ MaxVersion \in Failed \cup {current + 1} /\ MaxVersion \in Minors
            /\ current + 1 \in Minors /\ current \in 0 .. 98
            /\ \A v \in Failed \cup {current + 1} : v <= MaxVersion
<1>. SUFFICES ASSUME TypeOK
              PROVE  /\ MaxVersion \in Failed \cup {current + 1} /\ MaxVersion \in Minors
                     /\ current + 1 \in Minors /\ current \in 0 .. 98
                     /\ \A v \in Failed \cup {current + 1} : v <= MaxVersion
  OBVIOUS
<1>1. current \in 0 .. 98 /\ current + 1 \in 0 .. 99
  BY VersionsAssumption DEF TypeOK, MaxMinor
<1>2. Failed \cup {current + 1} \in SUBSET (0 .. 99)
  BY <1>1, FailedType DEF Minors, MaxMinor
<1>3. \E m \in Failed \cup {current + 1} : \A v \in Failed \cup {current + 1} : v <= m
  BY <1>2, LargestExists
<1>4. /\ MaxVersion \in Failed \cup {current + 1}
      /\ \A v \in Failed \cup {current + 1} : v <= MaxVersion
  BY <1>3 DEF MaxVersion
<1>. QED  BY <1>1, <1>2, <1>4 DEF Minors, MaxMinor

\* If the loop starts, then it comes by every version up to the last, and all of them
\* have as many digits as the cluster's.
LEMMA LoopOrder ==
  ASSUME TypeOK, StrLeq(current, MaxVersion)
  PROVE  /\ current < 10 <=> MaxVersion < 10
         /\ \A v \in current .. MaxVersion : StrLeq(v, MaxVersion)
<1>1. /\ MaxVersion \in Failed \cup {current + 1} /\ MaxVersion \in 0 .. 99
      /\ current \in 0 .. 98 /\ current \in Currents /\ current + 1 <= MaxVersion
  BY MaxVersionIs DEF Minors, MaxMinor, TypeOK
<1>2. current < 10 <=> MaxVersion < 10
  <2>1. ASSUME current < 10, MaxVersion >= 10 PROVE FALSE
    <3>1. CASE MaxVersion \in Failed
      <4>1. PICK m \in K8sReleases : MaxVersion = K8s2ocp(m)
        BY <3>1, FailedType
      <4>. QED  BY <1>1, <2>1, <4>1, DigitsAssumption
    <3>2. CASE MaxVersion = current + 1
      <4>1. current = 9 /\ MaxVersion = 10
        BY <1>1, <2>1, <3>2
      <4>2. ~StrLeq(9, 10)
        BY DEF StrLeq, FirstDigit
      <4>. QED  BY <4>1, <4>2
    <3>. QED  BY <1>1, <3>1, <3>2
  <2>. QED  BY <1>1, <2>1
<1>3. ASSUME NEW v \in current .. MaxVersion PROVE StrLeq(v, MaxVersion)
  <2>1. CASE current < 10
    <3>1. v \in 0 .. 9 /\ MaxVersion \in 0 .. 9 /\ v <= MaxVersion
      BY <1>1, <1>2, <2>1
    <3>. QED  BY <3>1, StringOrder
  <2>2. CASE current >= 10
    <3>1. v \in 10 .. 99 /\ MaxVersion \in 10 .. 99 /\ v <= MaxVersion
      BY <1>1, <1>2, <2>2
    <3>. QED  BY <3>1, StringOrder
  <2>. QED  BY <1>1, <2>1, <2>2
<1>. QED  BY <1>2, <1>3

\* An API is removed in a version exactly if the version is one of those that remove.
LEMMA RemovedInIs == \A v : RemovedIn(v) = {} <=> v \notin Failed
BY DEF RemovedIn, Failed, Releases

-----------------------------------------------------------------------------
(* The invariant.                                                          *)

\* The invariant holds at the start.
LEMMA InitOK == Init => IInv
<1>. SUFFICES ASSUME Init PROVE IInv
  OBVIOUS
<1>1. current \in Currents /\ current \in Minors
  BY VersionsAssumption DEF Init, Minors, MaxMinor
<1>2. removed \in [{} -> K8sReleases] /\ {} \in SUBSET Apis
  BY DEF Init
<1>3. TypeOK
  <2>1. \E used \in SUBSET Apis : removed \in [used -> K8sReleases]
    BY <1>2
  <2>. QED  BY <1>1, <2>1, BoundsAssumption DEF Init, TypeOK, Limits
<1>4. FilterInv /\ LimitInv /\ FoundInv
  BY DEF Init, FilterInv, LimitInv, FoundInv, Examined, Undefined
<1>. QED  BY <1>3, <1>4 DEF IInv

\* The variables a step changes keep their types.
LEMMA TypeKept == IInv /\ [Next]_vars => TypeOK'
<1>. SUFFICES ASSUME IInv, [Next]_vars PROVE TypeOK'
  OBVIOUS
<1>. USE DEF IInv
<1>1. CASE Start
  <2>1. runs' \in 0 .. MaxRuns /\ namespaces' \in 0 .. MaxNamespaces
    BY <1>1, BoundsAssumption DEF Start, TypeOK
  <2>2. current' \in Currents
    BY <1>1 DEF Start
  <2>. QED  BY <1>1, <2>1, <2>2 DEF Start, filterVars, TypeOK
<1>2. CASE Examine
  <2>1. PICK used \in SUBSET Apis : removed' \in [used -> K8sReleases]
    BY <1>2 DEF Examine
  <2>2. Releases(removed') \subseteq Minors
    <3>1. ASSUME NEW f \in Releases(removed') PROVE f \in Minors
      <4>1. PICK a \in DOMAIN removed' : f = K8s2ocp(removed'[a])
        BY <3>1 DEF Releases
      <4>2. removed'[a] \in K8sReleases
        BY <2>1, <4>1
      <4>3. removed'[a] \in 13 .. 99 + 13
        BY <4>2, VersionsAssumption DEF MaxMinor
      <4>. QED  BY <4>1, <4>3 DEF K8s2ocp, Minors, MaxMinor
    <3>. QED  BY <3>1
  <2>3. version' \in Minors
    BY <1>2, VersionsAssumption DEF Examine, TypeOK, Minors, MaxMinor
  <2>4. \E u \in SUBSET Apis : removed' \in [u -> K8sReleases]
    BY <2>1
  <2>5. namespaces' \in 0 .. MaxNamespaces
    BY <1>2, BoundsAssumption DEF Examine, TypeOK
  <2>. QED  BY <1>2, <2>2, <2>3, <2>4, <2>5 DEF Examine, TypeOK
<1>3. CASE Iterate
  <2>1. version \in Minors /\ version' = version + 1
    BY <1>3, MaxVersionIs, TwoDigits DEF Iterate, TypeOK, Minors, MaxMinor
  <2>2. version' \in Minors \cup {MaxMinor + 1}
    BY <2>1 DEF Minors, MaxMinor
  <2>3. RemovedIn(version) \subseteq Apis
    BY DEF RemovedIn, TypeOK
  <2>4. /\ compatibility' = compatibility \cup
                              {[version |-> version, apis |-> status \cup RemovedIn(version)]}
        /\ status' = IF version \in Failed THEN RemovedIn(version) ELSE status
    BY <1>3 DEF Iterate
  <2>5. compatibility' \subseteq [version : Minors, apis : SUBSET Apis] /\ status' \subseteq Apis
    BY <2>1, <2>3, <2>4 DEF TypeOK
  <2>. QED  BY <1>3, <2>2, <2>5 DEF Iterate, TypeOK
<1>4. CASE Return
  BY <1>4 DEF Return, filterVars, TypeOK
<1>5. CASE Limit
  <2>1. Compatible \subseteq Minors
    BY DEF Compatible, TypeOK
  <2>2. limit' \in Limits
    BY <1>5, <2>1 DEF Limit, Limits, TypeOK
  <2>. QED  BY <1>5, <2>2 DEF Limit, filterVars, TypeOK
<1>6. CASE Compare
  <2>1. maxCompatible' \in Limits /\ maxCompatible' # Undefined
    BY <1>6 DEF Compare, LimitInv, TypeOK
  <2>. QED  BY <1>6, <2>1 DEF Compare, filterVars, TypeOK
<1>7. CASE Finish
  BY <1>7 DEF Finish, filterVars, TypeOK
<1>8. CASE UNCHANGED vars
  BY <1>8 DEF vars, TypeOK
<1>. QED  BY <1>1, <1>2, <1>3, <1>4, <1>5, <1>6, <1>7, <1>8 DEF Next

\* The filter says of every version whether it is compatible, as it comes by it.
LEMMA FilterKept == IInv /\ [Next]_vars => FilterInv'
<1>. SUFFICES ASSUME IInv, [Next]_vars PROVE FilterInv'
  OBVIOUS
<1>. USE DEF IInv
<1>0. current \in 0 .. 98 /\ current \in Int /\ version \in Int
  BY MaxVersionIs DEF TypeOK, Minors, MaxMinor
<1>1. CASE Start \/ Compare \/ Finish
  BY <1>1 DEF Start, Compare, Finish, FilterInv
<1>2. CASE Examine
  <2>1. version' = current /\ current' = current /\ status' = {} /\ compatibility' = {} /\ pc' = "loop"
    BY <1>2 DEF Examine
  <2>2. \A v \in current' .. version' - 1 : FALSE
    BY <1>0, <2>1
  <2>. QED  BY <1>0, <2>1, <2>2 DEF FilterInv
<1>3. CASE Iterate
  <2>. DEFINE new == RemovedIn(version)
              c0 == [version |-> version, apis |-> status \cup new]
  <2>1. /\ pc = "loop" /\ pc' = "loop" /\ StrLeq(version, MaxVersion)
        /\ compatibility' = compatibility \cup {c0}
        /\ status' = IF version \in Failed THEN new ELSE status
        /\ version' = version + 1 /\ current' = current /\ removed' = removed
    BY <1>3 DEF Iterate
  <2>2. Failed' = Failed /\ MaxVersion' = MaxVersion
    BY <2>1 DEF Failed, Releases, MaxVersion
  <2>3. new = {} <=> version \notin Failed
    BY RemovedInIs
  <2>4. /\ version >= current
        /\ \A v \in current .. version - 1 :
             StrLeq(v, MaxVersion) /\ \E c \in compatibility : c.version = v
        /\ \A c \in compatibility :
             /\ c.version \in current .. version - 1
             /\ c.apis = {} <=> \A v \in current .. c.version : v \notin Failed
        /\ status = {} <=> \A v \in current .. version - 1 : v \notin Failed
    BY <2>1 DEF FilterInv
  <2>. HIDE DEF new
  <2>5. \A v : v \in current .. version' - 1 <=> v \in current .. version - 1 \/ v = version
    BY <1>0, <2>1, <2>4
  <2>6. (\A v \in current .. version' - 1 : v \notin Failed)
          <=> (\A v \in current .. version - 1 : v \notin Failed) /\ version \notin Failed
    BY <2>5
  <2>7. status' = {} <=> \A v \in current .. version' - 1 : v \notin Failed
    BY <2>1, <2>3, <2>4, <2>6
  <2>8. /\ c0.version = version /\ version \in current .. version' - 1
        /\ c0.apis = {} <=> status = {} /\ new = {}
    BY <2>5
  <2>9. version' - 1 = version
    BY <1>0, <2>1
  <2>10. c0.apis = {} <=> \A v \in current .. c0.version : v \notin Failed
    BY <2>3, <2>4, <2>6, <2>8, <2>9
  <2>11. ASSUME NEW c \in compatibility'
         PROVE  /\ c.version \in current .. version' - 1
                /\ c.apis = {} <=> \A v \in current .. c.version : v \notin Failed
    <3>1. CASE c = c0
      BY <3>1, <2>8, <2>10
    <3>2. CASE c \in compatibility
      BY <3>2, <2>4, <2>5
    <3>. QED  BY <2>1, <3>1, <3>2
  <2>12. ASSUME NEW v \in current .. version' - 1
         PROVE  StrLeq(v, MaxVersion) /\ \E c \in compatibility' : c.version = v
    <3>1. CASE v = version
      BY <3>1, <2>1, <2>8
    <3>2. CASE v \in current .. version - 1
      BY <3>2, <2>1, <2>4
    <3>. QED  BY <2>5, <3>1, <3>2
  <2>13. version' >= current
    BY <1>0, <2>1, <2>4
  <2>. HIDE DEF c0
  <2>. QED  BY <2>1, <2>2, <2>7, <2>11, <2>12, <2>13 DEF FilterInv
<1>4. CASE Return
  <2>1. /\ ~StrLeq(version, MaxVersion) /\ pc = "loop" /\ version' = version /\ current' = current
        /\ removed' = removed /\ compatibility' = compatibility /\ status' = status
    BY <1>4 DEF Return, filterVars
  <2>2. Failed' = Failed /\ MaxVersion' = MaxVersion
    BY <2>1 DEF Failed, Releases, MaxVersion
  <2>. QED  BY <2>1, <2>2 DEF FilterInv
<1>5. CASE Limit
  BY <1>5 DEF Limit, FilterInv
<1>6. CASE UNCHANGED vars
  BY <1>6 DEF vars, FilterInv, Failed, Releases, MaxVersion
<1>. QED  BY <1>1, <1>2, <1>3, <1>4, <1>5, <1>6 DEF Next

\* The limit of a namespace is the last version before one that removes an API it uses.
LEMMA LimitKept == IInv /\ [Next]_vars => LimitInv'
<1>. SUFFICES ASSUME IInv, [Next]_vars, pc' = "compare"
              PROVE  /\ limit' # Undefined
                     /\ \A v \in current' .. limit' : v \notin Failed'
                     /\ limit' # Unlimited => limit' + 1 \in Failed'
  BY DEF LimitInv
<1>. USE DEF IInv
<1>1. CASE Limit
  <2>1. pc = "limit" /\ current' = current /\ Failed' = Failed
    BY <1>1 DEF Limit, filterVars, Failed, Releases
  <2>2. /\ version >= current /\ ~StrLeq(version, MaxVersion)
        /\ \A v \in current .. version - 1 :
             StrLeq(v, MaxVersion) /\ \E c \in compatibility : c.version = v
        /\ \A c \in compatibility :
             /\ c.version \in current .. version - 1
             /\ c.apis = {} <=> \A v \in current .. c.version : v \notin Failed
    BY <2>1 DEF FilterInv
  <2>3. /\ current \in 0 .. 98 /\ version \in 0 .. 100 /\ Failed \subseteq 0 .. 99
        /\ \A f \in Failed : f <= MaxVersion
        /\ MaxVersion \in 0 .. 99
    BY MaxVersionIs, FailedType DEF TypeOK, Minors, MaxMinor
  <2>4. compatibility # {}
    BY <1>1 DEF Limit, Compatible
  <2>5. current \in current .. version - 1
    <3>1. PICK c \in compatibility : c.version \in current .. version - 1
      BY <2>2, <2>4
    <3>. QED  BY <2>3, <3>1
  <2>6. StrLeq(current, MaxVersion)
    BY <2>2, <2>5
  <2>7. /\ current < 10 <=> MaxVersion < 10
        /\ \A v \in current .. MaxVersion : StrLeq(v, MaxVersion)
    BY <2>6, LoopOrder
  <2>8. version > MaxVersion
    <3>1. ASSUME version <= MaxVersion PROVE FALSE
      <4>1. version \in current .. MaxVersion
        BY <2>2, <2>3, <3>1
      <4>. QED  BY <2>2, <2>7, <4>1
    <3>. QED  BY <2>3, <3>1
  <2>9. CASE \A c \in compatibility : c.apis = {}
    <3>1. limit' = Unlimited
      BY <1>1, <2>9 DEF Limit, Compatible
    <3>2. ASSUME NEW v \in current .. 99, v \in Failed PROVE FALSE
      <4>1. v \in current .. version - 1
        BY <2>3, <2>8, <3>2
      <4>2. PICK c \in compatibility : c.version = v
        BY <2>2, <4>1
      <4>3. \A w \in current .. v : w \notin Failed
        BY <2>2, <2>9, <4>2
      <4>4. v \in current .. v
        BY <2>3, <3>2
      <4>. QED  BY <3>2, <4>3, <4>4
    <3>. QED  BY <2>1, <3>1, <3>2 DEF Unlimited, Undefined
  <2>10. CASE \E c \in compatibility : c.apis # {}
    <3>1. limit' \in Compatible /\ \A w \in Compatible : StrLeq(w, limit')
      BY <1>1, <2>10, pc' = "compare" DEF Limit
    <3>2. PICK c \in compatibility : c.apis = {} /\ c.version = limit'
      BY <3>1 DEF Compatible
    <3>3. limit' \in current .. version - 1 /\ \A v \in current .. limit' : v \notin Failed
      BY <2>2, <3>2
    <3>4. PICK d \in compatibility : d.apis # {}
      BY <2>10
    <3>5. PICK f \in current .. d.version : f \in Failed
      BY <2>2, <3>4
    <3>6. limit' < f
      <4>1. ASSUME f <= limit' PROVE FALSE
        <5>1. f \in current .. limit'
          BY <2>3, <3>3, <3>5, <4>1
        <5>. QED  BY <3>3, <3>5, <5>1
      <4>. QED  BY <2>3, <3>3, <3>5, <4>1
    <3>. DEFINE l == limit'
    <3>a. l \in Int /\ l >= current /\ l <= version - 1
      BY <2>3, <3>3
    <3>b. f \in Int /\ f <= MaxVersion /\ l < f
      BY <2>3, <3>5, <3>6
    <3>7. l + 1 \in current .. version - 1 /\ l + 1 <= MaxVersion
      <4>. HIDE DEF l
      <4>. QED  BY <2>3, <2>8, <3>a, <3>b
    <3>8. ASSUME limit' + 1 \notin Failed PROVE FALSE
      <4>1. PICK e \in compatibility : e.version = limit' + 1
        BY <2>2, <3>7
      <4>2. \A v \in current .. e.version : v \notin Failed
        <5>1. \A v \in current .. l + 1 : v \in current .. l \/ v = l + 1
          <6>. HIDE DEF l
          <6>. QED  BY <2>3, <3>a
        <5>. QED  BY <3>3, <3>8, <4>1, <5>1
      <4>3. limit' + 1 \in Compatible
        BY <2>2, <4>1, <4>2 DEF Compatible
      <4>4. StrLeq(limit' + 1, limit')
        BY <3>1, <4>3
      <4>5. l \in Int /\ StrLeq(l + 1, l) /\ l >= current /\ l + 1 <= MaxVersion
        BY <3>a, <3>7, <4>4
      <4>. HIDE DEF l
      <4>6. CASE current < 10
        <5>1. l \in 0 .. 9 /\ l + 1 \in 0 .. 9
          BY <2>3, <2>7, <4>5, <4>6
        <5>2. l + 1 <= l
          BY <4>5, <5>1, StringOrder
        <5>. QED  BY <4>5, <5>2
      <4>7. CASE current >= 10
        <5>1. l \in 10 .. 99 /\ l + 1 \in 10 .. 99
          BY <2>3, <4>5, <4>7
        <5>2. l + 1 <= l
          BY <4>5, <5>1, StringOrder
        <5>. QED  BY <4>5, <5>2
      <4>. QED  BY <2>3, <4>6, <4>7
    <3>9. limit' # Undefined
      BY <2>3, <3>3 DEF Undefined
    <3>. QED  BY <2>1, <3>3, <3>8, <3>9
  <2>. QED  BY <2>9, <2>10
<1>2. CASE Start \/ Examine \/ Iterate \/ Return \/ Compare \/ Finish
  BY <1>2, pc' = "compare" DEF Start, Examine, Iterate, Return, Compare, Finish
<1>3. CASE UNCHANGED vars
  BY <1>3 DEF vars, LimitInv, Failed, Releases
<1>. QED  BY <1>1, <1>2, <1>3 DEF Next

\* What is removed up to the limit of all is used by the namespace in hand alone.
LEMMA FoundKept == IInv /\ [Next]_vars => FoundInv'
<1>. SUFFICES ASSUME IInv, [Next]_vars, pc' # "failed"
              PROVE  /\ Examined' => Failed' \subseteq found'
                     /\ \A v \in current' .. (IF maxCompatible' = Undefined THEN MaxMinor
                                              ELSE maxCompatible') :
                          v \in found' => Examined' /\ v \in Failed'
                     /\ maxCompatible' \notin {Undefined, Unlimited} => maxCompatible' + 1 \in found'
  BY DEF FoundInv
<1>. USE DEF IInv
<1>0. /\ current \in Int /\ maxCompatible \in Int /\ limit \in Int
      /\ limit \in Minors \cup {Undefined} /\ maxCompatible \in Minors \cup {Undefined}
  BY MaxVersionIs DEF TypeOK, Limits, Minors, MaxMinor, Undefined, Unlimited
<1>1. CASE Start
  <2>1. /\ current' \in Currents /\ current' >= current /\ found' = found /\ ~Examined /\ pc # "failed"
        /\ maxCompatible' = maxCompatible /\ ~Examined'
    BY <1>1 DEF Start, Examined
  <2>2. current' \in Int
    BY <2>1, VersionsAssumption DEF MaxMinor
  <2>. DEFINE top == IF maxCompatible = Undefined THEN MaxMinor ELSE maxCompatible
  <2>3. \A v \in current .. top : v \notin found
    BY <2>1 DEF FoundInv
  <2>4. top \in Int
    BY <1>0 DEF MaxMinor
  <2>. HIDE DEF top
  <2>5. \A v \in current' .. top : v \in current .. top
    BY <1>0, <2>1, <2>2, <2>4
  <2>6. maxCompatible \notin {Undefined, Unlimited} => maxCompatible + 1 \in found
    BY <2>1 DEF FoundInv
  <2>. QED  BY <2>1, <2>3, <2>5, <2>6 DEF top
<1>2. CASE Examine
  <2>1. /\ pc = "namespace" /\ pc' = "loop" /\ current' = current /\ found' = found \cup Failed'
        /\ maxCompatible' = maxCompatible
    BY <1>2 DEF Examine, Failed
  <2>. QED  BY <2>1 DEF FoundInv, Examined
<1>3. CASE Iterate \/ Return \/ Limit
  <2>1. /\ Examined /\ Examined' /\ current' = current /\ found' = found /\ Failed' = Failed
        /\ maxCompatible' = maxCompatible /\ pc # "failed"
    BY <1>3, pc' # "failed" DEF Iterate, Return, Limit, Examined, filterVars, Failed, Releases
  <2>. QED  BY <2>1 DEF FoundInv
<1>4. CASE Compare
  <2>1. /\ pc = "compare" /\ pc' = "namespace" /\ current' = current /\ found' = found
        /\ maxCompatible' = IF maxCompatible = Undefined \/ limit < maxCompatible
                            THEN limit ELSE maxCompatible
    BY <1>4 DEF Compare
  <2>2. /\ Failed \subseteq found
        /\ \A v \in current .. (IF maxCompatible = Undefined THEN MaxMinor ELSE maxCompatible) :
             v \in found => v \in Failed
        /\ maxCompatible \notin {Undefined, Unlimited} => maxCompatible + 1 \in found
    BY <2>1 DEF FoundInv, Examined
  <2>3. /\ limit # Undefined /\ \A v \in current .. limit : v \notin Failed
        /\ limit # Unlimited => limit + 1 \in Failed
    BY <2>1 DEF LimitInv
  <2>4. CASE maxCompatible = Undefined \/ limit < maxCompatible
    <3>1. maxCompatible' = limit
      BY <2>1, <2>4
    <3>2. ASSUME NEW v \in current .. limit, v \in found PROVE FALSE
      <4>1. v \in current .. (IF maxCompatible = Undefined THEN MaxMinor ELSE maxCompatible)
        BY <1>0, <2>3, <2>4 DEF Minors, MaxMinor
      <4>. QED  BY <2>2, <2>3, <3>2, <4>1
    <3>. QED  BY <2>1, <2>2, <2>3, <3>1, <3>2 DEF Examined
  <2>5. CASE maxCompatible # Undefined /\ ~(limit < maxCompatible)
    <3>1. maxCompatible' = maxCompatible
      BY <2>1, <2>5
    <3>2. ASSUME NEW v \in current .. maxCompatible, v \in found PROVE FALSE
      <4>1. v \in current .. limit
        BY <1>0, <2>5
      <4>. QED  BY <2>2, <2>3, <2>5, <3>2, <4>1
    <3>. QED  BY <2>1, <2>2, <2>5, <3>1, <3>2 DEF Examined
  <2>. QED  BY <2>4, <2>5
<1>5. CASE Finish
  <2>1. /\ ~Examined /\ ~Examined' /\ current' = current /\ found' = found
        /\ maxCompatible' = maxCompatible /\ pc # "failed"
    BY <1>5 DEF Finish, Examined
  <2>. QED  BY <2>1 DEF FoundInv
<1>6. CASE UNCHANGED vars
  <2>1. /\ pc' = pc /\ current' = current /\ found' = found /\ Failed' = Failed
        /\ maxCompatible' = maxCompatible
    BY <1>6 DEF vars, Failed, Releases
  <2>. QED  BY <2>1, pc' # "failed" DEF FoundInv, Examined
<1>. QED  BY <1>1, <1>2, <1>3, <1>4, <1>5, <1>6 DEF Next

\* The invariant holds in every state the role reaches.
THEOREM Invariance == Spec => []IInv
<1>1. IInv /\ [Next]_vars => IInv'
  BY TypeKept, FilterKept, LimitKept, FoundKept DEF IInv
<1>. QED  BY <1>1, InitOK, PTL DEF Spec

-----------------------------------------------------------------------------
(* What follows from it.                                                   *)

\* The facts, and the variables of the filter, keep their types; the role has a limit
\* once a namespace is examined.
THEOREM TypeCorrect == Spec => []TypeOK
BY Invariance, PTL DEF IInv

\* The filter marks a version compatible exactly if nothing the workload uses is removed
\* on the way to it, although it does not carry all removed APIs along.
THEOREM FilterIsExact == Spec => []CompatibleIsExact
<1>1. IInv => CompatibleIsExact
  BY DEF IInv, FilterInv, CompatibleIsExact
<1>. QED  BY <1>1, Invariance, PTL

\* Up to the highest compatible version nothing is removed that any namespace uses, in
\* this run of the role and in those before the last upgrades.
THEOREM SoundLimit == Spec => []LimitIsSound
<1>1. IInv => LimitIsSound
  <2>. SUFFICES ASSUME IInv, pc \in {"namespace", "idle"}, maxCompatible # Undefined
                PROVE  \A v \in current .. (IF maxCompatible = Unlimited THEN MaxMinor
                                            ELSE maxCompatible) : v \notin found
    BY DEF LimitIsSound
  <2>1. \A v \in current .. maxCompatible : v \notin found
    BY DEF IInv, FoundInv, Examined
  <2>. QED  BY <2>1 DEF Unlimited, MaxMinor
<1>. QED  BY <1>1, Invariance, PTL

\* The version after the highest compatible one removes what some namespace uses.
THEOREM HighestLimit == Spec => []LimitIsHighest
<1>1. IInv => LimitIsHighest
  BY DEF IInv, FoundInv, LimitIsHighest
<1>. QED  BY <1>1, Invariance, PTL

\* A declaration preflight accepts names no version, from the cluster's on, that removes
\* what a namespace uses.
THEOREM AcceptedAreCompatible == Spec => []AcceptedIsCompatible
<1>1. IInv => AcceptedIsCompatible
  <2>. SUFFICES ASSUME IInv, pc = "idle", maxCompatible # Undefined,
                       NEW d \in Declared, Accepted(d)
                PROVE  \A v \in current .. (IF d.kind = "unlimited" THEN MaxMinor ELSE d.max) :
                         v \notin found
    BY DEF AcceptedIsCompatible
  <2>1. \A v \in current .. maxCompatible : v \notin found
    BY DEF IInv, FoundInv, Examined
  <2>2. current \in Int /\ maxCompatible \in Int /\ d.max \in Int
    BY MaxVersionIs DEF IInv, TypeOK, Limits, Minors, MaxMinor, Undefined, Unlimited, Declared
  <2>3. CASE d.kind = "unlimited"
    BY <2>1, <2>3 DEF Accepted, Unlimited, MaxMinor
  <2>4. CASE d.kind # "unlimited"
    <3>1. ~(maxCompatible <= d.max)
      BY <2>4 DEF Accepted
    <3>2. \A v \in current .. d.max : v \in current .. maxCompatible
      BY <2>2, <3>1
    <3>. QED  BY <2>1, <2>4, <3>2
  <2>. QED  BY <2>3, <2>4
<1>. QED  BY <1>1, Invariance, PTL

-----------------------------------------------------------------------------
(* The invariant of the roles of JUnit reports.                            *)

\* The suites of a report hold its cases.
Report   == Seq(Seq(Case))
Cases(r) == UNION {ToSet(r[i]) : i \in DOMAIN r}

Truthful(r) ==
  \A case \in Cases(r) : \A k \in DOMAIN case.result :
    case.result[k].kind \in {"failure", "error"} => case.result[k].status # "passed"

\* Reports that cannot be converted.
Bad(r)      == Junit2obj(r) = Broken
Original(p) == p.name # "merged" /\ xml[p] # None /\ Bad(xml[p])

\* A merged report is as good as the reports the tests have left.
FilesInv ==
  /\ \A p \in Path : xml[p] \in Report => Truthful(xml[p])
  /\ \A p \in Path : p.name = "merged" => xml[p] # Broken
  /\ \A p \in Path : xml[p] # None /\ Bad(xml[p]) => \E q \in Path : Original(q)

\* A path that leads nowhere is owed to a report of the tests.
ListInv ==
  \A k \in 1 .. Len(list) : json[list[k]] = None =>
    \E q \in Path : Original(q) /\ list[k].name \in {q.name, "merged"}

\* The first n inputs are there, in the order they were given.
Expanded(n) ==
  /\ Len(reports) = n
  /\ \A k \in 1 .. n : reports[k] = run.inputs[k] /\ xml[run.inputs[k]] # None

\* The first n inputs are converted, but for those overwritten by a later one.
Output(k) == At(run.dir, run.inputs[k].name)
Converted(n) ==
  /\ Len(list) = listed + n
  /\ \A k \in 1 .. n :
       /\ list[listed + k] = Output(k) /\ json[Output(k)] # None /\ ~Bad(xml[run.inputs[k]])
       /\ (\A l \in k + 1 .. n : run.inputs[l].name # run.inputs[k].name)
            => json[Output(k)] = Junit2obj(xml[run.inputs[k]])

\* The merged report holds the suites of all inputs, which are reports.
Consolidated ==
  /\ stdout \in Report
  /\ \A k \in DOMAIN run.inputs : xml[run.inputs[k]] \in Report
  /\ ToSet(stdout) = UNION {ToSet(xml[run.inputs[k]]) : k \in DOMAIN run.inputs}

\* How far the conversion has come.
ConvertInv ==
  /\ task \in {"expand", "merge", "convert"} => Len(run.inputs) > 0
  /\ task = "expand" =>
       item <= Len(run.inputs) /\ Expanded(item - 1) /\ Len(list) = listed
  /\ task = "merge" =>
       item = 1 /\ run.merge /\ Expanded(Len(run.inputs)) /\ Len(list) = listed
  /\ task = "convert" =>
       IF run.merge
       THEN item = 1 /\ Len(reports) = 1 /\ Len(list) = listed /\ Consolidated
       ELSE item <= Len(run.inputs) /\ Expanded(Len(run.inputs)) /\ Converted(item - 1)
  /\ RunConverts /\ FailsForCause

\* What an entry of tests_to_verify asks, merged reports included.
Named(k) == {p \in Path : p.dir = "logs" /\ p.name \in tests[k].filename /\ xml[p] # None}
AsExpected(k, p) ==
  xml[p] # Broken /\ RegexDiff(tests[k].expected, Junit2dict(xml[p])) = {}
Verified(k) == (Named(k) # {} \/ skip) /\ \A p \in Named(k) : AsExpected(k, p)

\* How far the verification has come, and its verdict.
VerifyInv ==
  /\ task \in {"read", "parse"} => item <= Len(tests) /\ \A k \in 1 .. item - 1 : Verified(k)
  /\ task = "parse" =>
       /\ files # {} /\ files \subseteq Named(item)
       /\ \A p \in Named(item) \ files : AsExpected(item, p)
  /\ task = "idle" /\ ended[1] = "verify_tests" =>
       (ended[2] = "ok" <=> \A k \in 1 .. Len(tests) : Verified(k))

ReportsInv == JRTypeOK /\ FilesInv /\ ListInv /\ ConvertInv /\ VerifyInv

-----------------------------------------------------------------------------
(* Sequences of sequences.                                                 *)

\* A set of numbers has a least one.
LEMMA LeastExists ==
  ASSUME NEW T \in SUBSET Nat, T # {}
  PROVE  \E m \in T : \A n \in T : m <= n
<1>. DEFINE R == OpToRel(<, Nat)
<1>1. PICK m \in T : \A n \in T : ~ (<<n, m>> \in R)
  <2>1. IsWellFoundedOn(R, Nat)
    BY NatLessThanWellFounded
  <2>. HIDE DEF R
  <2>. QED  BY <2>1, WFMin
<1>2. ASSUME NEW n \in T PROVE m <= n
  <2>1. m \in Nat /\ n \in Nat
    OBVIOUS
  <2>2. n < m => <<n, m>> \in R
    BY <2>1, Zenon DEF OpToRel
  <2>3. ~ (n < m)
    BY <1>1, <2>2
  <2>. HIDE DEF R
  <2>. QED  BY <2>1, <2>3
<1>. QED  BY <1>2

\* The function FlattenSeq is defined by, on the first n elements of a sequence.
Chain(s, n, f) == f = [i \in 1 .. n |-> IF i = 1 THEN s[i] ELSE f[i - 1] \o s[i]]

\* There is one.
LEMMA ChainExists ==
  ASSUME NEW s, NEW n \in Nat
  PROVE  \E f : Chain(s, n, f)
<1>. DEFINE T == {m \in Nat : ~ \E f : Chain(s, m, f)}
<1>. SUFFICES ASSUME T # {} PROVE FALSE
  BY Zenon
<1>1. PICK m \in T : \A n_1 \in T : m <= n_1
  <2>1. T \in SUBSET Nat
    OBVIOUS
  <2>. HIDE DEF T
  <2>. QED  BY <2>1, LeastExists
<1>2. m \in Nat /\ ~ \E f : Chain(s, m, f)
  OBVIOUS
<1>3. m # 0
  <2>. SUFFICES ASSUME m = 0 PROVE FALSE
    OBVIOUS
  <2>1. Chain(s, 0, [i \in {} |-> {}])
    BY DEF Chain
  <2>. QED  BY <1>2, <2>1
<1>4. m - 1 \in Nat /\ ~ (m <= m - 1)
  BY <1>2, <1>3
<1>5. PICK f : Chain(s, m - 1, f)
  BY <1>1, <1>4
<1>. DEFINE g == [i \in 1 .. m |-> IF i = m THEN IF m = 1 THEN s[m] ELSE f[m - 1] \o s[m] ELSE f[i]]
<1>6. Chain(s, m, g)
  <2>1. ASSUME NEW i \in 1 .. m
        PROVE  g[i] = IF i = 1 THEN s[i] ELSE g[i - 1] \o s[i]
    <3>1. CASE i = m
      <4>1. CASE m = 1
        BY <3>1, <4>1
      <4>2. CASE m # 1
        <5>1. m - 1 \in 1 .. m /\ m - 1 # m
          BY <1>2, <1>3, <4>2
        <5>. QED  BY <3>1, <4>2, <5>1
      <4>. QED  BY <4>1, <4>2
    <3>2. CASE i # m
      <4>1. i \in 1 .. m - 1
        BY <1>2, <3>2
      <4>2. f[i] = IF i = 1 THEN s[i] ELSE f[i - 1] \o s[i]
        BY <1>5, <4>1 DEF Chain
      <4>3. CASE i = 1
        BY <3>2, <4>2, <4>3
      <4>4. CASE i # 1
        <5>1. i - 1 \in 1 .. m /\ i - 1 # m
          BY <1>2, <3>2, <4>4
        <5>. QED  BY <3>2, <4>2, <4>4, <5>1
      <4>. QED  BY <4>3, <4>4
    <3>. QED  BY <3>1, <3>2
  <2>2. g = [i \in 1 .. m |-> g[i]]
    OBVIOUS
  <2>. HIDE DEF g
  <2>. QED  BY <2>1, <2>2 DEF Chain
<1>. QED  BY <1>2, <1>6

\* FlattenSeq does not choose in vain.
LEMMA FlattenIs ==
  ASSUME NEW s, Len(s) \in Nat \ {0}
  PROVE  \E f : Chain(s, Len(s), f) /\ FlattenSeq(s) = f[Len(s)]
<1>1. PICK f : Chain(s, Len(s), f)
  BY ChainExists
<1>. DEFINE h == CHOOSE f_1 : f_1 = [i \in 1 .. Len(s) |-> IF i = 1 THEN s[i] ELSE f_1[i - 1] \o s[i]]
<1>2. Chain(s, Len(s), h)
  BY <1>1, Zenon DEF Chain
<1>3. FlattenSeq(s) = h[Len(s)]
  BY Zenon DEF FlattenSeq
<1>. QED  BY <1>2, <1>3

\* Two sequences put together have the elements of both.
LEMMA ConcatElements ==
  ASSUME NEW S, NEW s \in Seq(S), NEW t \in Seq(S)
  PROVE  s \o t \in Seq(S) /\ ToSet(s \o t) = ToSet(s) \cup ToSet(t)
<1>. DEFINE u == s \o t
<1>1. /\ u \in Seq(S) /\ Len(u) = Len(s) + Len(t)
      /\ \A i \in 1 .. Len(s) + Len(t) : u[i] = IF i <= Len(s) THEN s[i] ELSE t[i - Len(s)]
  BY ConcatProperties
<1>2. /\ Len(s) \in Nat /\ Len(t) \in Nat /\ DOMAIN s = 1 .. Len(s) /\ DOMAIN t = 1 .. Len(t)
      /\ DOMAIN u = 1 .. Len(s) + Len(t)
  BY <1>1, LenProperties
<1>. HIDE DEF u
<1>3. ASSUME NEW i \in DOMAIN u PROVE u[i] \in ToSet(s) \cup ToSet(t)
  <2>1. CASE i <= Len(s)
    <3>1. i \in DOMAIN s /\ u[i] = s[i]
      BY <1>1, <1>2, <2>1
    <3>. QED  BY <3>1 DEF ToSet
  <2>2. CASE ~(i <= Len(s))
    <3>1. i - Len(s) \in DOMAIN t /\ u[i] = t[i - Len(s)]
      BY <1>1, <1>2, <2>2
    <3>. QED  BY <3>1 DEF ToSet
  <2>. QED  BY <2>1, <2>2
<1>4. ASSUME NEW i \in DOMAIN s PROVE s[i] \in ToSet(u)
  <2>1. i \in DOMAIN u /\ u[i] = s[i]
    BY <1>1, <1>2
  <2>. QED  BY <2>1 DEF ToSet
<1>5. ASSUME NEW i \in DOMAIN t PROVE t[i] \in ToSet(u)
  <2>1. i + Len(s) \in DOMAIN u /\ ~(i + Len(s) <= Len(s)) /\ (i + Len(s)) - Len(s) = i
    BY <1>2
  <2>2. u[i + Len(s)] = t[i]
    BY <1>1, <1>2, <2>1
  <2>. QED  BY <2>1, <2>2 DEF ToSet
<1>6. ToSet(u) = ToSet(s) \cup ToSet(t)
  BY <1>3, <1>4, <1>5 DEF ToSet
<1>. QED  BY <1>1, <1>6 DEF u

\* A sequence of sequences, flattened, has their elements, and no other.
LEMMA FlattenElements ==
  ASSUME NEW S, NEW s \in Seq(Seq(S))
  PROVE  FlattenSeq(s) \in Seq(S) /\ ToSet(FlattenSeq(s)) = UNION {ToSet(s[i]) : i \in DOMAIN s}
<1>1. Len(s) \in Nat /\ DOMAIN s = 1 .. Len(s) /\ \A i \in 1 .. Len(s) : s[i] \in Seq(S)
  BY LenProperties, ElementOfSeq
<1>2. CASE Len(s) = 0
  <2>1. s = <<>> /\ FlattenSeq(s) = <<>>
    BY <1>1, <1>2, EmptySeq DEF FlattenSeq
  <2>2. ToSet(<<>>) = {} /\ <<>> \in Seq(S) /\ DOMAIN s = {}
    BY <1>1, <1>2 DEF ToSet
  <2>. QED  BY <2>1, <2>2
<1>3. CASE Len(s) # 0
  <2>1. PICK f : Chain(s, Len(s), f) /\ FlattenSeq(s) = f[Len(s)]
    BY <1>1, <1>3, FlattenIs
  <2>2. \A i \in 1 .. Len(s) : f[i] = IF i = 1 THEN s[i] ELSE f[i - 1] \o s[i]
    BY <2>1 DEF Chain
  <2>. DEFINE Flat(m) == f[m] \in Seq(S) /\ ToSet(f[m]) = UNION {ToSet(s[i]) : i \in 1 .. m}
              T == {m \in 1 .. Len(s) : ~Flat(m)}
  <2>3. ASSUME NEW m \in 1 .. Len(s), \A n \in T : m <= n PROVE Flat(m)
    <3>1. CASE m = 1
      <4>1. f[m] = s[1] /\ s[1] \in Seq(S) /\ 1 .. m = {1}
        BY <1>1, <2>2, <3>1
      <4>2. UNION {ToSet(s[i]) : i \in {1}} = ToSet(s[1])
        OBVIOUS
      <4>. QED  BY <4>1, <4>2
    <3>2. CASE m # 1
      <4>1. m - 1 \in 1 .. Len(s) /\ ~(m <= m - 1)
        BY <1>1, <3>2
      <4>2. Flat(m - 1)
        BY <2>3, <4>1
      <4>3. f[m] = f[m - 1] \o s[m] /\ s[m] \in Seq(S)
        BY <1>1, <2>2, <3>2
      <4>4. f[m] \in Seq(S) /\ ToSet(f[m]) = ToSet(f[m - 1]) \cup ToSet(s[m])
        BY <4>2, <4>3, ConcatElements
      <4>5. 1 .. m = (1 .. m - 1) \cup {m}
        BY <1>1, <4>1
      <4>6. UNION {ToSet(s[i]) : i \in (1 .. m - 1) \cup {m}}
              = (UNION {ToSet(s[i]) : i \in 1 .. m - 1}) \cup ToSet(s[m])
        OBVIOUS
      <4>. QED  BY <4>2, <4>4, <4>5, <4>6
    <3>. QED  BY <3>1, <3>2
  <2>4. T = {}
    <3>. SUFFICES ASSUME T # {} PROVE FALSE
      OBVIOUS
    <3>1. T \in SUBSET Nat
      BY <1>1
    <3>2. PICK m \in T : \A n \in T : m <= n
      <4>. HIDE DEF T
      <4>. QED  BY <3>1, LeastExists
    <3>3. m \in 1 .. Len(s) /\ ~Flat(m)
      BY <3>2
    <3>4. Flat(m)
      BY <2>3, <3>2, <3>3
    <3>. QED  BY <3>3, <3>4
  <2>5. Flat(Len(s))
    <3>1. Len(s) \in 1 .. Len(s)
      BY <1>1, <1>3
    <3>. HIDE DEF Flat
    <3>. QED  BY <2>4, <3>1
  <2>. QED  BY <1>1, <2>1, <2>5
<1>. QED  BY <1>2, <1>3

\* Functions on the first numbers are sequences.
LEMMA FunctionIsSeq ==
  ASSUME NEW S, NEW n \in Nat, NEW f \in [1 .. n -> S]
  PROVE  f \in Seq(S) /\ Len(f) = n /\ DOMAIN f = 1 .. n
<1>1. f \in Seq(S)
  BY SeqDef
<1>2. DOMAIN f = 1 .. n /\ DOMAIN f = 1 .. Len(f) /\ Len(f) \in Nat
  BY <1>1, LenProperties
<1>3. Len(f) = n
  BY <1>2
<1>. QED  BY <1>1, <1>2, <1>3

LEMMA SingletonIs ==
  ASSUME NEW S, NEW e \in S
  PROVE  <<e>> \in Seq(S) /\ Len(<<e>>) = 1 /\ <<e>>[1] = e /\ DOMAIN <<e>> = {1}
OBVIOUS

\* The elements of a sequence are those at its positions.
LEMMA ElementsAt ==
  ASSUME NEW S, NEW s \in Seq(S)
  PROVE  /\ DOMAIN s = 1 .. Len(s) /\ Len(s) \in Nat
         /\ ToSet(s) = {s[i] : i \in DOMAIN s} /\ ToSet(s) \subseteq S
         /\ \A i \in DOMAIN s : s[i] \in S
<1>1. DOMAIN s = 1 .. Len(s) /\ Len(s) \in Nat /\ \A i \in 1 .. Len(s) : s[i] \in S
  BY LenProperties, ElementOfSeq
<1>2. ToSet(s) = {s[i] : i \in DOMAIN s}
  BY DEF ToSet
<1>. QED  BY <1>1, <1>2

-----------------------------------------------------------------------------
(* Reports.                                                                *)

\* What is no report, before or after the conversion.
LEMMA ReportsAre ==
  Report = Seq(Seq(Case)) /\ None \notin Report /\ Broken \notin Report /\ None # Broken
  /\ None # "passed" /\ None \notin Seq(Seq(Entry)) /\ Broken \notin Seq(Seq(Entry))
BY NoReports DEF Report

\* The suites of a report, put together, are its cases.
LEMMA CasesAre ==
  ASSUME NEW r \in Report
  PROVE  /\ FlattenSeq(r) \in Seq(Case) /\ ToSet(FlattenSeq(r)) = Cases(r)
         /\ Cases(r) \subseteq Case
         /\ Cases(r) = UNION {ToSet(suite) : suite \in ToSet(r)}
<1>1. FlattenSeq(r) \in Seq(Case) /\ ToSet(FlattenSeq(r)) = Cases(r)
  BY FlattenElements DEF Report, Cases
<1>2. Cases(r) \subseteq Case
  BY <1>1, ElementsAt
<1>3. Cases(r) = UNION {ToSet(suite) : suite \in ToSet(r)}
  BY DEF Cases, ToSet
<1>. QED  BY <1>1, <1>2, <1>3

\* What becomes of a case.
LEMMA EntryOf ==
  ASSUME NEW case \in Case
  PROVE  /\ case.name \in STRING /\ case.result \in Seq(Result)
         /\ DOMAIN case.result = 1 .. Len(case.result) /\ Len(case.result) \in Nat
         /\ \A k \in DOMAIN case.result : case.result[k] \in Result
         /\ (case.result = <<>> <=> DOMAIN case.result = {})
         /\ ProcessTestCase(case) \in Entry /\ ProcessTestCase(case).name = case.name
         /\ IF case.result = <<>>
            THEN ProcessTestCase(case).result = <<"passed">>
            ELSE /\ DOMAIN ProcessTestCase(case).result = DOMAIN case.result
                 /\ Len(ProcessTestCase(case).result) = Len(case.result)
                 /\ \A k \in DOMAIN case.result :
                      ProcessTestCase(case).result[k] = case.result[k].status
<1>1. case.name \in STRING /\ case.result \in Seq(Result)
  BY DEF Case
<1>. DEFINE s == case.result
<1>2. /\ DOMAIN s = 1 .. Len(s) /\ Len(s) \in Nat
      /\ \A k \in DOMAIN s : s[k] \in Result /\ s[k].status \in STRING \cup {None}
  <2>1. s \in Seq(Result)
    BY <1>1
  <2>. HIDE DEF s
  <2>2. DOMAIN s = 1 .. Len(s) /\ Len(s) \in Nat /\ \A k \in DOMAIN s : s[k] \in Result
    BY <2>1, ElementsAt
  <2>. QED  BY <2>2 DEF Result
<1>3. s = <<>> <=> DOMAIN s = {}
  BY <1>1, <1>2, EmptySeq
<1>4. CASE s = <<>>
  <2>1. ProcessTestCase(case) = [name |-> case.name, result |-> <<"passed">>]
    BY <1>4 DEF ProcessTestCase
  <2>2. <<"passed">> \in Seq(STRING \cup {"passed", None})
    OBVIOUS
  <2>. QED  BY <1>1, <1>2, <1>3, <1>4, <2>1, <2>2 DEF Entry
<1>5. CASE s # <<>>
  <2>. DEFINE t == [k \in DOMAIN s |-> s[k].status]
  <2>1. ProcessTestCase(case) = [name |-> case.name, result |-> t]
    BY <1>5 DEF ProcessTestCase
  <2>2. t \in [1 .. Len(s) -> STRING \cup {"passed", None}]
    BY <1>2
  <2>3. t \in Seq(STRING \cup {"passed", None}) /\ Len(t) = Len(s) /\ DOMAIN t = DOMAIN s
    BY <1>2, <2>2, FunctionIsSeq
  <2>4. \A k \in DOMAIN s : t[k] = s[k].status
    OBVIOUS
  <2>. HIDE DEF t
  <2>. QED  BY <1>1, <1>2, <1>3, <1>5, <2>1, <2>3, <2>4 DEF Entry
<1>. QED  BY <1>4, <1>5

\* The suites of a report, converted.
Told(r) == [k \in DOMAIN r |-> ProcessTestSuite(r[k])]

\* They hold an entry for each case.
LEMMA ToldIs ==
  ASSUME NEW r \in Report
  PROVE  /\ Told(r) \in Seq(Seq(Entry))
         /\ ToSet(FlattenSeq(Told(r))) = {ProcessTestCase(case) : case \in Cases(r)}
<1>1. DOMAIN r = 1 .. Len(r) /\ Len(r) \in Nat /\ \A i \in DOMAIN r : r[i] \in Seq(Case)
  BY ElementsAt DEF Report
<1>2. ASSUME NEW i \in DOMAIN r
      PROVE  /\ Told(r)[i] \in Seq(Entry)
             /\ ToSet(Told(r)[i]) = {ProcessTestCase(case) : case \in ToSet(r[i])}
  <2>1. /\ DOMAIN r[i] = 1 .. Len(r[i]) /\ Len(r[i]) \in Nat
        /\ \A k \in DOMAIN r[i] : r[i][k] \in Case
        /\ ToSet(r[i]) = {r[i][k] : k \in DOMAIN r[i]}
    BY <1>1, ElementsAt
  <2>. DEFINE u == [k \in DOMAIN r[i] |-> ProcessTestCase(r[i][k])]
  <2>2. Told(r)[i] = u
    BY DEF Told, ProcessTestSuite
  <2>3. \A k \in DOMAIN r[i] : ProcessTestCase(r[i][k]) \in Entry
    BY <2>1, EntryOf
  <2>4. u \in [1 .. Len(r[i]) -> Entry]
    BY <2>1, <2>3
  <2>5. u \in Seq(Entry) /\ DOMAIN u = DOMAIN r[i]
    BY <2>1, <2>4, FunctionIsSeq
  <2>6. ToSet(u) = {ProcessTestCase(r[i][k]) : k \in DOMAIN r[i]}
    BY DEF ToSet
  <2>7. {ProcessTestCase(r[i][k]) : k \in DOMAIN r[i]}
          = {ProcessTestCase(case) : case \in {r[i][k] : k \in DOMAIN r[i]}}
    OBVIOUS
  <2>. QED  BY <2>1, <2>2, <2>5, <2>6, <2>7
<1>3. DOMAIN Told(r) = DOMAIN r /\ Told(r) \in [1 .. Len(r) -> Seq(Entry)]
  <2>1. Told(r) = [k \in DOMAIN r |-> Told(r)[k]] /\ DOMAIN Told(r) = DOMAIN r
    BY DEF Told
  <2>. QED  BY <1>1, <1>2, <2>1
<1>4. Told(r) \in Seq(Seq(Entry))
  BY <1>1, <1>3, FunctionIsSeq
<1>5. ToSet(FlattenSeq(Told(r))) = UNION {ToSet(Told(r)[i]) : i \in DOMAIN r}
  BY <1>3, <1>4, FlattenElements
<1>6. UNION {ToSet(Told(r)[i]) : i \in DOMAIN r}
        = UNION {{ProcessTestCase(case) : case \in ToSet(r[i])} : i \in DOMAIN r}
  BY <1>2
<1>7. UNION {{ProcessTestCase(case) : case \in ToSet(r[i])} : i \in DOMAIN r}
        = {ProcessTestCase(case) : case \in UNION {ToSet(r[i]) : i \in DOMAIN r}}
  OBVIOUS
<1>. QED  BY <1>4, <1>5, <1>6, <1>7 DEF Cases

\* A report cannot be converted when a result has neither a type nor a message.
LEMMA BadIs ==
  ASSUME NEW r \in Report
  PROVE  /\ Bad(r) <=> \E case \in Cases(r) : \E k \in DOMAIN case.result :
                         case.result[k].status = None
         /\ ~Bad(r) => Junit2obj(r) = Told(r) /\ Junit2obj(r) \in Seq(Seq(Entry))
<1>. DEFINE Raises == \E k \in DOMAIN FlattenSeq(r) :
                        None \in ToSet(ProcessTestCase(FlattenSeq(r)[k]).result)
<1>1. Junit2obj(r) = IF Raises THEN Broken ELSE Told(r)
  BY ReportsAre DEF Junit2obj, Told
<1>2. Told(r) \in Seq(Seq(Entry)) /\ Told(r) # Broken
  BY ToldIs, ReportsAre
<1>3. ToSet(FlattenSeq(r)) = {FlattenSeq(r)[k] : k \in DOMAIN FlattenSeq(r)}
  BY CasesAre, ElementsAt
<1>4. Raises <=> \E case \in Cases(r) : None \in ToSet(ProcessTestCase(case).result)
  BY <1>3, CasesAre
<1>5. ASSUME NEW case \in Cases(r)
      PROVE  None \in ToSet(ProcessTestCase(case).result)
               <=> \E k \in DOMAIN case.result : case.result[k].status = None
  <2>1. case \in Case
    BY CasesAre
  <2>2. CASE case.result = <<>>
    <3>1. ProcessTestCase(case).result = <<"passed">> /\ DOMAIN case.result = {}
      BY <2>1, <2>2, EntryOf
    <3>2. ToSet(<<"passed">>) = {"passed"}
      BY DEF ToSet
    <3>. QED  BY <3>1, <3>2, ReportsAre
  <2>3. CASE case.result # <<>>
    <3>1. /\ DOMAIN ProcessTestCase(case).result = DOMAIN case.result
          /\ \A k \in DOMAIN case.result :
               ProcessTestCase(case).result[k] = case.result[k].status
      BY <2>1, <2>3, EntryOf
    <3>. QED  BY <3>1 DEF ToSet
  <2>. QED  BY <2>2, <2>3
<1>. HIDE DEF Raises
<1>. QED  BY <1>1, <1>2, <1>4, <1>5 DEF Bad

\* The filter takes no file that is not a report.
LEMMA BrokenIsBad == Bad(Broken)
BY DEF Bad, Junit2obj

\* What is converted tells all that the cases of a truthful report hold.
LEMMA ConvertedTells ==
  ASSUME NEW r \in Report, Truthful(r), ~Bad(r), NEW case \in Cases(r)
  PROVE  Tells(Junit2obj(r), case)
<1>. DEFINE entry == ProcessTestCase(case)
<1>1. case \in Case
  BY CasesAre
<1>2. Junit2obj(r) = Told(r) /\ entry \in ToSet(FlattenSeq(Told(r)))
  BY BadIs, ToldIs
<1>3. entry.name = case.name
  BY <1>1, EntryOf
<1>4. Len(entry.result) >= Len(case.result)
  <2>1. Len(<<"passed">>) = 1 /\ Len(<<>>) = 0 /\ Len(case.result) \in Nat
    BY <1>1, EntryOf
  <2>2. CASE case.result = <<>>
    <3>1. entry.result = <<"passed">>
      BY <1>1, <2>2, EntryOf
    <3>2. Len(entry.result) = 1 /\ Len(case.result) = 0
      BY <2>1, <2>2, <3>1
    <3>. HIDE DEF entry
    <3>. QED  BY <3>2
  <2>3. CASE case.result # <<>>
    <3>1. Len(entry.result) = Len(case.result)
      BY <1>1, <2>3, EntryOf
    <3>. HIDE DEF entry
    <3>. QED  BY <2>1, <3>1
  <2>. QED  BY <2>2, <2>3
<1>5. ASSUME Fails(case) PROVE \E k \in DOMAIN entry.result : entry.result[k] # "passed"
  <2>1. PICK k \in DOMAIN case.result : case.result[k].kind \in {"failure", "error"}
    BY <1>5 DEF Fails
  <2>2. case.result[k].status # "passed"
    BY <2>1 DEF Truthful
  <2>3. case.result # <<>>
    BY <1>1, <2>1, EntryOf
  <2>4. k \in DOMAIN entry.result /\ entry.result[k] = case.result[k].status
    BY <1>1, <2>1, <2>3, EntryOf
  <2>. QED  BY <2>2, <2>4
<1>. HIDE DEF entry
<1>. QED  BY <1>2, <1>3, <1>4, <1>5 DEF Tells

\* A merged report has the suites of all its inputs; a broken input breaks it.
LEMMA MergedIs ==
  ASSUME xml \in [Path -> Report \cup {Broken, None}], NEW paths \in Seq(Path),
         \A k \in DOMAIN paths : xml[paths[k]] # None
  PROVE  IF \E k \in DOMAIN paths : xml[paths[k]] = Broken
         THEN Merged(paths) = Broken
         ELSE /\ Merged(paths) \in Report
              /\ \A k \in DOMAIN paths : xml[paths[k]] \in Report
              /\ ToSet(Merged(paths)) = UNION {ToSet(xml[paths[k]]) : k \in DOMAIN paths}
<1>1. CASE \E k \in DOMAIN paths : xml[paths[k]] = Broken
  BY <1>1 DEF Merged
<1>2. CASE ~\E k \in DOMAIN paths : xml[paths[k]] = Broken
  <2>. DEFINE s == [k \in DOMAIN paths |-> xml[paths[k]]]
  <2>1. Merged(paths) = FlattenSeq(s)
    BY <1>2 DEF Merged
  <2>2. DOMAIN paths = 1 .. Len(paths) /\ Len(paths) \in Nat /\ \A k \in DOMAIN paths : paths[k] \in Path
    BY ElementsAt
  <2>3. \A k \in DOMAIN paths : xml[paths[k]] \in Report
    BY <1>2, <2>2
  <2>4. s \in [1 .. Len(paths) -> Report] /\ DOMAIN s = DOMAIN paths
    BY <2>2, <2>3
  <2>5. s \in Seq(Seq(Seq(Case)))
    BY <2>2, <2>4, FunctionIsSeq DEF Report
  <2>6. FlattenSeq(s) \in Report /\ ToSet(FlattenSeq(s)) = UNION {ToSet(s[k]) : k \in DOMAIN paths}
    BY <2>4, <2>5, FlattenElements DEF Report
  <2>7. UNION {ToSet(s[k]) : k \in DOMAIN paths} = UNION {ToSet(xml[paths[k]]) : k \in DOMAIN paths}
    OBVIOUS
  <2>. HIDE DEF s
  <2>. QED  BY <1>2, <2>1, <2>3, <2>6, <2>7
<1>. QED  BY <1>1, <1>2

Skipped(case) == \E k \in DOMAIN case.result : case.result[k].kind = "skipped"

\* A case passes when it has not failed, or was skipped.
LEMMA PassesIs ==
  ASSUME NEW case \in Case
  PROVE  Passes(case) <=> ~Fails(case) \/ Skipped(case)
<1>1. /\ case.result = <<>> <=> DOMAIN case.result = {}
      /\ \A k \in DOMAIN case.result : case.result[k].kind \in {"skipped", "failure", "error"}
  BY EntryOf DEF Result
<1>. QED  BY <1>1 DEF Passes, Fails, Skipped

\* There are no differences when every expectation is met.
LEMMA NoDifferences ==
  ASSUME NEW r \in Report, NEW expected \in Seq([testcase : SUBSET STRING, passed : BOOLEAN])
  PROVE  RegexDiff(expected, Junit2dict(r)) = {}
           <=> \A l \in DOMAIN expected : Met(expected[l], r)
<1>. DEFINE actual == Junit2dict(r)
            cases  == FlattenSeq(r)
<1>1. /\ DOMAIN actual = DOMAIN cases
      /\ \A k \in DOMAIN cases :
           actual[k].testcase = cases[k].name /\ actual[k].passed = Passes(cases[k])
  BY DEF Junit2dict
<1>2. ToSet(cases) = {cases[k] : k \in DOMAIN cases} /\ \A k \in DOMAIN cases : cases[k] \in Case
  BY CasesAre, ElementsAt
<1>. HIDE DEF actual, cases
<1>3. ASSUME NEW l \in DOMAIN expected
      PROVE  Differences(expected[l], actual) = {} <=> Met(expected[l], r)
  <2>. DEFINE e == expected[l]
              F == {case \in ToSet(cases) : case.name \in e.testcase}
  <2>1. e.passed \in BOOLEAN
    <3>1. e \in [testcase : SUBSET STRING, passed : BOOLEAN]
      BY ElementsAt
    <3>. HIDE DEF e
    <3>. QED  BY <3>1
  <2>. HIDE DEF e
  <2>2. Differences(e, actual) = {} <=> Found(e, actual) # {} /\ Wrong(e, actual) = {}
    BY DEF Differences
  <2>3. Found(e, actual) # {} <=> F # {}
    BY <1>1, <1>2 DEF Found
  <2>4. Wrong(e, actual) = {} <=> \A case \in F : Passes(case) = e.passed
    <3>1. Wrong(e, actual)
            = {k \in DOMAIN cases : cases[k].name \in e.testcase /\ Passes(cases[k]) # e.passed}
      BY <1>1 DEF Wrong, Found
    <3>. QED  BY <1>2, <3>1
  <2>5. Met(e, r) <=> F # {} /\ \A case \in F : e.passed = (~Fails(case) \/ Skipped(case))
    BY Zenon DEF Met, Skipped, cases
  <2>6. \A case \in F : case \in Case
    BY <1>2
  <2>7. ASSUME NEW case \in F
        PROVE  Passes(case) = e.passed <=> e.passed = (~Fails(case) \/ Skipped(case))
    <3>1. Passes(case) <=> ~Fails(case) \/ Skipped(case)
      BY <2>6, PassesIs
    <3>2. Passes(case) \in BOOLEAN
      BY DEF Passes
    <3>. QED  BY <2>1, <3>1, <3>2
  <2>. HIDE DEF F
  <2>8. Differences(e, actual) = {} <=> Met(e, r)
    BY <2>2, <2>3, <2>4, <2>5, <2>7
  <2>. QED  BY <2>8 DEF e
<1>4. RegexDiff(expected, actual) = {} <=> \A l \in DOMAIN expected : Differences(expected[l], actual) = {}
  BY DEF RegexDiff
<1>. QED  BY <1>3, <1>4 DEF actual

-----------------------------------------------------------------------------
(* What the roles are given.                                               *)

\* A path is a folder and a name.
LEMMA PathsAre ==
  /\ \A p \in Path : p.dir \in {"logs", "other", "out"} /\ p.name \in {"r1", "r2", "merged"}
  /\ \A dir \in {"logs", "other", "out"}, name \in {"r1", "r2", "merged"} :
       At(dir, name) \in Path /\ At(dir, name).dir = dir /\ At(dir, name).name = name
  /\ \A p \in Path : p = At(p.dir, p.name)
BY DEF Path, At

\* The inputs of junit2json are a sequence of paths.
LEMMA ParamsAre ==
  ASSUME NEW p \in Params
  PROVE  /\ p.inputs \in Seq(Path) /\ p.merge \in BOOLEAN /\ p.dir \in {"logs", "out"}
         /\ Len(p.inputs) \in Nat /\ DOMAIN p.inputs = 1 .. Len(p.inputs)
         /\ \A k \in DOMAIN p.inputs : p.inputs[k] \in Path
         /\ p.inputs = <<>> <=> Len(p.inputs) = 0
<1>1. /\ p.inputs \in UNION {[1 .. n -> Path] : n \in 0 .. MaxInputs}
      /\ p.merge \in BOOLEAN /\ p.dir \in {"logs", "out"}
  BY DEF Params
<1>2. PICK n \in 0 .. MaxInputs : p.inputs \in [1 .. n -> Path]
  BY <1>1
<1>3. n \in Nat
  BY CountsAssumption
<1>4. p.inputs \in Seq(Path)
  BY <1>2, <1>3, FunctionIsSeq
<1>. QED  BY <1>1, <1>4, ElementsAt, EmptySeq

\* Entries of tests_to_verify: a pattern, and a list of expected results each.
LEMMA TestsAre ==
  ASSUME NEW t \in Tests \cup {<<>>}
  PROVE  /\ Len(t) \in Nat /\ DOMAIN t = 1 .. Len(t) /\ (t \in Tests => Len(t) > 0)
         /\ \A k \in DOMAIN t :
              /\ t[k].filename \in Patterns
              /\ t[k].expected \in Seq([testcase : SUBSET STRING, passed : BOOLEAN])
<1>. DEFINE S == [filename : Patterns, expected : Expected]
<1>1. CASE t \in Tests
  <2>1. PICK n \in 1 .. MaxTests : t \in [1 .. n -> S]
    BY <1>1 DEF Tests
  <2>2. n \in Nat /\ n > 0
    BY <2>1, CountsAssumption
  <2>. HIDE DEF S
  <2>3. Len(t) = n /\ DOMAIN t = 1 .. n /\ \A k \in DOMAIN t : t[k] \in S
    BY <2>1, <2>2, FunctionIsSeq
  <2>. QED  BY <2>2, <2>3, ExpectedAssumption DEF S
<1>2. CASE t = <<>>
  <2>1. <<>> \in Seq(S) /\ Len(<<>>) = 0
    BY EmptySeq
  <2>2. t \notin Tests
    <3>. SUFFICES ASSUME t \in Tests PROVE FALSE
      OBVIOUS
    <3>1. PICK n \in 1 .. MaxTests : t \in [1 .. n -> S]
      BY DEF Tests
    <3>2. n \in Nat /\ n > 0
      BY <3>1, CountsAssumption
    <3>. HIDE DEF S
    <3>3. Len(t) = n
      BY <3>1, <3>2, FunctionIsSeq
    <3>. QED  BY <1>2, <2>1, <3>2, <3>3
  <2>. QED  BY <1>2, <2>1, <2>2
<1>. QED  BY <1>1, <1>2

\* No tool says of a failure that it passed.
LEMMA ToolsAreTruthful ==
  ASSUME NEW r \in Reports
  PROVE  r \in Report /\ Truthful(r)
<1>1. r \in Report
  BY ReportsAssumption DEF Report
<1>2. ToSet(FlattenSeq(r)) = Cases(r)
  BY <1>1, CasesAre
<1>. QED  BY <1>1, <1>2, StatusAssumption DEF Truthful

-----------------------------------------------------------------------------
(* It holds at the start, and every step keeps it.                         *)

\* What the tests have left satisfies it.
LEMMA StartsRight == JRInit => ReportsInv
<1>. SUFFICES ASSUME JRInit PROVE ReportsInv
  OBVIOUS
<1>1. PICK left \in Left :
        xml = [p \in Path |-> CASE p = At("logs", "r1") -> left[1]
                                [] p = At("logs", "r2") -> left[2]
                                [] p = At("other", "r1") -> left[3]
                                [] OTHER -> None]
  BY DEF JRInit
<1>2. \A v \in {left[1], left[2], left[3]} : v \in Reports \cup {Broken, None}
  BY LeftAssumption
<1>3. ASSUME NEW p \in Path
      PROVE  xml[p] \in Reports \cup {Broken, None} /\ (p.name = "merged" => xml[p] = None)
  <2>1. xml[p] = CASE p = At("logs", "r1") -> left[1]
                   [] p = At("logs", "r2") -> left[2]
                   [] p = At("other", "r1") -> left[3]
                   [] OTHER -> None
    BY <1>1
  <2>2. xml[p] \in {left[1], left[2], left[3], None}
    BY <2>1
  <2>3. p.name = "merged" => p \notin {At("logs", "r1"), At("logs", "r2"), At("other", "r1")}
    BY DEF At
  <2>. QED  BY <1>2, <2>1, <2>2, <2>3
<1>4. JRTypeOK
  <2>1. xml \in [Path -> Seq(Seq(Case)) \cup {Broken, None}]
    <3>1. DOMAIN xml = Path /\ xml = [p \in Path |-> xml[p]]
      BY <1>1
    <3>2. \A p \in Path : xml[p] \in Seq(Seq(Case)) \cup {Broken, None}
      BY <1>3, ReportsAssumption
    <3>. QED  BY <3>1, <3>2
  <2>2. json \in [Path -> Seq(Seq(Entry)) \cup {None}]
    BY DEF JRInit
  <2>3. list = <<>> /\ list \in Seq(Path) /\ reports \in Seq(Path) /\ Len(list) = 0 /\ listed = 0
    BY EmptySeq DEF JRInit
  <2>4. run \in Params
    <3>1. <<>> \in [1 .. 0 -> Path]
      OBVIOUS
    <3>2. 0 \in 0 .. MaxInputs
      BY CountsAssumption
    <3>. QED  BY <3>1, <3>2 DEF JRInit, NoRun, Params
  <2>5. roles \in 0 .. MaxRoles
    BY CountsAssumption DEF JRInit
  <2>6. /\ task = "idle" /\ dirs = {"logs", "other"} /\ item = 1 /\ tests = <<>> /\ skip = FALSE
        /\ files = {} /\ ended = <<"none", "none">> /\ stdout = None
    BY DEF JRInit
  <2>7. listed \in 0 .. Len(list)
    BY <2>3
  <2>8. /\ task \in {"idle", "expand", "merge", "convert", "read", "parse"}
        /\ dirs \subseteq {"logs", "other", "out"}
    BY <2>6
  <2>9. item \in Nat \ {0} /\ skip \in BOOLEAN /\ files \subseteq Path
    <3>1. item \in Nat \ {0} /\ files \subseteq Path
      BY <2>6
    <3>2. skip \in BOOLEAN
      BY <2>6, Zenon
    <3>. QED  BY <3>1, <3>2
  <2>10. stdout \in Seq(Seq(Case)) \cup {Broken, None} /\ tests \in Tests \cup {<<>>}
    BY <2>6
  <2>11. ended \in {<<"none", "none">>} \cup ({"junit2json", "verify_tests"} \X {"ok", "failed"})
    BY <2>6
  <2>. QED
    BY <2>1, <2>2, <2>3, <2>4, <2>5, <2>7, <2>8, <2>9, <2>10, <2>11 DEF JRTypeOK
<1>5. FilesInv
  <2>1. \A p \in Path : xml[p] \in Report => Truthful(xml[p])
    BY <1>3, ToolsAreTruthful, ReportsAre
  <2>. QED  BY <1>3, <2>1, ReportsAre DEF FilesInv, Original
<1>6. ListInv
  <2>1. Len(list) = 0
    BY EmptySeq DEF JRInit
  <2>. QED  BY <2>1 DEF ListInv
<1>7. ConvertInv
  BY DEF JRInit, ConvertInv, RunConverts, FailsForCause, Ended
<1>8. VerifyInv
  BY DEF JRInit, VerifyInv
<1>. QED  BY <1>4, <1>5, <1>6, <1>7, <1>8 DEF ReportsInv

\* How a role may end.
LEMMA EndsRight ==
  ASSUME NEW role \in {"junit2json", "verify_tests"}, NEW how \in {"ok", "failed"}
  PROVE  <<role, how>> \in {<<"none", "none">>} \cup ({"junit2json", "verify_tests"} \X {"ok", "failed"})
OBVIOUS

\* The position of the inputs and tests that the loops take.
LEMMA Positions ==
  ASSUME ReportsInv
  PROVE  /\ task = "expand" => item \in DOMAIN run.inputs /\ run.inputs[item] \in Path
         /\ task = "merge" => \A k \in DOMAIN run.inputs : reports[k] = run.inputs[k]
         /\ task = "merge" => DOMAIN reports = DOMAIN run.inputs
         /\ task = "convert" /\ ~run.merge =>
              /\ item \in DOMAIN run.inputs /\ run.inputs[item] \in Path
              /\ reports[item] = run.inputs[item] /\ Len(reports) = Len(run.inputs)
         /\ task \in {"read", "parse"} => item \in DOMAIN tests
<1>1. /\ DOMAIN run.inputs = 1 .. Len(run.inputs) /\ Len(run.inputs) \in Nat
      /\ \A k \in DOMAIN run.inputs : run.inputs[k] \in Path
  BY ParamsAre DEF ReportsInv, JRTypeOK
<1>2. DOMAIN tests = 1 .. Len(tests) /\ Len(tests) \in Nat
  BY TestsAre DEF ReportsInv, JRTypeOK
<1>3. item \in Nat \ {0} /\ DOMAIN reports = 1 .. Len(reports)
  BY ElementsAt DEF ReportsInv, JRTypeOK
<1>4. CASE task = "expand"
  BY <1>1, <1>3, <1>4 DEF ReportsInv, ConvertInv
<1>5. CASE task = "merge"
  BY <1>1, <1>3, <1>5 DEF ReportsInv, ConvertInv, Expanded
<1>6. CASE task = "convert"
  BY <1>1, <1>3, <1>6 DEF ReportsInv, ConvertInv, Expanded
<1>7. CASE task \in {"read", "parse"}
  BY <1>2, <1>3, <1>7 DEF ReportsInv, VerifyInv
<1>. QED  BY <1>4, <1>5, <1>6, <1>7

\* Every step keeps the types.
LEMMA TypeSteps == ReportsInv /\ [JRNext]_jrVars => JRTypeOK'
<1>. SUFFICES ASSUME ReportsInv, [JRNext]_jrVars PROVE JRTypeOK'
  OBVIOUS
<1>. USE DEF disk, conversion, verification
<1>0. JRTypeOK
  BY DEF ReportsInv
<1>1. /\ task \in {"idle", "expand", "merge", "convert", "read", "parse"}
      /\ xml \in [Path -> Seq(Seq(Case)) \cup {Broken, None}]
      /\ json \in [Path -> Seq(Seq(Entry)) \cup {None}] /\ dirs \subseteq {"logs", "other", "out"}
      /\ list \in Seq(Path) /\ reports \in Seq(Path) /\ run \in Params /\ item \in Nat \ {0}
      /\ listed \in 0 .. Len(list) /\ stdout \in Seq(Seq(Case)) \cup {Broken, None}
      /\ tests \in Tests \cup {<<>>} /\ files \subseteq Path /\ roles \in 0 .. MaxRoles
  BY <1>0 DEF JRTypeOK
<1>2. Len(list) \in Nat /\ MaxRoles \in Nat
  BY <1>1, LenProperties, CountsAssumption
<1>3. ASSUME NEW p \in Params, Convert(p) PROVE JRTypeOK'
  <2>1. listed' \in 0 .. Len(list') /\ roles' \in 0 .. MaxRoles
    BY <1>1, <1>2, <1>3 DEF Convert
  <2>2. reports' \in Seq(Path) /\ run' \in Params /\ item' \in Nat \ {0}
    BY <1>3, EmptySeq DEF Convert
  <2>3. /\ task' \in {"idle", "expand"}
        /\ ended' \in {<<"none", "none">>} \cup ({"junit2json", "verify_tests"} \X {"ok", "failed"})
    BY <1>0, <1>3, EndsRight DEF Convert, End, JRTypeOK
  <2>. QED  BY <1>0, <1>3, <2>1, <2>2, <2>3 DEF Convert, JRTypeOK
<1>4. ASSUME Expand PROVE JRTypeOK'
  <2>1. run.inputs[item] \in Path
    BY <1>4, Positions DEF Expand
  <2>2. reports' \in Seq(Path) /\ item' \in Nat \ {0}
    <3>1. Append(reports, run.inputs[item]) \in Seq(Path)
      BY <1>1, <2>1, AppendProperties
    <3>2. reports' \in Seq(Path)
      BY <1>1, <1>4, <3>1 DEF Expand
    <3>3. item' \in Nat \ {0}
      BY <1>1, <1>4 DEF Expand
    <3>. QED  BY <3>2, <3>3
  <2>3. /\ task' \in {"idle", "expand", "merge", "convert"}
        /\ ended' \in {<<"none", "none">>} \cup ({"junit2json", "verify_tests"} \X {"ok", "failed"})
    BY <1>0, <1>4, EndsRight DEF Expand, End, JRTypeOK
  <2>. QED  BY <1>0, <1>4, <2>2, <2>3 DEF Expand, JRTypeOK
<1>5. ASSUME Merge PROVE JRTypeOK'
  <2>1. \A k \in DOMAIN reports : xml[reports[k]] # None
    BY <1>5, Positions DEF Merge, ReportsInv, ConvertInv, Expanded
  <2>2. stdout' \in Seq(Seq(Case)) \cup {Broken}
    <3>1. Merged(reports) \in Report \cup {Broken}
      BY <1>1, <2>1, MergedIs DEF Report
    <3>. QED  BY <1>5, <3>1 DEF Merge, Report
  <2>3. At(run.dir, "merged") \in Path
    BY <1>1, ParamsAre, PathsAre
  <2>4. xml' \in [Path -> Seq(Seq(Case)) \cup {Broken, None}]
    BY <1>1, <1>5, <2>2 DEF Merge
  <2>5. reports' \in Seq(Path)
    <3>1. <<At(run.dir, "merged")>> \in Seq(Path)
      BY <2>3, SingletonIs
    <3>. QED  BY <1>1, <1>5, <3>1 DEF Merge, MergedList
  <2>6. /\ task' \in {"idle", "convert"}
        /\ ended' \in {<<"none", "none">>} \cup ({"junit2json", "verify_tests"} \X {"ok", "failed"})
    BY <1>0, <1>5, EndsRight DEF Merge, End, JRTypeOK
  <2>. QED  BY <1>0, <1>5, <2>2, <2>4, <2>5, <2>6 DEF Merge, JRTypeOK
<1>6. ASSUME WriteReport PROVE JRTypeOK'
  <2>. DEFINE path == At(run.dir, IF run.merge THEN "merged" ELSE reports[item].name)
              data == Junit2obj(IF run.merge THEN stdout ELSE xml[reports[item]])
  <2>1. path \in Path
    <3>1. task = "convert" /\ run.merge \in BOOLEAN /\ run.dir \in {"logs", "other", "out"}
      BY <1>1, <1>6, ParamsAre DEF WriteReport
    <3>2. ~run.merge => reports[item].name \in {"r1", "r2", "merged"}
      BY <3>1, Positions, PathsAre
    <3>. QED  BY <3>1, <3>2, PathsAre
  <2>2. list' \in Seq(Path) /\ Len(list') = Len(list) + 1
    <3>. HIDE DEF path
    <3>1. list' = Append(list, path)
      BY <1>6 DEF WriteReport, path
    <3>. QED  BY <1>1, <2>1, <3>1, AppendProperties
  <2>3. listed' \in 0 .. Len(list')
    BY <1>1, <1>2, <1>6, <2>2 DEF WriteReport
  <2>4. data # Broken => data \in Seq(Seq(Entry))
    <3>1. (IF run.merge THEN stdout ELSE xml[reports[item]]) \in Report \cup {Broken}
      <4>1. task = "convert"
        BY <1>6 DEF WriteReport
      <4>2. run.merge => stdout \in Report
        BY <4>1 DEF ReportsInv, ConvertInv, Consolidated
      <4>3. ~run.merge => xml[reports[item]] \in Report \cup {Broken}
        BY <1>1, <4>1, Positions, ParamsAre DEF ReportsInv, ConvertInv, Expanded, Report
      <4>. QED  BY <4>2, <4>3
    <3>. QED  BY <3>1, BadIs, BrokenIsBad DEF Bad
  <2>5. json' \in [Path -> Seq(Seq(Entry)) \cup {None}]
    BY <1>1, <1>6, <2>4 DEF WriteReport, Written
  <2>6. /\ task' \in {"idle", "convert"} /\ item' \in Nat \ {0}
        /\ ended' \in {<<"none", "none">>} \cup ({"junit2json", "verify_tests"} \X {"ok", "failed"})
    BY <1>0, <1>6, EndsRight DEF WriteReport, End, JRTypeOK
  <2>7. dirs' \subseteq {"logs", "other", "out"}
    BY <1>1, <1>6, ParamsAre DEF WriteReport
  <2>. QED  BY <1>0, <1>6, <2>2, <2>3, <2>5, <2>6, <2>7 DEF WriteReport, JRTypeOK
<1>7. ASSUME NEW t \in Tests, NEW s \in BOOLEAN, Verify(t, s) PROVE JRTypeOK'
  <2>1. roles' \in 0 .. MaxRoles
    BY <1>1, <1>2, <1>7 DEF Verify
  <2>2. task' = "read" /\ tests' \in Tests \cup {<<>>} /\ files' \subseteq Path /\ item' \in Nat \ {0}
    BY <1>7 DEF Verify
  <2>3. skip' \in BOOLEAN
    BY <1>7, Zenon DEF Verify
  <2>. QED  BY <1>0, <1>7, <2>1, <2>2, <2>3 DEF Verify, JRTypeOK
<1>8. ASSUME NextTest
      PROVE  /\ task' \in {"idle", "read"} \cup {task} /\ item' \in Nat \ {0}
             /\ ended' \in {<<"none", "none">>} \cup ({"junit2json", "verify_tests"} \X {"ok", "failed"})
  BY <1>0, <1>8, EndsRight DEF NextTest, End, JRTypeOK
<1>9. ASSUME ReadJunitFiles PROVE JRTypeOK'
  <2>1. files' \subseteq Path
    BY <1>9 DEF ReadJunitFiles
  <2>2. /\ task' \in {"idle", "expand", "merge", "convert", "read", "parse"} /\ item' \in Nat \ {0}
        /\ ended' \in {<<"none", "none">>} \cup ({"junit2json", "verify_tests"} \X {"ok", "failed"})
    BY <1>0, <1>8, <1>9, EndsRight DEF ReadJunitFiles, End, JRTypeOK
  <2>. QED  BY <1>0, <1>9, <2>1, <2>2 DEF ReadJunitFiles, JRTypeOK
<1>10. ASSUME NEW file \in Path, ParseJunitFile(file) PROVE JRTypeOK'
  <2>1. files' \subseteq Path
    BY <1>1, <1>10 DEF ParseJunitFile
  <2>2. /\ task' \in {"idle", "expand", "merge", "convert", "read", "parse"} /\ item' \in Nat \ {0}
        /\ ended' \in {<<"none", "none">>} \cup ({"junit2json", "verify_tests"} \X {"ok", "failed"})
    BY <1>0, <1>8, <1>10, EndsRight DEF ParseJunitFile, End, JRTypeOK
  <2>. QED  BY <1>0, <1>10, <2>1, <2>2 DEF ParseJunitFile, JRTypeOK
<1>11. CASE UNCHANGED jrVars
  BY <1>0, <1>11 DEF JRTypeOK, jrVars
<1>. QED  BY <1>3, <1>4, <1>5, <1>6, <1>7, <1>9, <1>10, <1>11 DEF JRNext

\* What a merged report holds.
LEMMA MergeHolds ==
  ASSUME ReportsInv, task = "merge"
  PROVE  /\ \A k \in DOMAIN run.inputs : run.inputs[k] \in Path /\ xml[run.inputs[k]] # None
         /\ IF \E k \in DOMAIN run.inputs : xml[run.inputs[k]] = Broken
            THEN Merged(reports) = Broken
            ELSE /\ Merged(reports) \in Report
                 /\ \A k \in DOMAIN run.inputs : xml[run.inputs[k]] \in Report
                 /\ ToSet(Merged(reports)) = UNION {ToSet(xml[run.inputs[k]]) : k \in DOMAIN run.inputs}
<1>1. /\ xml \in [Path -> Report \cup {Broken, None}] /\ reports \in Seq(Path)
      /\ DOMAIN run.inputs = 1 .. Len(run.inputs)
      /\ \A k \in DOMAIN run.inputs : run.inputs[k] \in Path
  BY ParamsAre DEF ReportsInv, JRTypeOK, Report
<1>2. DOMAIN reports = DOMAIN run.inputs /\ \A k \in DOMAIN run.inputs : reports[k] = run.inputs[k]
  BY Positions
<1>3. \A k \in DOMAIN run.inputs : xml[run.inputs[k]] # None
  BY <1>1 DEF ReportsInv, ConvertInv, Expanded
<1>4. \A k \in DOMAIN reports : xml[reports[k]] # None
  BY <1>2, <1>3
<1>5. UNION {ToSet(xml[reports[k]]) : k \in DOMAIN reports}
        = UNION {ToSet(xml[run.inputs[k]]) : k \in DOMAIN run.inputs}
  BY <1>2
<1>6. IF \E k \in DOMAIN reports : xml[reports[k]] = Broken
      THEN Merged(reports) = Broken
      ELSE /\ Merged(reports) \in Report
           /\ \A k \in DOMAIN reports : xml[reports[k]] \in Report
           /\ ToSet(Merged(reports)) = UNION {ToSet(xml[reports[k]]) : k \in DOMAIN reports}
  BY <1>1, <1>4, MergedIs
<1>. QED  BY <1>1, <1>2, <1>3, <1>5, <1>6

\* Reports with the suites of others: their cases are those of the others.
LEMMA SuitesCases ==
  ASSUME NEW r \in Report, NEW paths, NEW content,
         \A k \in DOMAIN paths : content[paths[k]] \in Report,
         ToSet(r) = UNION {ToSet(content[paths[k]]) : k \in DOMAIN paths}
  PROVE  /\ \A case : case \in Cases(r) <=> \E k \in DOMAIN paths : case \in Cases(content[paths[k]])
         /\ (\A k \in DOMAIN paths : Truthful(content[paths[k]])) => Truthful(r)
         /\ Bad(r) <=> \E k \in DOMAIN paths : Bad(content[paths[k]])
<1>1. \A case : case \in Cases(r) <=> \E k \in DOMAIN paths : case \in Cases(content[paths[k]])
  <2>1. Cases(r) = UNION {ToSet(suite) : suite \in ToSet(r)}
    BY CasesAre
  <2>2. \A k \in DOMAIN paths :
          Cases(content[paths[k]]) = UNION {ToSet(suite) : suite \in ToSet(content[paths[k]])}
    BY CasesAre
  <2>. QED  BY <2>1, <2>2
<1>2. (\A k \in DOMAIN paths : Truthful(content[paths[k]])) => Truthful(r)
  BY <1>1 DEF Truthful
<1>3. Bad(r) <=> \E k \in DOMAIN paths : Bad(content[paths[k]])
  <2>1. Bad(r) <=> \E case \in Cases(r) : \E k \in DOMAIN case.result : case.result[k].status = None
    BY BadIs
  <2>2. \A k \in DOMAIN paths :
          Bad(content[paths[k]]) <=> \E case \in Cases(content[paths[k]]) :
                                       \E l \in DOMAIN case.result : case.result[l].status = None
    BY BadIs
  <2>. QED  BY <1>1, <2>1, <2>2
<1>. QED  BY <1>1, <1>2, <1>3

\* A report that cannot be converted is owed to one of the tests.
LEMMA OwedToTests ==
  ASSUME ReportsInv, NEW p \in Path, xml[p] # None, Bad(xml[p])
  PROVE  \E q \in Path : Original(q) /\ p.name \in {q.name, "merged"}
<1>1. CASE p.name = "merged"
  BY <1>1 DEF ReportsInv, FilesInv
<1>2. CASE p.name # "merged"
  BY <1>2 DEF Original
<1>. QED  BY <1>1, <1>2

\* Only the merge writes reports, and only over an earlier merged one.
LEMMA FilesSteps == ReportsInv /\ [JRNext]_jrVars => FilesInv'
<1>. SUFFICES ASSUME ReportsInv, [JRNext]_jrVars PROVE FilesInv'
  OBVIOUS
<1>1. FilesInv
  BY DEF ReportsInv
<1>2. CASE UNCHANGED xml
  BY <1>1, <1>2 DEF FilesInv, Original
<1>3. CASE Merge /\ xml' # xml
  <2>. DEFINE M == At(run.dir, "merged")
              r == Merged(reports)
  <2>1. r # Broken /\ xml' = [xml EXCEPT ![M] = r]
    BY <1>3 DEF Merge
  <2>2. M \in Path /\ M.name = "merged"
    BY ParamsAre, PathsAre DEF ReportsInv, JRTypeOK
  <2>3. /\ \A k \in DOMAIN run.inputs : run.inputs[k] \in Path /\ xml[run.inputs[k]] \in Report
        /\ r \in Report
        /\ ToSet(r) = UNION {ToSet(xml[run.inputs[k]]) : k \in DOMAIN run.inputs}
    BY <1>3, <2>1, MergeHolds DEF Merge
  <2>. HIDE DEF M, r
  <2>4. /\ (\A k \in DOMAIN run.inputs : Truthful(xml[run.inputs[k]])) => Truthful(r)
        /\ Bad(r) <=> \E k \in DOMAIN run.inputs : Bad(xml[run.inputs[k]])
    <3>. DEFINE paths == run.inputs
    <3>. HIDE DEF paths
    <3>1. /\ \A k \in DOMAIN paths : xml[paths[k]] \in Report
          /\ ToSet(r) = UNION {ToSet(xml[paths[k]]) : k \in DOMAIN paths}
      BY <2>3 DEF paths
    <3>2. /\ (\A k \in DOMAIN paths : Truthful(xml[paths[k]])) => Truthful(r)
          /\ Bad(r) <=> \E k \in DOMAIN paths : Bad(xml[paths[k]])
      BY <2>3, <3>1, SuitesCases
    <3>. QED  BY <3>2 DEF paths
  <2>5. Truthful(r)
    BY <1>1, <2>3, <2>4 DEF FilesInv
  <2>6. \A q \in Path : xml'[q] = IF q = M THEN r ELSE xml[q]
    BY <2>1 DEF ReportsInv, JRTypeOK
  <2>7. ASSUME NEW q \in Path, Original(q) PROVE Original(q)'
    BY <2>2, <2>6, <2>7 DEF Original
  <2>8. ASSUME NEW p \in Path, xml'[p] # None, Bad(xml'[p]) PROVE \E q \in Path : Original(q)'
    <3>1. \E q \in Path : xml[q] # None /\ Bad(xml[q])
      <4>1. CASE p = M
        BY <2>3, <2>4, <2>6, <2>8, <4>1, ReportsAre
      <4>2. CASE p # M
        BY <2>6, <2>8, <4>2
      <4>. QED  BY <4>1, <4>2
    <3>. QED  BY <1>1, <2>7, <3>1 DEF FilesInv
  <2>9. \A p \in Path : xml'[p] \in Report => Truthful(xml'[p])
    BY <1>1, <2>5, <2>6 DEF FilesInv
  <2>10. \A p \in Path : p.name = "merged" => xml'[p] # Broken
    BY <1>1, <2>3, <2>6, ReportsAre DEF FilesInv
  <2>. QED  BY <2>8, <2>9, <2>10 DEF FilesInv
<1>4. UNCHANGED xml \/ (Merge /\ xml' # xml)
  BY DEF JRNext, jrVars, disk, Convert, Expand, WriteReport, Verify, ReadJunitFiles, ParseJunitFile
<1>. QED  BY <1>2, <1>3, <1>4

\* The list grows before its file is written, which fails only for a bad report.
LEMMA ListSteps == ReportsInv /\ [JRNext]_jrVars => ListInv'
<1>. SUFFICES ASSUME ReportsInv, [JRNext]_jrVars PROVE ListInv'
  OBVIOUS
<1>1. ListInv
  BY DEF ReportsInv
<1>2. \A k \in 1 .. Len(list) : list[k] \in Path
  BY ElementsAt DEF ReportsInv, JRTypeOK
<1>3. CASE UNCHANGED <<xml, json, list>>
  BY <1>1, <1>3 DEF ListInv, Original
<1>4. CASE Merge
  <2>1. UNCHANGED <<json, list>>
    BY <1>4 DEF Merge
  <2>2. ASSUME NEW q \in Path, Original(q) PROVE Original(q)'
    <3>1. q.name # "merged"
      BY <2>2 DEF Original
    <3>2. q # At(run.dir, "merged")
      BY <3>1 DEF At
    <3>3. xml'[q] = xml[q]
      BY <1>4, <3>2 DEF Merge, ReportsInv, JRTypeOK
    <3>. QED  BY <2>2, <3>3 DEF Original
  <2>. QED  BY <1>1, <2>1, <2>2 DEF ListInv
<1>5. CASE WriteReport
  <2>. DEFINE path == At(run.dir, IF run.merge THEN "merged" ELSE reports[item].name)
              data == Junit2obj(IF run.merge THEN stdout ELSE xml[reports[item]])
  <2>1. task = "convert" /\ UNCHANGED xml
    BY <1>5 DEF WriteReport
  <2>2. /\ list' = Append(list, path)
        /\ IF data = Broken THEN UNCHANGED json ELSE json' = [json EXCEPT ![path] = data]
    BY <1>5 DEF WriteReport, Written
  <2>3. path \in Path /\ path.name = IF run.merge THEN "merged" ELSE reports[item].name
    <3>1. run.merge \in BOOLEAN /\ run.dir \in {"logs", "other", "out"}
      BY ParamsAre DEF ReportsInv, JRTypeOK
    <3>2. ~run.merge => reports[item].name \in {"r1", "r2", "merged"}
      BY <2>1, <3>1, Positions, PathsAre
    <3>. QED  BY <3>1, <3>2, PathsAre
  <2>4. data # Broken => data # None
    <3>1. run.merge => stdout \in Report
      BY <2>1 DEF ReportsInv, ConvertInv, Consolidated
    <3>2. ~run.merge => xml[reports[item]] \in Report \cup {Broken}
      BY <2>1, Positions, ParamsAre DEF ReportsInv, ConvertInv, Expanded, Report, JRTypeOK
    <3>. QED  BY <3>1, <3>2, BadIs, BrokenIsBad, ReportsAre DEF Bad
  <2>5. data = Broken => \E q \in Path : Original(q) /\ path.name \in {q.name, "merged"}
    <3>. SUFFICES ASSUME data = Broken
                  PROVE  \E q \in Path : Original(q) /\ path.name \in {q.name, "merged"}
      OBVIOUS
    <3>1. CASE run.merge
      <4>. DEFINE paths == run.inputs
      <4>1. Bad(stdout)
        BY <3>1 DEF Bad
      <4>2. stdout \in Report /\ \A k \in DOMAIN paths : paths[k] \in Path /\ xml[paths[k]] \in Report
        BY <2>1, <3>1, ParamsAre DEF ReportsInv, JRTypeOK, ConvertInv, Consolidated
      <4>3. ToSet(stdout) = UNION {ToSet(xml[paths[k]]) : k \in DOMAIN paths}
        BY <2>1, <3>1 DEF ReportsInv, ConvertInv, Consolidated
      <4>. HIDE DEF paths
      <4>4. PICK k \in DOMAIN paths : Bad(xml[paths[k]])
        BY <4>1, <4>2, <4>3, SuitesCases
      <4>. QED  BY <2>3, <3>1, <4>2, <4>4, OwedToTests, ReportsAre
    <3>2. CASE ~run.merge
      <4>1. reports[item] \in Path /\ xml[reports[item]] # None
        BY <2>1, <3>2, Positions, ParamsAre DEF ReportsInv, JRTypeOK, ConvertInv, Expanded
      <4>2. Bad(xml[reports[item]])
        BY <3>2 DEF Bad
      <4>. QED  BY <2>3, <3>2, <4>1, <4>2, OwedToTests
    <3>. QED  BY <3>1, <3>2
  <2>. HIDE DEF path, data
  <2>6. list \in Seq(Path) /\ Len(list) \in Nat /\ DOMAIN json = Path
    BY LenProperties DEF ReportsInv, JRTypeOK
  <2>7. /\ Len(list') = Len(list) + 1 /\ list'[Len(list) + 1] = path
        /\ \A k \in 1 .. Len(list) : list'[k] = list[k]
    BY <2>2, <2>3, <2>6, AppendProperties
  <2>8. \A q \in Path : Original(q) => Original(q)'
    BY <2>1 DEF Original
  <2>9. ASSUME NEW k \in 1 .. Len(list'), json'[list'[k]] = None
        PROVE  \E q \in Path : Original(q) /\ list'[k].name \in {q.name, "merged"}
    <3>1. CASE k = Len(list) + 1
      <4>1. list'[k] = path
        BY <2>7, <3>1
      <4>2. data = Broken
        BY <2>2, <2>3, <2>4, <2>6, <2>9, <4>1
      <4>. QED  BY <2>5, <4>1, <4>2
    <3>2. CASE k # Len(list) + 1
      <4>1. k \in 1 .. Len(list) /\ list'[k] = list[k]
        BY <2>6, <2>7, <3>2
      <4>2. json[list[k]] = None
        BY <1>2, <2>2, <2>3, <2>4, <2>6, <2>9, <4>1
      <4>. QED  BY <1>1, <4>1, <4>2 DEF ListInv
    <3>. QED  BY <3>1, <3>2
  <2>. QED  BY <2>8, <2>9 DEF ListInv
<1>6. UNCHANGED <<xml, json, list>> \/ Merge \/ WriteReport
  BY DEF JRNext, jrVars, disk, Convert, Expand, Verify, ReadJunitFiles, ParseJunitFile
<1>. QED  BY <1>3, <1>4, <1>5, <1>6

\* Steps that do not end a run of junit2json well, or not at all.
LEMMA NotYetEnded ==
  ASSUME task' # "idle" \/ ended'[1] = "verify_tests"
  PROVE  RunConverts' /\ FailsForCause'
BY DEF RunConverts, FailsForCause, Ended

\* Steps with which a run fails for its inputs or its folder.
LEMMA EndedBadly ==
  ASSUME End("junit2json", "failed"), BadInputs' \/ (run'.merge /\ run'.dir \notin dirs')
  PROVE  ConvertInv'
BY DEF ConvertInv, RunConverts, FailsForCause, Ended, End

\* One more input is found, or the run fails for it.
LEMMA ExpandStep == ReportsInv /\ Expand => ConvertInv'
<1>. SUFFICES ASSUME ReportsInv, Expand PROVE ConvertInv'
  OBVIOUS
<1>. DEFINE file == run.inputs[item]
<1>1. task = "expand" /\ UNCHANGED <<xml, json, dirs, list, run, stdout, listed>>
  BY DEF Expand, disk
<1>2. item \in DOMAIN run.inputs /\ item \in Nat \ {0}
  BY <1>1, Positions DEF ReportsInv, JRTypeOK
<1>3. /\ Len(run.inputs) \in Nat /\ Len(run.inputs) > 0 /\ item <= Len(run.inputs)
      /\ Expanded(item - 1) /\ Len(list) = listed /\ run.merge \in BOOLEAN
  BY <1>1, ParamsAre DEF ReportsInv, JRTypeOK, ConvertInv
<1>4. CASE xml[file] = None /\ End("junit2json", "failed")
  <2>1. BadInputs'
    BY <1>1, <1>2, <1>4 DEF BadInputs
  <2>. QED  BY <1>4, <2>1, EndedBadly
<1>5. CASE /\ xml[file] # None
           /\ reports' = Append(reports, file)
           /\ IF item < Len(run.inputs)
              THEN item' = item + 1 /\ UNCHANGED task
              ELSE item' = 1 /\ task' = IF run.merge THEN "merge" ELSE "convert"
  <2>1. /\ Len(reports') = item
        /\ \A k \in 1 .. item : reports'[k] = run'.inputs[k] /\ xml'[run'.inputs[k]] # None
    <3>1. reports \in Seq(Path) /\ file \in Path /\ Len(reports) = item - 1
      BY <1>1, <1>3, Positions DEF ReportsInv, JRTypeOK, Expanded
    <3>. HIDE DEF file
    <3>2. /\ Len(reports') = item /\ reports'[item] = file
          /\ \A k \in 1 .. item - 1 : reports'[k] = reports[k]
      BY <1>2, <1>5, <3>1, AppendProperties
    <3>3. ASSUME NEW k \in 1 .. item
          PROVE  reports'[k] = run.inputs[k] /\ xml[run.inputs[k]] # None
      <4>1. CASE k = item
        BY <1>5, <3>2, <4>1 DEF file
      <4>2. CASE k # item
        BY <1>2, <1>3, <3>2, <4>2 DEF Expanded
      <4>. QED  BY <4>1, <4>2
    <3>. QED  BY <1>1, <3>2, <3>3
  <2>2. RunConverts' /\ FailsForCause'
    BY <1>1, <1>5, NotYetEnded
  <2>3. CASE item < Len(run.inputs)
    <3>1. task' = "expand" /\ item' = item + 1 /\ item' <= Len(run.inputs) /\ item' - 1 = item
      BY <1>1, <1>2, <1>3, <1>5, <2>3
    <3>2. Expanded(item - 1)'
      BY <2>1, <3>1 DEF Expanded
    <3>. QED  BY <1>1, <1>3, <2>2, <3>1, <3>2 DEF ConvertInv
  <2>4. CASE ~(item < Len(run.inputs))
    <3>1. item = Len(run.inputs) /\ item' = 1 /\ task' = IF run.merge THEN "merge" ELSE "convert"
      BY <1>2, <1>3, <1>5, <2>4
    <3>2. Expanded(Len(run.inputs))'
      BY <1>1, <2>1, <3>1 DEF Expanded
    <3>3. Converted(item - 1)'
      <4>1. Len(list) \in Nat
        BY LenProperties DEF ReportsInv, JRTypeOK
      <4>. QED  BY <1>1, <1>3, <3>1, <4>1 DEF Converted
    <3>. QED  BY <1>1, <1>3, <2>2, <3>1, <3>2, <3>3 DEF ConvertInv
  <2>. QED  BY <2>3, <2>4
<1>. QED  BY <1>4, <1>5 DEF Expand

\* An input may be the merged report of an earlier run, which is overwritten.
LEMMA MergeStep == ReportsInv /\ Merge => ConvertInv'
<1>. SUFFICES ASSUME ReportsInv, Merge PROVE ConvertInv'
  OBVIOUS
<1>. DEFINE r == Merged(reports)
<1>1. task = "merge" /\ stdout' = r /\ UNCHANGED <<json, dirs, list, run, item, listed>>
  BY DEF Merge
<1>2. /\ item = 1 /\ run.merge /\ Len(list) = listed /\ Len(run.inputs) > 0
      /\ DOMAIN run.inputs = 1 .. Len(run.inputs)
  BY <1>1, ParamsAre DEF ReportsInv, JRTypeOK, ConvertInv
<1>3. CASE (r = Broken \/ CannotWrite) /\ End("junit2json", "failed") /\ UNCHANGED xml
  <2>1. CASE CannotWrite
    BY <1>1, <1>2, <1>3, <2>1, EndedBadly DEF CannotWrite
  <2>2. CASE r = Broken
    <3>1. PICK k \in DOMAIN run.inputs : xml[run.inputs[k]] = Broken
      BY <1>1, <2>2, MergeHolds, ReportsAre
    <3>2. Bad(xml[run.inputs[k]])
      BY <3>1, BrokenIsBad
    <3>3. BadInputs'
      BY <1>1, <1>3, <3>2 DEF BadInputs, Bad
    <3>. QED  BY <1>3, <3>3, EndedBadly
  <2>. QED  BY <1>3, <2>1, <2>2
<1>4. CASE /\ r # Broken /\ xml' = [xml EXCEPT ![At(run.dir, "merged")] = r]
           /\ reports' = MergedList /\ task' = "convert"
  <2>. DEFINE M == At(run.dir, "merged")
  <2>1. /\ r \in Report
        /\ \A k \in DOMAIN run.inputs : run.inputs[k] \in Path /\ xml[run.inputs[k]] \in Report
        /\ ToSet(r) = UNION {ToSet(xml[run.inputs[k]]) : k \in DOMAIN run.inputs}
    BY <1>1, <1>4, MergeHolds
  <2>2. M \in Path /\ Len(reports') = 1
    BY <1>4, ParamsAre, PathsAre, SingletonIs DEF ReportsInv, JRTypeOK, MergedList
  <2>. HIDE DEF M, r
  <2>3. \A k \in DOMAIN run.inputs :
          xml'[run.inputs[k]] = IF run.inputs[k] = M THEN r ELSE xml[run.inputs[k]]
    BY <1>4, <2>1 DEF ReportsInv, JRTypeOK, M, r
  <2>4. \A k \in DOMAIN run.inputs : xml'[run.inputs[k]] \in Report
    BY <2>1, <2>3
  <2>5. ToSet(r) = UNION {ToSet(xml'[run.inputs[k]]) : k \in DOMAIN run.inputs}
    <3>1. ASSUME NEW k \in DOMAIN run.inputs
          PROVE  /\ ToSet(xml[run.inputs[k]]) \subseteq ToSet(xml'[run.inputs[k]])
                 /\ ToSet(xml'[run.inputs[k]]) \subseteq ToSet(r)
      <4>1. ToSet(xml[run.inputs[k]]) \subseteq ToSet(r)
        BY <2>1
      <4>. QED  BY <2>3, <4>1
    <3>2. ToSet(r) \subseteq UNION {ToSet(xml'[run.inputs[k]]) : k \in DOMAIN run.inputs}
      BY <2>1, <3>1
    <3>3. UNION {ToSet(xml'[run.inputs[k]]) : k \in DOMAIN run.inputs} \subseteq ToSet(r)
      BY <3>1
    <3>. QED  BY <3>2, <3>3
  <2>6. Consolidated'
    BY <1>1, <2>1, <2>4, <2>5 DEF Consolidated, r
  <2>7. RunConverts' /\ FailsForCause'
    BY <1>4, NotYetEnded
  <2>. QED  BY <1>1, <1>2, <1>4, <2>2, <2>6, <2>7 DEF ConvertInv
<1>. QED  BY <1>1, <1>3, <1>4 DEF Merge

\* A run that ends well tells every input it has not overwritten.
LEMMA ToldByOne ==
  ASSUME ReportsInv, NEW r \in Report, Truthful(r), ~Bad(r),
         NEW case \in Cases(r), NEW p, json'[p] = Junit2obj(r)
  PROVE  Tells(json'[p], case)
<1>1. Tells(Junit2obj(r), case)
  BY ConvertedTells
<1>. QED  BY <1>1

\* The merged report is converted, and tells the cases of all inputs.
LEMMA WriteMergedStep == ReportsInv /\ WriteReport /\ run.merge => ConvertInv'
<1>. SUFFICES ASSUME ReportsInv, WriteReport, run.merge PROVE ConvertInv'
  OBVIOUS
<1>. DEFINE M == At(run.dir, "merged")
            data == Junit2obj(stdout)
<1>1. task = "convert" /\ UNCHANGED <<xml, run, listed>> /\ list' = Append(list, M)
  BY DEF WriteReport, conversion
<1>2. /\ item = 1 /\ Len(reports) = 1 /\ Len(list) = listed /\ Len(run.inputs) > 0
      /\ stdout \in Report
      /\ \A k \in DOMAIN run.inputs : xml[run.inputs[k]] \in Report
      /\ ToSet(stdout) = UNION {ToSet(xml[run.inputs[k]]) : k \in DOMAIN run.inputs}
  BY <1>1 DEF ReportsInv, ConvertInv, Consolidated
<1>3. M \in Path /\ \A k \in DOMAIN run.inputs : run.inputs[k] \in Path
  BY ParamsAre, PathsAre DEF ReportsInv, JRTypeOK
<1>4. /\ \A case : case \in Cases(stdout) <=> \E k \in DOMAIN run.inputs : case \in Cases(xml[run.inputs[k]])
      /\ (\A k \in DOMAIN run.inputs : Truthful(xml[run.inputs[k]])) => Truthful(stdout)
      /\ Bad(stdout) <=> \E k \in DOMAIN run.inputs : Bad(xml[run.inputs[k]])
  <2>. DEFINE paths == run.inputs
  <2>. HIDE DEF paths
  <2>1. /\ \A k \in DOMAIN paths : xml[paths[k]] \in Report
        /\ ToSet(stdout) = UNION {ToSet(xml[paths[k]]) : k \in DOMAIN paths}
    BY <1>2 DEF paths
  <2>2. /\ \A case : case \in Cases(stdout) <=> \E k \in DOMAIN paths : case \in Cases(xml[paths[k]])
        /\ (\A k \in DOMAIN paths : Truthful(xml[paths[k]])) => Truthful(stdout)
        /\ Bad(stdout) <=> \E k \in DOMAIN paths : Bad(xml[paths[k]])
    BY <1>2, <2>1, SuitesCases
  <2>. QED  BY <2>2 DEF paths
<1>5. Truthful(stdout)
  BY <1>2, <1>3, <1>4 DEF ReportsInv, FilesInv
<1>6. CASE data = Broken /\ End("junit2json", "failed")
  <2>1. PICK k \in DOMAIN run.inputs : Bad(xml[run.inputs[k]])
    BY <1>4, <1>6 DEF Bad
  <2>2. BadInputs'
    BY <1>1, <2>1 DEF BadInputs, Bad
  <2>. QED  BY <1>6, <2>2, EndedBadly
<1>7. CASE data # Broken /\ json' = [json EXCEPT ![M] = data] /\ End("junit2json", "ok")
  <2>1. ~Bad(stdout)
    BY <1>7 DEF Bad
  <2>2. json'[M] = Junit2obj(stdout) /\ Junit2obj(stdout) # None
    <3>1. Junit2obj(stdout) # None
      BY <1>2, <2>1, BadIs, ReportsAre
    <3>. QED  BY <1>3, <1>7, <3>1 DEF ReportsInv, JRTypeOK
  <2>3. Len(list') = listed + 1 /\ list'[listed + 1] = M /\ listed \in Nat
    <3>. HIDE DEF M
    <3>1. list \in Seq(Path) /\ Len(list) \in Nat
      BY LenProperties DEF ReportsInv, JRTypeOK
    <3>. QED  BY <1>1, <1>2, <1>3, <3>1, AppendProperties
  <2>. HIDE DEF M, data
  <2>. DEFINE new == {list'[k] : k \in listed + 1 .. Len(list')}
  <2>4. new = {M}
    BY <2>3
  <2>. HIDE DEF new
  <2>5. ASSUME NEW k \in DOMAIN run.inputs, NEW case \in ToSet(FlattenSeq(xml[run.inputs[k]]))
        PROVE  \E p \in new : Tells(json'[p], case)
    <3>1. case \in Cases(xml[run.inputs[k]])
      BY <1>2, CasesAre
    <3>2. case \in Cases(stdout)
      BY <1>4, <3>1
    <3>. QED  BY <1>2, <1>5, <2>1, <2>2, <2>4, <3>2, ToldByOne
  <2>6. RunConverts'
    <3>1. /\ Len(list') = listed + 1
          /\ \A p \in new : json'[p] # None
          /\ \A k \in DOMAIN run.inputs :
               \A case \in ToSet(FlattenSeq(xml[run.inputs[k]])) : \E p \in new : Tells(json'[p], case)
      BY <2>2, <2>3, <2>4, <2>5
    <3>. QED  BY <1>1, <3>1 DEF RunConverts, new
  <2>7. FailsForCause'
    BY <1>7 DEF FailsForCause, Ended, End
  <2>8. task' = "idle"
    BY <1>7 DEF End
  <2>. QED  BY <2>6, <2>7, <2>8 DEF ConvertInv
<1>. QED  BY <1>2, <1>6, <1>7 DEF WriteReport, Written

\* One more input is converted; it overwrites no report but of its name.
LEMMA WriteOneStep == ReportsInv /\ WriteReport /\ ~run.merge => ConvertInv'
<1>. SUFFICES ASSUME ReportsInv, WriteReport, ~run.merge PROVE ConvertInv'
  OBVIOUS
<1>. DEFINE file == run.inputs[item]
            data == Junit2obj(xml[file])
<1>1. task = "convert" /\ UNCHANGED <<xml, run, listed, reports>>
  BY DEF WriteReport, conversion
<1>2. /\ item \in DOMAIN run.inputs /\ item \in Nat \ {0} /\ item <= Len(run.inputs)
      /\ file \in Path /\ reports[item] = file /\ Len(reports) = Len(run.inputs)
      /\ Expanded(Len(run.inputs)) /\ Converted(item - 1)
      /\ Len(run.inputs) \in Nat /\ Len(run.inputs) > 0 /\ DOMAIN run.inputs = 1 .. Len(run.inputs)
      /\ \A k \in DOMAIN run.inputs : run.inputs[k] \in Path
  BY <1>1, Positions, ParamsAre DEF ReportsInv, JRTypeOK, ConvertInv
<1>3. list' = Append(list, Output(item))
  BY <1>2 DEF WriteReport, Output
<1>4. \A k \in DOMAIN run.inputs : Output(k) \in Path /\ Output(k).name = run.inputs[k].name
  <2>1. run.dir \in {"logs", "other", "out"}
    BY ParamsAre DEF ReportsInv, JRTypeOK
  <2>2. \A k \in DOMAIN run.inputs : run.inputs[k].name \in {"r1", "r2", "merged"}
    BY <1>2, PathsAre
  <2>. QED  BY <2>1, <2>2, PathsAre DEF Output
<1>5. CASE data = Broken /\ End("junit2json", "failed")
  <2>1. BadInputs'
    BY <1>1, <1>2, <1>5 DEF BadInputs
  <2>. QED  BY <1>5, <2>1, EndedBadly
<1>6. CASE /\ data # Broken /\ json' = [json EXCEPT ![Output(item)] = data]
           /\ IF item < Len(reports)
              THEN item' = item + 1 /\ UNCHANGED <<task, ended>>
              ELSE End("junit2json", "ok") /\ UNCHANGED item
  <2>1. ~Bad(xml[file]) /\ data # None
    <3>1. xml[file] \in Report \cup {Broken}
      BY <1>2 DEF ReportsInv, JRTypeOK, Expanded, Report
    <3>. QED  BY <1>6, <3>1, BrokenIsBad, BadIs, ReportsAre DEF Bad
  <2>2. \A p \in Path : json'[p] = IF p = Output(item) THEN data ELSE json[p]
    BY <1>6 DEF ReportsInv, JRTypeOK
  <2>3. list \in Seq(Path) /\ Len(list) \in Nat /\ listed \in Nat
    BY LenProperties DEF ReportsInv, JRTypeOK
  <2>4. /\ Len(list') = listed + item /\ list'[listed + item] = Output(item)
        /\ \A k \in 1 .. item - 1 : list'[listed + k] = list[listed + k]
    <3>1. /\ Len(list') = Len(list) + 1 /\ list'[Len(list) + 1] = Output(item)
          /\ \A k \in 1 .. Len(list) : list'[k] = list[k]
      BY <1>2, <1>3, <1>4, <2>3, AppendProperties
    <3>2. Len(list) = listed + (item - 1)
      BY <1>2 DEF Converted
    <3>3. Len(list) + 1 = listed + item
      BY <1>2, <2>3, <3>2
    <3>4. \A k \in 1 .. item - 1 : listed + k \in 1 .. Len(list)
      BY <1>2, <2>3, <3>2
    <3>. QED  BY <3>1, <3>3, <3>4
  <2>. HIDE DEF file, data
  <2>5. ASSUME NEW k \in 1 .. item
        PROVE  /\ list'[listed + k] = Output(k) /\ json'[Output(k)] # None /\ ~Bad(xml[run.inputs[k]])
               /\ (\A l \in k + 1 .. item : run.inputs[l].name # run.inputs[k].name)
                    => json'[Output(k)] = Junit2obj(xml[run.inputs[k]])
    <3>1. CASE k = item
      BY <1>2, <1>4, <2>1, <2>2, <2>4, <3>1 DEF file, data
    <3>2. CASE k # item
      <4>1. k \in 1 .. item - 1 /\ k \in DOMAIN run.inputs
        BY <1>2, <3>2
      <4>2. /\ list[listed + k] = Output(k) /\ json[Output(k)] # None /\ ~Bad(xml[run.inputs[k]])
            /\ (\A l \in k + 1 .. item - 1 : run.inputs[l].name # run.inputs[k].name)
                 => json[Output(k)] = Junit2obj(xml[run.inputs[k]])
        BY <1>2, <4>1 DEF Converted
      <4>3. ASSUME \A l \in k + 1 .. item : run.inputs[l].name # run.inputs[k].name
            PROVE  json'[Output(k)] = Junit2obj(xml[run.inputs[k]])
        <5>1. item \in k + 1 .. item /\ \A l \in k + 1 .. item - 1 : l \in k + 1 .. item
          BY <1>2, <4>1
        <5>2. run.inputs[item].name # run.inputs[k].name
          BY <4>3, <5>1
        <5>3. Output(k) # Output(item)
          BY <1>2, <1>4, <4>1, <5>2
        <5>4. json[Output(k)] = Junit2obj(xml[run.inputs[k]])
          BY <4>2, <4>3, <5>1
        <5>. QED  BY <1>4, <2>2, <4>1, <5>3, <5>4
      <4>4. json'[Output(k)] # None /\ list'[listed + k] = Output(k)
        BY <1>4, <2>1, <2>2, <2>4, <4>1, <4>2
      <4>. QED  BY <4>2, <4>3, <4>4
    <3>. QED  BY <3>1, <3>2
  <2>6. CASE item < Len(run.inputs)
    <3>1. task' = "convert" /\ item' = item + 1 /\ item' <= Len(run.inputs) /\ item' - 1 = item
      BY <1>1, <1>2, <1>6, <2>6
    <3>2. Converted(item - 1)'
      BY <1>1, <2>4, <2>5, <3>1 DEF Converted, Output
    <3>3. Expanded(Len(run.inputs))'
      BY <1>1, <1>2 DEF Expanded
    <3>4. RunConverts' /\ FailsForCause'
      BY <3>1, NotYetEnded
    <3>. QED  BY <1>1, <1>2, <3>1, <3>2, <3>3, <3>4 DEF ConvertInv
  <2>7. CASE ~(item < Len(run.inputs))
    <3>1. item = Len(run.inputs) /\ End("junit2json", "ok")
      BY <1>2, <1>6, <2>7
    <3>. DEFINE new == {list'[k] : k \in listed + 1 .. Len(list')}
    <3>2. \A k \in DOMAIN run.inputs : Output(k) \in new
      <4>1. \A k \in 1 .. item : listed + k \in listed + 1 .. Len(list')
        BY <1>2, <2>3, <2>4
      <4>. QED  BY <1>2, <2>5, <3>1, <4>1
    <3>3. ASSUME NEW p \in new PROVE json'[p] # None
      <4>1. PICK k \in listed + 1 .. Len(list') : p = list'[k]
        OBVIOUS
      <4>2. k - listed \in 1 .. item /\ listed + (k - listed) = k
        BY <1>2, <2>3, <2>4, <4>1
      <4>. QED  BY <2>5, <4>1, <4>2
    <3>4. ASSUME NEW k \in DOMAIN run.inputs,
                 ~(\E l \in k + 1 .. Len(run.inputs) : run.inputs[l].name = run.inputs[k].name),
                 NEW case \in ToSet(FlattenSeq(xml[run.inputs[k]]))
          PROVE  Tells(json'[Output(k)], case)
      <4>1. json'[Output(k)] = Junit2obj(xml[run.inputs[k]]) /\ ~Bad(xml[run.inputs[k]])
        BY <1>2, <2>5, <3>1, <3>4
      <4>2. xml[run.inputs[k]] \in Report /\ Truthful(xml[run.inputs[k]])
        <5>1. xml[run.inputs[k]] \in Report
          BY <1>2, <4>1, BrokenIsBad DEF ReportsInv, JRTypeOK, Expanded, Report
        <5>. QED  BY <1>2, <5>1 DEF ReportsInv, FilesInv
      <4>3. case \in Cases(xml[run.inputs[k]])
        BY <4>2, CasesAre
      <4>. QED  BY <4>1, <4>2, <4>3, ToldByOne
    <3>. HIDE DEF new
    <3>5. /\ Len(list') = listed + Len(run.inputs)
          /\ \A p \in new : json'[p] # None
          /\ \A k \in DOMAIN run.inputs :
               \/ \E l \in k + 1 .. Len(run.inputs) : run.inputs[l].name = run.inputs[k].name
               \/ \A case \in ToSet(FlattenSeq(xml[run.inputs[k]])) : \E p \in new : Tells(json'[p], case)
      BY <2>4, <3>1, <3>2, <3>3, <3>4
    <3>6. RunConverts'
      BY <1>1, <3>5 DEF RunConverts, Overwritten, new
    <3>7. FailsForCause'
      BY <3>1 DEF FailsForCause, Ended, End
    <3>8. task' = "idle"
      BY <3>1 DEF End
    <3>. QED  BY <3>6, <3>7, <3>8 DEF ConvertInv
  <2>. QED  BY <2>6, <2>7
<1>. QED  BY <1>2, <1>5, <1>6 DEF WriteReport, Written, Output

\* A run of junit2json keeps to its inputs until it ends, and then its word.
LEMMA ConvertSteps == ReportsInv /\ [JRNext]_jrVars => ConvertInv'
<1>. SUFFICES ASSUME ReportsInv, [JRNext]_jrVars PROVE ConvertInv'
  OBVIOUS
<1>1. ASSUME NEW p \in Params, Convert(p) PROVE ConvertInv'
  <2>1. /\ run' = p /\ reports' = <<>> /\ item' = 1 /\ listed' = Len(list) /\ UNCHANGED list
        /\ Len(p.inputs) \in Nat /\ (p.inputs = <<>> <=> Len(p.inputs) = 0)
    BY <1>1, ParamsAre DEF Convert
  <2>2. CASE p.inputs = <<>> /\ End("junit2json", "failed")
    BY <2>1, <2>2, EndedBadly DEF BadInputs
  <2>3. CASE p.inputs # <<>> /\ task' = "expand"
    <3>1. Expanded(item - 1)'
      BY <2>1 DEF Expanded
    <3>2. RunConverts' /\ FailsForCause'
      BY <2>3, NotYetEnded
    <3>. QED  BY <2>1, <2>3, <3>1, <3>2 DEF ConvertInv
  <2>. QED  BY <1>1, <2>2, <2>3 DEF Convert
<1>2. ASSUME \/ \E t \in Tests, s \in BOOLEAN : Verify(t, s)
             \/ ReadJunitFiles \/ \E file \in Path : ParseJunitFile(file)
      PROVE  ConvertInv'
  <2>1. task' \in {"idle", "read", "parse"} /\ (task' = "idle" => ended'[1] = "verify_tests")
    BY <1>2 DEF Verify, ReadJunitFiles, ParseJunitFile, NextTest, End
  <2>2. RunConverts' /\ FailsForCause'
    BY <2>1, NotYetEnded
  <2>. QED  BY <2>1, <2>2 DEF ConvertInv
<1>3. CASE UNCHANGED jrVars
  BY <1>3 DEF ReportsInv, jrVars, disk, conversion, verification, ConvertInv, Expanded, Converted,
     Output, Consolidated, RunConverts, Overwritten, FailsForCause, BadInputs, Ended
<1>. QED  BY <1>1, <1>2, <1>3, ExpandStep, MergeStep, WriteMergedStep, WriteOneStep DEF JRNext

\* When an entry of tests_to_verify is as expected, the next one comes, if any.
LEMMA NextTestStep ==
  ASSUME ReportsInv, task \in {"read", "parse"}, NextTest,
         UNCHANGED <<xml, tests, skip>>, Verified(item)
  PROVE  VerifyInv'
<1>1. item \in 1 .. Len(tests) /\ Len(tests) \in Nat /\ \A k \in 1 .. item - 1 : Verified(k)
  BY TestsAre, Positions DEF ReportsInv, JRTypeOK, VerifyInv
<1>2. \A k \in 1 .. item : Verified(k)
  BY <1>1
<1>3. \A k : Verified(k) = Verified(k)'
  BY DEF Verified, Named, AsExpected
<1>4. CASE item < Len(tests)
  <2>1. task' = "read" /\ item' = item + 1
    BY <1>4 DEF NextTest
  <2>. QED  BY <1>1, <1>2, <1>3, <1>4, <2>1 DEF VerifyInv
<1>5. CASE ~(item < Len(tests))
  <2>1. item = Len(tests) /\ task' = "idle" /\ ended' = <<"verify_tests", "ok">>
    BY <1>1, <1>5 DEF NextTest, End
  <2>. QED  BY <1>2, <1>3, <2>1 DEF VerifyInv
<1>. QED  BY <1>4, <1>5

\* An entry of tests_to_verify that is not as expected ends the role.
LEMMA VerifyFails ==
  ASSUME ReportsInv, task \in {"read", "parse"}, End("verify_tests", "failed"),
         UNCHANGED <<xml, tests, skip>>, ~Verified(item)
  PROVE  VerifyInv'
<1>1. item \in 1 .. Len(tests)
  BY TestsAre, Positions DEF ReportsInv, JRTypeOK
<1>2. ~(\A k \in 1 .. Len(tests') : Verified(k)')
  BY <1>1 DEF Verified, Named, AsExpected
<1>3. task' = "idle" /\ ended'[2] # "ok"
  BY DEF End
<1>. QED  BY <1>2, <1>3 DEF VerifyInv

\* The files of the next entry are found, in the log folder.
LEMMA ReadStep == ReportsInv /\ ReadJunitFiles => VerifyInv'
<1>. SUFFICES ASSUME ReportsInv, ReadJunitFiles PROVE VerifyInv'
  OBVIOUS
<1>1. task = "read" /\ files' = Named(item) /\ UNCHANGED <<xml, tests, skip>>
  BY DEF ReadJunitFiles, disk, Named
<1>2. item <= Len(tests) /\ \A k \in 1 .. item - 1 : Verified(k)
  BY <1>1 DEF ReportsInv, VerifyInv
<1>3. CASE files' # {} /\ task' = "parse" /\ UNCHANGED item
  BY <1>1, <1>2, <1>3 DEF VerifyInv, Verified, Named, AsExpected
<1>4. CASE files' = {} /\ ~skip /\ End("verify_tests", "failed")
  BY <1>1, <1>4, VerifyFails DEF Verified
<1>5. CASE files' = {} /\ skip /\ NextTest
  BY <1>1, <1>5, NextTestStep DEF Verified
<1>. QED  BY <1>3, <1>4, <1>5 DEF ReadJunitFiles

\* One of them is as expected, or the role ends.
LEMMA ParseStep ==
  ASSUME ReportsInv, NEW file \in Path, ParseJunitFile(file)
  PROVE  VerifyInv'
<1>1. task = "parse" /\ file \in files /\ files' = files \ {file} /\ UNCHANGED <<xml, tests, skip>>
  BY DEF ParseJunitFile, disk
<1>2. /\ item <= Len(tests) /\ \A k \in 1 .. item - 1 : Verified(k)
      /\ files \subseteq Named(item) /\ \A p \in Named(item) \ files : AsExpected(item, p)
  BY <1>1 DEF ReportsInv, VerifyInv
<1>3. CASE ~AsExpected(item, file)
  <2>1. ~Verified(item)
    BY <1>1, <1>2, <1>3 DEF Verified
  <2>2. End("verify_tests", "failed")
    BY <1>3 DEF ParseJunitFile, AsExpected
  <2>. QED  BY <1>1, <2>1, <2>2, VerifyFails
<1>4. CASE AsExpected(item, file)
  <2>1. \A p \in Named(item) \ files' : AsExpected(item, p)
    BY <1>1, <1>2, <1>4
  <2>2. CASE files' # {}
    <3>1. UNCHANGED <<task, item, ended>>
      BY <1>4, <2>2 DEF ParseJunitFile, AsExpected
    <3>2. /\ Named(item)' = Named(item)
          /\ \A k : Verified(k)' = Verified(k)
          /\ \A p : AsExpected(item, p)' = AsExpected(item, p)
      BY <1>1, <3>1 DEF Verified, Named, AsExpected
    <3>. QED  BY <1>1, <1>2, <2>1, <2>2, <3>1, <3>2 DEF VerifyInv
  <2>3. CASE files' = {}
    <3>1. Verified(item)
      BY <1>1, <1>2, <2>1, <2>3 DEF Verified
    <3>2. NextTest
      BY <1>4, <2>3 DEF ParseJunitFile, AsExpected
    <3>. QED  BY <1>1, <3>1, <3>2, NextTestStep
  <2>. QED  BY <2>2, <2>3
<1>. QED  BY <1>3, <1>4

\* The verification keeps count of the entries that are as expected.
LEMMA VerifySteps == ReportsInv /\ [JRNext]_jrVars => VerifyInv'
<1>. SUFFICES ASSUME ReportsInv, [JRNext]_jrVars PROVE VerifyInv'
  OBVIOUS
<1>1. ASSUME (\E p \in Params : Convert(p)) \/ Expand \/ Merge \/ WriteReport PROVE VerifyInv'
  <2>1. task' \notin {"read", "parse"} /\ (task' = "idle" => ended'[1] # "verify_tests")
    BY <1>1 DEF Convert, Expand, Merge, WriteReport, End
  <2>. QED  BY <2>1 DEF VerifyInv
<1>2. ASSUME NEW t \in Tests, NEW s \in BOOLEAN, Verify(t, s) PROVE VerifyInv'
  <2>1. task' = "read" /\ item' = 1 /\ tests' = t /\ Len(t) \in Nat /\ Len(t) > 0
    BY <1>2, TestsAre DEF Verify
  <2>. QED  BY <2>1 DEF VerifyInv
<1>3. CASE UNCHANGED jrVars
  BY <1>3 DEF ReportsInv, jrVars, disk, conversion, verification, VerifyInv, Verified, Named, AsExpected
<1>. QED  BY <1>1, <1>2, <1>3, ReadStep, ParseStep DEF JRNext

\* Every step of either role keeps the invariant.
LEMMA InvSteps == ReportsInv /\ [JRNext]_jrVars => ReportsInv'
BY TypeSteps, FilesSteps, ListSteps, ConvertSteps, VerifySteps DEF ReportsInv

-----------------------------------------------------------------------------
(* The verdict.                                                            *)

\* An expectation and the cases it is about.
LEMMA MetIs ==
  ASSUME NEW r \in Report, NEW e
  PROVE  Met(e, r) <=>
           /\ \E case \in Cases(r) : case.name \in e.testcase
           /\ \A case \in Cases(r) : case.name \in e.testcase =>
                e.passed = (~Fails(case) \/ \E k \in DOMAIN case.result : case.result[k].kind = "skipped")
<1>1. ToSet(FlattenSeq(r)) = Cases(r)
  BY CasesAre
<1>. QED  BY <1>1, Zenon DEF Met

\* What each of some reports meets, their merged report meets.
LEMMA MetByMerged ==
  ASSUME NEW r \in Report, NEW some, some # {}, \A p \in some : xml[p] \in Report,
         ToSet(r) = UNION {ToSet(xml[p]) : p \in some},
         NEW e, \A p \in some : Met(e, xml[p])
  PROVE  Met(e, r)
<1>1. \A case : case \in Cases(r) <=> \E p \in some : case \in Cases(xml[p])
  <2>1. Cases(r) = UNION {ToSet(suite) : suite \in ToSet(r)}
    BY CasesAre
  <2>2. \A p \in some : Cases(xml[p]) = UNION {ToSet(suite) : suite \in ToSet(xml[p])}
    BY CasesAre
  <2>. QED  BY <2>1, <2>2
<1>2. \E case \in Cases(r) : case.name \in e.testcase
  <2>1. PICK p \in some : TRUE
    OBVIOUS
  <2>2. \E case \in Cases(xml[p]) : case.name \in e.testcase
    BY <2>1, MetIs
  <2>. QED  BY <1>1, <2>1, <2>2
<1>3. ASSUME NEW case \in Cases(r), case.name \in e.testcase
      PROVE  e.passed = (~Fails(case) \/ \E k \in DOMAIN case.result : case.result[k].kind = "skipped")
  <2>1. PICK p \in some : case \in Cases(xml[p])
    BY <1>1
  <2>2. Met(e, xml[p]) /\ xml[p] \in Report
    BY <2>1
  <2>. QED  BY <1>3, <2>1, <2>2, MetIs
<1>. QED  BY <1>2, <1>3, MetIs

\* A merged report of the reports of its folder changes no verdict.
LEMMA VerifiedIs ==
  ASSUME ReportsInv, MergedIsOwn, NEW k \in DOMAIN tests
  PROVE  Verified(k) <=>
           LET named == {p \in Own : p.name \in tests[k].filename}
           IN  /\ named # {} \/ skip
               /\ \A p \in named : /\ xml[p] # Broken
                                   /\ \A l \in DOMAIN tests[k].expected : Met(tests[k].expected[l], xml[p])
<1>. DEFINE named   == {p \in Own : p.name \in tests[k].filename}
            M       == At("logs", "merged")
            wanted  == tests[k].expected
            Good(p) == xml[p] # Broken /\ \A l \in DOMAIN wanted : Met(wanted[l], xml[p])
<1>1. /\ tests[k].filename \in Patterns
      /\ wanted \in Seq([testcase : SUBSET STRING, passed : BOOLEAN])
  BY TestsAre DEF ReportsInv, JRTypeOK
<1>2. \A p \in Path : xml[p] \in Report \cup {Broken, None}
  BY DEF ReportsInv, JRTypeOK, Report
<1>3. M \in Path /\ M.name = "merged" /\ M.dir = "logs"
  BY PathsAre
<1>4. \A p \in Path : p.dir = "logs" /\ p.name = "merged" => p = M
  BY PathsAre
<1>5. xml[M] # Broken
  BY <1>3 DEF ReportsInv, FilesInv
<1>6. named \subseteq Named(k) /\ Named(k) \subseteq named \cup {M}
  BY <1>4 DEF Named, Own
<1>7. ASSUME NEW p \in Named(k) PROVE AsExpected(k, p) <=> Good(p)
  <2>1. xml[p] \in Report \cup {Broken}
    BY <1>2 DEF Named
  <2>. HIDE DEF M, named
  <2>2. CASE xml[p] = Broken
    BY <2>2 DEF AsExpected
  <2>3. CASE xml[p] \in Report
    <3>1. RegexDiff(wanted, Junit2dict(xml[p])) = {} <=> \A l \in DOMAIN wanted : Met(wanted[l], xml[p])
      BY <1>1, <2>3, NoDifferences
    <3>. QED  BY <3>1 DEF AsExpected
  <2>. QED  BY <2>1, <2>2, <2>3
<1>8. ASSUME M \in Named(k)
      PROVE  \E some \in SUBSET named :
               /\ some # {} /\ \A p \in some : xml[p] \in Report
               /\ ToSet(xml[M]) = UNION {ToSet(xml[p]) : p \in some}
  <2>1. xml[M] # None /\ "merged" \in tests[k].filename
    BY <1>3, <1>8 DEF Named
  <2>2. PICK some \in SUBSET (Own \ {p \in Own : xml[p] = Broken}) :
          some # {} /\ ToSet(xml[M]) = UNION {ToSet(xml[p]) : p \in some}
    BY <2>1 DEF MergedIsOwn
  <2>3. tests[k].filename = {"r1", "r2", "merged"}
    BY <1>1, <2>1 DEF Patterns
  <2>4. \A p \in some : p \in Path /\ p \in Own /\ xml[p] \notin {Broken, None}
    BY <2>2 DEF Own
  <2>5. \A p \in some : p \in named /\ xml[p] \in Report
    BY <1>2, <2>3, <2>4, PathsAre
  <2>. QED  BY <2>2, <2>5
<1>. HIDE DEF named
<1>9. Named(k) # {} <=> named # {}
  BY <1>6, <1>8
<1>10. ASSUME \A p \in named : Good(p), M \in Named(k) PROVE Good(M)
  <2>1. PICK some \in SUBSET named :
          /\ some # {} /\ \A p \in some : xml[p] \in Report
          /\ ToSet(xml[M]) = UNION {ToSet(xml[p]) : p \in some}
    BY <1>8, <1>10
  <2>2. xml[M] \in Report
    BY <1>2, <1>5, <1>10 DEF Named
  <2>. HIDE DEF M, wanted
  <2>3. ASSUME NEW l \in DOMAIN wanted PROVE Met(wanted[l], xml[M])
    <3>1. \A p \in some : Met(wanted[l], xml[p])
      BY <1>10, <2>1
    <3>. QED  BY <2>1, <2>2, <3>1, MetByMerged
  <2>. QED  BY <1>5, <2>3
<1>. HIDE DEF M, Good
<1>11. Verified(k) <=> (named # {} \/ skip) /\ \A p \in named : Good(p)
  BY <1>6, <1>7, <1>9, <1>10 DEF Verified
<1>. QED  BY <1>11 DEF named, Good, wanted

-----------------------------------------------------------------------------
(* What follows from it.                                                   *)

\* The invariant holds in every state of the roles, whatever the reports are.
THEOREM ReportsInvariance == JRSpec => []ReportsInv
<1>. QED  BY StartsRight, InvSteps, PTL DEF JRSpec

\* Facts, files and parameters keep their types.
THEOREM ReportsTyped == JRSpec => []JRTypeOK
<1>1. ReportsInv => JRTypeOK
  BY DEF ReportsInv
<1>. QED  BY <1>1, ReportsInvariance, PTL

\* Every path of global_json_reports_list leads to a report, unless the conversion of a
\* report of its name, or of a merged one, has failed (convert.yml:22-44).
THEOREM ListedAreWritten == JRSpec => []ListedIsWritten
<1>1. ReportsInv => ListedIsWritten
  <2>. SUFFICES ASSUME ReportsInv PROVE ListedIsWritten
    OBVIOUS
  <2>1. DOMAIN list = 1 .. Len(list)
    BY ElementsAt DEF ReportsInv, JRTypeOK
  <2>. QED  BY <2>1 DEF ReportsInv, ListInv, ListedIsWritten, Original, Bad
<1>. QED  BY <1>1, ReportsInvariance, PTL

\* A run of junit2json that ends well tells each case of each of its inputs, merged or one
\* by one, whatever folders and facts hold from before (main.yml, merge.yml, convert.yml).
THEOREM RunsConvert == JRSpec => []RunConverts
<1>1. ReportsInv => RunConverts
  BY DEF ReportsInv, ConvertInv
<1>. QED  BY <1>1, ReportsInvariance, PTL

\* It fails for nothing but its inputs and, when it merges, a folder that is not there.
THEOREM FailuresHaveCauses == JRSpec => []FailsForCause
<1>1. ReportsInv => FailsForCause
  BY DEF ReportsInv, ConvertInv
<1>. QED  BY <1>1, ReportsInvariance, PTL

\* verify_tests passes exactly when the reports of the tests are as expected; a merged
\* report of theirs in the same folder changes no verdict, for it says what they say.
THEOREM VerdictsAreExact == JRSpec => []VerdictIsExact
<1>1. ReportsInv => VerdictIsExact
  <2>. SUFFICES ASSUME ReportsInv, task = "idle", ended[1] = "verify_tests", MergedIsOwn
                PROVE  ended[2] = "ok" <=>
                         \A k \in DOMAIN tests :
                           LET named == {p \in Own : p.name \in tests[k].filename}
                           IN  /\ named # {} \/ skip
                               /\ \A p \in named :
                                    /\ xml[p] # Broken
                                    /\ \A l \in DOMAIN tests[k].expected : Met(tests[k].expected[l], xml[p])
    BY Zenon DEF VerdictIsExact
  <2>1. DOMAIN tests = 1 .. Len(tests)
    BY TestsAre DEF ReportsInv, JRTypeOK
  <2>2. ended[2] = "ok" <=> \A k \in DOMAIN tests : Verified(k)
    BY <2>1 DEF ReportsInv, VerifyInv
  <2>. QED  BY <2>2, VerifiedIs, Zenon
<1>. QED  BY <1>1, ReportsInvariance, PTL

=============================================================================
