---------------------------- MODULE DeprecatedApi ----------------------------
(***************************************************************************)
(* roles/deprecated_api with its filter ocp_compatibility, and the check   *)
(* roles/preflight makes of the result: for each namespace the APIs its    *)
(* workload uses that a later OpenShift removes, the highest version all   *)
(* namespaces are compatible with, and whether an operator's declared      *)
(* versions agree with it.                                                 *)
(*                                                                         *)
(* Versions 4.n are numbers n; the filter's loop compares them as strings, *)
(* which the model does too.  An API stands for its name and accounts.     *)
(***************************************************************************)
EXTENDS Integers, FiniteSets

CONSTANTS
  Apis,         \* APIs a workload may use.
  K8sReleases,  \* m for the releases 1.m of Kubernetes that remove APIs.
  Currents,     \* Versions of the cluster.
  MaxNamespaces, \* Bound: namespaces examined by one run of the role.
  MaxRuns       \* Bound: runs of the role, between which the cluster is upgraded.

MaxMinor  == 99   \* Versions have one or two digits.
Minors    == 0 .. MaxMinor
Unlimited == 99   \* "99.99": no limit.
Undefined == -1   \* The fact is not set yet.

ASSUME VersionsAssumption ==
  K8sReleases \subseteq 13 .. MaxMinor + 13 /\ Currents \subseteq 0 .. MaxMinor - 1
ASSUME BoundsAssumption == MaxNamespaces \in Nat /\ MaxRuns \in Nat

VARIABLES
  pc,             \* "idle", "namespace", "loop", "limit", "compare" or "failed".
  current,        \* da_ocp_version.
  removed,        \* da_removed_api: the release that removes each API used.
  version,        \* The filter: version of the next iteration.
  status,         \* The filter: APIs carried along, {} for 'compatible'.
  compatibility,  \* The filter: [version |-> v, apis |-> APIs missing in v].
  limit,          \* da_current_ns_ocp_limit.
  maxCompatible,  \* da_max_compatible_ocp_version.
  namespaces, runs,  \* Counters for the bounds.
  found           \* History: versions that remove an API of some namespace.

vars == <<pc, current, removed, version, status, compatibility, limit,
          maxCompatible, namespaces, runs, found>>

filterVars == <<removed, version, status, compatibility>>

Limits == Minors \cup {Unlimited, Undefined}

TypeOK ==
  /\ pc \in {"idle", "namespace", "loop", "limit", "compare", "failed"}
  /\ current \in Currents /\ version \in Minors \cup {MaxMinor + 1}
  /\ \E used \in SUBSET Apis : removed \in [used -> K8sReleases]
  /\ status \subseteq Apis
  /\ compatibility \subseteq [version : Minors, apis : SUBSET Apis]
  /\ limit \in Limits /\ maxCompatible \in Limits
  /\ pc = "namespace" /\ namespaces > 0 => maxCompatible # Undefined
  /\ namespaces \in 0 .. MaxNamespaces /\ runs \in 0 .. MaxRuns
  /\ found \subseteq Minors

Init ==
  /\ pc = "idle" /\ current \in Currents
  /\ removed = <<>> /\ version = current /\ status = {} /\ compatibility = {}
  /\ limit = Undefined /\ maxCompatible = Undefined
  /\ namespaces = 0 /\ runs = 0 /\ found = {}

\* A run of the role starts, on a cluster that may have been upgraded; the facts
\* of an earlier run are still set.
Start ==
  /\ pc = "idle" /\ runs < MaxRuns
  /\ pc' = "namespace" /\ runs' = runs + 1 /\ namespaces' = 0
  /\ current' \in {v \in Currents : v >= current}
  /\ UNCHANGED <<filterVars, limit, maxCompatible, found>>

-----------------------------------------------------------------------------
(* The filter.                                                             *)

K8s2ocp(m) == m - 13

Releases(r) == {K8s2ocp(r[a]) : a \in DOMAIN r}

\* failed_versions, and the APIs a version removes.
Failed       == Releases(removed)
RemovedIn(v) == {a \in DOMAIN removed : K8s2ocp(removed[a]) = v}

\* max_version is the largest number: here the versions are padded.
MaxVersion ==
  CHOOSE m \in Failed \cup {current + 1} : \A v \in Failed \cup {current + 1} : v <= m

\* "4.a" <= "4.b" as strings, for numbers of one or two digits.
FirstDigit(n) == IF n < 10 THEN n ELSE n \div 10
StrLeq(a, b) ==
  \/ FirstDigit(a) < FirstDigit(b)
  \/ /\ FirstDigit(a) = FirstDigit(b)
     /\ \/ a < 10
        \/ b >= 10 /\ a % 10 <= b % 10

\* To a cluster of one digit no release of two is later as a string.  So it is from
\* 4.8 on, and APIs are counted from 4.9 on, for all releases before 4.80.
ASSUME DigitsAssumption ==
  \A c \in Currents, m \in K8sReleases : c < 10 /\ K8s2ocp(m) >= 10 => ~StrLeq(c, K8s2ocp(m))

\* The API requests of one namespace are read, and the filter is called.
Examine ==
  /\ pc = "namespace" /\ namespaces < MaxNamespaces
  /\ pc' = "loop" /\ namespaces' = namespaces + 1
  /\ \E used \in SUBSET Apis : removed' \in [used -> K8sReleases]
  /\ found' = found \cup Releases(removed')
  /\ version' = current /\ status' = {} /\ compatibility' = {}
  /\ UNCHANGED <<current, limit, maxCompatible, runs>>

\* Mutant: nothing is carried over a version that removes no API.
IterateForgetting ==
  /\ pc = "loop" /\ StrLeq(version, MaxVersion)
  /\ LET new == RemovedIn(version)
     IN  /\ compatibility' = compatibility \cup {[version |-> version, apis |-> status \cup new]}
         /\ status' = new
  /\ version' = version + 1
  /\ UNCHANGED <<pc, current, removed, limit, maxCompatible, namespaces, runs, found>>

\* Mutant: the version is not bumped.
IterateInPlace ==
  /\ pc = "loop" /\ StrLeq(version, MaxVersion)
  /\ LET new == RemovedIn(version)
     IN  /\ compatibility' = compatibility \cup {[version |-> version, apis |-> status \cup new]}
         /\ status' = IF version \in Failed THEN new ELSE status
  /\ UNCHANGED <<version, pc, current, removed, limit, maxCompatible, namespaces, runs, found>>

\* One iteration.  A version that removes APIs gets those carried along and its
\* own, but only its own are carried on.
Iterate ==
  /\ pc = "loop" /\ StrLeq(version, MaxVersion)
  /\ LET new == RemovedIn(version)
     IN  /\ compatibility' = compatibility \cup {[version |-> version, apis |-> status \cup new]}
         /\ status' = IF version \in Failed THEN new ELSE status
  /\ version' = version + 1
  /\ UNCHANGED <<pc, current, removed, limit, maxCompatible, namespaces, runs, found>>

Return ==
  /\ pc = "loop" /\ ~StrLeq(version, MaxVersion)
  /\ pc' = "limit"
  /\ UNCHANGED <<current, filterVars, limit, maxCompatible, namespaces, runs, found>>

-----------------------------------------------------------------------------
(* The role.                                                               *)

Compatible == {c.version : c \in {d \in compatibility : d.apis = {}}}

\* Mutant: the first compatible version is taken.
LimitFirst ==
  /\ pc = "limit"
  /\ \/ /\ compatibility # {} /\ \A c \in compatibility : c.apis = {}
        /\ limit' = Unlimited /\ pc' = "compare"
     \/ /\ \E c \in compatibility : c.apis # {}
        /\ limit' \in {v \in Compatible : \A w \in Compatible : StrLeq(v, w)}
        /\ pc' = "compare"
     \/ Compatible = {} /\ pc' = "failed" /\ UNCHANGED limit
  /\ UNCHANGED <<current, filterVars, maxCompatible, namespaces, runs, found>>

\* The highest compatible version is the largest string; none at all is an
\* error.
Limit ==
  /\ pc = "limit"
  /\ \/ /\ compatibility # {} /\ \A c \in compatibility : c.apis = {}
        /\ limit' = Unlimited /\ pc' = "compare"
     \/ /\ \E c \in compatibility : c.apis # {}
        /\ limit' \in {v \in Compatible : \A w \in Compatible : StrLeq(w, v)}
        /\ pc' = "compare"
     \/ Compatible = {} /\ pc' = "failed" /\ UNCHANGED limit
  /\ UNCHANGED <<current, filterVars, maxCompatible, namespaces, runs, found>>

\* Mutant: the last namespace decides.
CompareLast ==
  /\ pc = "compare" /\ maxCompatible' = limit /\ pc' = "namespace"
  /\ UNCHANGED <<current, filterVars, limit, namespaces, runs, found>>

\* The lower of the two, compared as versions.
Compare ==
  /\ pc = "compare"
  /\ maxCompatible' = IF maxCompatible = Undefined \/ limit < maxCompatible
                      THEN limit ELSE maxCompatible
  /\ pc' = "namespace"
  /\ UNCHANGED <<current, filterVars, limit, namespaces, runs, found>>

Finish ==
  /\ pc = "namespace" /\ namespaces > 0 /\ pc' = "idle"
  /\ UNCHANGED <<current, filterVars, limit, maxCompatible, namespaces, runs, found>>

Next == Start \/ Examine \/ Iterate \/ Return \/ Limit \/ Compare \/ Finish

Spec == Init /\ [][Next]_vars

\* The loop and the role run on without waiting for anything.
FairSpec == Spec /\ WF_vars(Next)

-----------------------------------------------------------------------------
(* roles/preflight: the versions an operator declares in its annotations,  *)
(* "range" and "pinned" up to max, "unlimited" from max on.                *)

Declared == [kind : {"range", "pinned", "unlimited"}, max : Minors]

\* Mutant: no task checks an unlimited declaration.
AcceptedUnlimited(d) == d.kind = "unlimited" \/ ~(maxCompatible <= d.max)

\* Neither of the two tasks that may fail does.
Accepted(d) ==
  IF d.kind = "unlimited" THEN maxCompatible = Unlimited ELSE ~(maxCompatible <= d.max)

-----------------------------------------------------------------------------
(* Properties.                                                             *)

\* A version is marked compatible exactly if the workload of the namespace uses
\* no API that was removed between the cluster's version and it, although the
\* filter forgets APIs on the way.
CompatibleIsExact ==
  pc = "limit" =>
    \A c \in compatibility :
      c.apis = {} <=> \A v \in current .. c.version : v \notin Failed

\* All versions up to the limit are compatible with every namespace examined,
\* in this run and in the ones before.
LimitIsSound ==
  pc \in {"namespace", "idle"} /\ maxCompatible # Undefined =>
    \A v \in current .. (IF maxCompatible = Unlimited THEN MaxMinor ELSE maxCompatible) :
      v \notin found

\* The limit is the highest such version: some namespace stops being compatible
\* right after it.
LimitIsHighest ==
  pc \in {"namespace", "idle"} /\ maxCompatible \notin {Undefined, Unlimited} =>
    maxCompatible + 1 \in found

\* An operator whose declared versions pass the check of preflight is
\* compatible with all of them from the cluster's version on.
AcceptedIsCompatible ==
  pc = "idle" /\ maxCompatible # Undefined =>
    \A d \in Declared :
      Accepted(d) => \A v \in current .. (IF d.kind = "unlimited" THEN MaxMinor ELSE d.max) :
                       v \notin found

\* The filter's loop ends, although strings and not numbers are compared.
FilterReturns == pc = "loop" ~> pc # "loop"

=============================================================================
