------------------------- MODULE OperatorLifecycle -------------------------
(***************************************************************************)
(* What the role olm_operator promises about the operators of a namespace, *)
(* without its tasks, waits and retries.  An operator is deployed only as  *)
(* part of a bundle of CSVs that was granted, and a bundle is granted      *)
(* either because somebody wanted one of its CSVs, or because every        *)
(* subscription of the namespace is on automatic approval.                 *)
(***************************************************************************)
EXTENDS Naturals

CONSTANTS
  Operators,   \* The operators that share the namespace.
  MaxVersion   \* Versions of an operator are numbered 1..MaxVersion.

VARIABLES
  mode,        \* Approval mode of each operator's subscription.
  wanted,      \* Version last asked for by the role, 0 if none.
  granted,     \* Bundles (sets of CSVs) that may be deployed.
  deployed     \* Version running, 0 if none.

vars == <<mode, wanted, granted, deployed>>

Modes    == {"absent", "Manual", "Automatic"}
Versions == 1 .. MaxVersion
CSVs     == Operators \X Versions
\* A bundle holds one version of an operator; an older one changes nothing.
Newest(old, o, b) ==
  IF \E v \in Versions : <<o, v>> \in b /\ v > old
  THEN CHOOSE v \in Versions : <<o, v>> \in b /\ v > old
  ELSE old

Init ==
  /\ mode = [o \in Operators |-> "absent"]
  /\ wanted = [o \in Operators |-> 0]
  /\ granted = {}
  /\ deployed = [o \in Operators |-> 0]

\* A version is asked for, or nothing (0).
Want(o) ==
  /\ \E v \in 0 .. MaxVersion : wanted' = [wanted EXCEPT ![o] = v]
  /\ UNCHANGED <<mode, granted, deployed>>

SetMode(o) ==
  /\ \E m \in Modes \ {"absent"} : mode' = [mode EXCEPT ![o] = m]
  /\ UNCHANGED <<wanted, granted, deployed>>

\* Somebody wants a CSV of the bundle.
Grant(b) ==
  /\ \E o \in Operators : <<o, wanted[o]>> \in b
  /\ granted' = granted \cup {b}
  /\ UNCHANGED <<mode, wanted, deployed>>

\* Nobody has to ask: every subscription of the namespace is automatic.
AutoGrant(b) ==
  /\ \A o \in Operators : mode[o] # "Manual"
  /\ \A c \in b : mode[c[1]] = "Automatic"
  /\ granted' = granted \cup {b}
  /\ UNCHANGED <<mode, wanted, deployed>>

Deploy(b) ==
  /\ b \in granted
  /\ deployed' = [o \in Operators |-> Newest(deployed[o], o, b)]
  /\ UNCHANGED <<mode, wanted, granted>>

Next ==
  \/ \E o \in Operators : Want(o) \/ SetMode(o)
  \/ \E b \in SUBSET CSVs : Grant(b) \/ AutoGrant(b) \/ Deploy(b)

Spec == Init /\ [][Next]_vars
=============================================================================
