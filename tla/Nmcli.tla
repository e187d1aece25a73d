------------------------------- MODULE Nmcli -------------------------------
(***************************************************************************)
(* plugins/modules/nmcli.py: runs of the module, one after the other, on a *)
(* host whose NetworkManager profiles others change too.                   *)
(*                                                                         *)
(* Each D-Bus listing and each nmcli command is a step of its own.  The    *)
(* parameters are abstracted to the groups of options the commands treat   *)
(* alike: "ip" (addresses, methods, gateways, search domains), "dns",      *)
(* "mtu", "master", "own" (what is specific to the type) and "fixed" (mode *)
(* and primary of a bond, set at creation only).  Value 0 is: not given.   *)
(***************************************************************************)
EXTENDS Naturals, FiniteSets

CONSTANTS
  Requests,   \* The parameter sets the module may be run with.
  Names,      \* Names others give to connections.
  Uuids,      \* Bound: the uuids NetworkManager may hand out.
  Value,      \* Values of an option other than 0.
  MaxRuns,    \* Bound: runs of the module.
  MaxOther,   \* Bound: changes others make.
  None        \* A parameter that is not given.

Types   == {"ethernet", "generic", "team", "team-slave", "bond", "bond-slave",
            "bridge", "bridge-slave", "vlan", "vxlan", "ipip"}
Options == {"ip", "dns", "mtu", "master", "own", "fixed"}
Given   == [Options -> Value \cup {0}]

ASSUME BoundsAssumption == MaxRuns \in Nat /\ MaxOther \in Nat
ASSUME NamesAssumption == Names \subseteq STRING
ASSUME ValueAssumption == Value \subseteq Nat \ {0}
ASSUME RequestsAssumption ==
  Requests \subseteq [state : {"present", "absent"}, name : STRING,
                      type : Types \cup {None}, id : STRING \cup {None},
                      ifname : BOOLEAN, opts : Given, check : BOOLEAN]

VARIABLES
  pc,         \* Next step of the run, "idle" between runs.
  req,        \* Parameters of the run.
  rc,         \* Return code: "none", "ok" or "error".
  result,     \* Result of the last run: [status, changed].
  profiles,   \* The connection profiles of NetworkManager.
  other,      \* Changes by others so far.
  runs,       \* Runs so far.
  \* History, for the properties.
  before,     \* The profiles when the run started.
  disturbed,  \* Somebody else changed the profiles during the run.
  streak      \* Undisturbed successful runs in a row with these parameters.

runVars  == <<req, runs, before>>
vars == <<pc, rc, result, profiles, other, disturbed, streak, runVars>>

NoRequest == [state |-> "absent", name |-> "", type |-> None, id |-> None,
              ifname |-> FALSE, opts |-> [o \in Options |-> 0], check |-> FALSE]

\* The type NetworkManager stores for a connection added with a given type.
Stored(t) ==
  CASE t \in {"ethernet", "team-slave", "bond-slave", "bridge-slave"} -> "802-3-ethernet"
    [] t = "ipip" -> "ip-tunnel"
    [] OTHER -> t

Profile == [id : STRING, uuid : Uuids, type : {Stored(t) : t \in Types}, opts : Given]

TypeOK ==
  /\ pc \in {"idle", "exists", "modify", "recheck", "create", "create_modify",
             "up", "down", "delete"}
  /\ req \in Requests \cup {NoRequest}
  /\ rc \in {"none", "ok", "error"}
  /\ result \in [status : {"none", "ok", "failed"}, changed : BOOLEAN]
  /\ profiles \subseteq Profile /\ before \subseteq Profile
  /\ other \in 0 .. MaxOther /\ runs \in 0 .. MaxRuns /\ streak \in 0 .. MaxRuns
  /\ disturbed \in BOOLEAN

Foreign(n, u) ==
  [id |-> n, uuid |-> u, type |-> "802-3-ethernet", opts |-> [o \in Options |-> 0]]

Init ==
  /\ pc = "idle" /\ req = NoRequest /\ rc = "none"
  /\ result = [status |-> "none", changed |-> FALSE]
  /\ \/ profiles = {}
     \/ \E n \in Names, u \in Uuids : profiles = {Foreign(n, u)}
  /\ other = 0 /\ runs = 0
  /\ before = profiles /\ disturbed = FALSE /\ streak = 0

-----------------------------------------------------------------------------
(* nmcli and NetworkManager.                                               *)

\* The options a command line carries.
CreateOptions(t) ==
  CASE t \in {"ethernet", "generic", "team"}   -> {"ip"}
    [] t = "bond"                              -> {"ip", "own", "fixed"}
    [] t \in {"bridge", "vlan"}                -> {"ip", "own"}
    [] t \in {"team-slave", "bond-slave"}      -> {"master"}
    [] t = "bridge-slave"                      -> {"master", "own"}
    [] t \in {"vxlan", "ipip"}                 -> {"own"}

ModifyOptions(t) ==
  CASE t = "ethernet"                          -> {"ip", "dns", "mtu"}
    [] t \in {"generic", "team"}               -> {"ip", "dns"}
    [] t \in {"bond", "vlan"}                  -> {"ip", "dns", "own"}
    [] t = "bridge"                            -> {"ip", "own"}
    [] t = "team-slave"                        -> {"master", "mtu"}
    [] t = "bond-slave"                        -> {"master"}
    [] t = "bridge-slave"                      -> {"master", "own"}
    [] t \in {"vxlan", "ipip"}                 -> {"own"}

\* Types whose modify command sets connection.id, and whose add command does.
RenamedByModify == {"ethernet", "generic", "bridge-slave"}
RenamedByCreate == {"bridge-slave"}

\* A key whose value is missing makes nmcli reject the command line.
Complete(r, cmd) ==
  CASE r.type \in {"vlan", "vxlan", "ipip"}      -> r.opts["own"] # 0
    [] r.type \in {"team-slave", "bond-slave"}   -> r.opts["master"] # 0
    [] r.type = "bridge-slave" /\ cmd = "create" -> r.opts["master"] # 0
    [] OTHER                                     -> TRUE

\* An option that is not given is left alone, except by vlan's command lines,
\* which pass every option, an empty string for those not given.
Apply(old, r, options) ==
  [o \in Options |->
     IF o \in options /\ (r.opts[o] # 0 \/ r.type = "vlan") THEN r.opts[o] ELSE old[o]]

\* What nmcli accepts as a connection's ID argument.
Found(n) == {p \in profiles : n \in {p.id, p.uuid}}

FreeUuids == Uuids \ {p.uuid : p \in profiles}

Added(r, u) ==
  [id   |-> IF r.id # None /\ r.type \in RenamedByCreate THEN r.id ELSE r.name,
   uuid |-> u, type |-> Stored(r.type),
   opts |-> Apply([o \in Options |-> 0], r, CreateOptions(r.type))]

Modified(p, r) ==
  [p EXCEPT !.id = IF r.id # None /\ r.type \in RenamedByModify THEN r.id ELSE @,
            !.opts = Apply(@, r, ModifyOptions(r.type))]

\* Every command may also fail for reasons of its own, and then does nothing.
NmcliAdd ==
  \/ /\ Complete(req, "create")
     /\ \E u \in FreeUuids : profiles' = profiles \cup {Added(req, u)}
     /\ rc' = "ok"
  \/ rc' = "error" /\ UNCHANGED profiles

NmcliModify ==
  \/ /\ Complete(req, "modify")
     /\ \E p \in Found(req.name) : profiles' = (profiles \ {p}) \cup {Modified(p, req)}
     /\ rc' = "ok"
  \/ rc' = "error" /\ UNCHANGED profiles

NmcliDelete ==
  \/ /\ Found(req.name) # {}
     /\ profiles' = profiles \ Found(req.name)
     /\ rc' = "ok"
  \/ rc' = "error" /\ UNCHANGED profiles

NmcliUp ==
  /\ rc' \in (IF Found(req.name) = {} THEN {"error"} ELSE {"ok", "error"})
  /\ UNCHANGED profiles

-----------------------------------------------------------------------------
(* The module.                                                             *)

\* Mutant: the id of a connection is not among what is looked up.
UuidExists == \E p \in profiles : req.name \in {p.uuid, p.type}

\* connection_exists: the name is looked up among the ids, the uuids and the
\* types of all connections.
ConnectionExists == \E p \in profiles : req.name \in {p.id, p.uuid, p.type}

Exit(status, changed) ==
  /\ pc' = "idle"
  /\ result' = [status |-> status, changed |-> changed]
  /\ streak' = IF status = "ok" /\ ~disturbed /\ ~req.check THEN streak + 1 ELSE 0

\* Mutant: the return code is not looked at.
FinishAnyway == Exit("ok", rc' # "none")

Finish == Exit(IF rc' = "error" THEN "failed" ELSE "ok", rc' # "none")

Goto(l) == pc' = l /\ UNCHANGED <<result, streak>>

\* Parameters are read and the team-slave checks made.
Start(r) ==
  /\ pc = "idle" /\ runs < MaxRuns
  /\ req' = r /\ runs' = runs + 1 /\ rc' = "none"
  /\ before' = profiles /\ disturbed' = FALSE
  /\ IF r.type = "team-slave" /\ (r.opts["master"] = 0 \/ ~r.ifname)
     THEN /\ pc' = "idle" /\ result' = [status |-> "failed", changed |-> FALSE]
          /\ streak' = 0
     ELSE /\ pc' = "exists" /\ result' = [status |-> "none", changed |-> FALSE]
          /\ streak' = IF r = req THEN streak ELSE 0
  /\ UNCHANGED <<profiles, other>>

\* Mutant: check mode is only respected by the second listing.
ExistsInCheckMode ==
  /\ pc = "exists"
  /\ \/ ConnectionExists /\ Goto(IF req.state = "present" THEN "modify" ELSE "down")
     \/ ~ConnectionExists /\ req.state = "present" /\ Goto("recheck")
     \/ ~ConnectionExists /\ req.state = "absent" /\ Exit("ok", FALSE)
  /\ UNCHANGED <<rc, profiles, other, disturbed, runVars>>

\* Mutant: a connection that exists is not modified.
ExistsUntouched ==
  /\ pc = "exists"
  /\ \/ ConnectionExists /\ req.check /\ Exit("ok", TRUE)
     \/ /\ ConnectionExists /\ ~req.check
        /\ Goto(IF req.state = "present" THEN "recheck" ELSE "down")
     \/ ~ConnectionExists /\ req.state = "present" /\ Goto("recheck")
     \/ ~ConnectionExists /\ req.state = "absent" /\ Exit("ok", FALSE)
  /\ UNCHANGED <<rc, profiles, other, disturbed, runVars>>

Exists ==
  /\ pc = "exists"
  /\ \/ ConnectionExists /\ req.check /\ Exit("ok", TRUE)
     \/ /\ ConnectionExists /\ ~req.check
        /\ Goto(IF req.state = "present" THEN "modify" ELSE "down")
     \/ ~ConnectionExists /\ req.state = "present" /\ Goto("recheck")
     \/ ~ConnectionExists /\ req.state = "absent" /\ Exit("ok", FALSE)
  /\ UNCHANGED <<rc, profiles, other, disturbed, runVars>>

ModifyConnection ==
  /\ pc = "modify"
  /\ \/ req.type # None /\ NmcliModify /\ Goto("recheck")
     \/ req.type = None /\ Exit("failed", FALSE) /\ UNCHANGED <<rc, profiles>>
  /\ UNCHANGED <<other, disturbed, runVars>>

\* Mutant: check mode announces no new connection.
RecheckSilent ==
  /\ pc = "recheck"
  /\ \/ ConnectionExists /\ UNCHANGED rc /\ Finish
     \/ ~ConnectionExists /\ req.check /\ UNCHANGED rc /\ Exit("ok", FALSE)
     \/ ~ConnectionExists /\ ~req.check /\ UNCHANGED rc /\ Goto("create")
  /\ UNCHANGED <<profiles, other, disturbed, runVars>>

\* The second listing; the result of modify stands if the name is found.
Recheck ==
  /\ pc = "recheck"
  /\ \/ ConnectionExists /\ UNCHANGED rc /\ Finish
     \/ ~ConnectionExists /\ req.check /\ UNCHANGED rc /\ Exit("ok", TRUE)
     \/ ~ConnectionExists /\ ~req.check /\ UNCHANGED rc /\ Goto("create")
  /\ UNCHANGED <<profiles, other, disturbed, runVars>>

\* The commands that follow the add: only then are dns and mtu set.
Follow(r) ==
  LET dns == r.opts["dns"] # 0
      mtu == r.opts["mtu"] # 0
  IN  \/ r.type = "team" /\ dns
      \/ r.type \in {"bond", "ethernet"} /\ (dns \/ mtu)
      \/ r.type = "team-slave" /\ mtu

CreateConnection ==
  /\ pc = "create"
  /\ \/ req.type = None /\ Exit("failed", FALSE) /\ UNCHANGED <<rc, profiles>>
     \/ req.type # None /\ Follow(req) /\ NmcliAdd /\ Goto("create_modify")
     \/ req.type # None /\ ~Follow(req) /\ NmcliAdd /\ Finish
  /\ UNCHANGED <<other, disturbed, runVars>>

\* The return code of the add is lost; that of the modification too, unless the
\* connection is a team-slave.
CreateModify ==
  /\ pc = "create_modify" /\ NmcliModify
  /\ IF req.type = "team-slave" THEN Finish ELSE Goto("up")
  /\ UNCHANGED <<other, disturbed, runVars>>

UpConnection ==
  /\ pc = "up" /\ NmcliUp /\ Finish
  /\ UNCHANGED <<other, disturbed, runVars>>

\* The return code of the first command is overwritten by that of the second.
DownConnection ==
  /\ pc = "down" /\ NmcliUp /\ Goto("delete")
  /\ UNCHANGED <<other, disturbed, runVars>>

RemoveConnection ==
  /\ pc = "delete" /\ NmcliDelete /\ Finish
  /\ UNCHANGED <<other, disturbed, runVars>>

Module ==
  \/ Exists \/ ModifyConnection \/ Recheck \/ CreateConnection \/ CreateModify
  \/ UpConnection \/ DownConnection \/ RemoveConnection

-----------------------------------------------------------------------------
(* Others: an administrator, a boot script, another play.                  *)

OtherAdds ==
  /\ \E n \in Names, u \in FreeUuids :
       /\ \A p \in profiles : p.id # n
       /\ profiles' = profiles \cup {Foreign(n, u)}

OtherDeletes == \E p \in profiles : profiles' = profiles \ {p}

Others ==
  /\ other < MaxOther /\ other' = other + 1
  /\ OtherAdds \/ OtherDeletes
  /\ disturbed' = TRUE /\ streak' = 0
  /\ UNCHANGED <<pc, rc, result, runVars>>

Done == pc = "idle" /\ runs = MaxRuns /\ UNCHANGED vars

Next == (\E r \in Requests : Start(r)) \/ Module \/ Others \/ Done

Spec == Init /\ [][Next]_vars

-----------------------------------------------------------------------------
(* Properties.                                                             *)

RunOk == pc = "idle" /\ result.status = "ok" /\ ~disturbed
Renaming == req.id # None

\* A successful run that nobody disturbed leaves the stated state: the
\* connection is there, or it is gone, although the results of all commands but
\* the last are dropped (create_connection, down_connection in main).
StatedStateReached ==
  RunOk /\ ~req.check =>
    /\ req.state = "present" /\ ~Renaming => Found(req.name) # {}
    /\ req.state = "absent" => Found(req.name) = {}

\* What an undisturbed run reports as unchanged, or only checks, it has left
\* alone.
UnchangedIsUntouched ==
  RunOk /\ (req.check \/ ~result.changed) => profiles = before

\* Check mode announces a change whenever the real run would make one.
CheckModeForesees ==
  RunOk /\ req.check /\ ~result.changed =>
    req.state = "absent" /\ Found(req.name) = {}

\* One run need not apply all it was given (results of commands after the add
\* are dropped, and some types add without dns); two in a row do: every option
\* the type's modify command knows then has the value asked for.
SecondRunConverges ==
  RunOk /\ streak >= 2 /\ req.state = "present" /\ req.type # None /\ ~Renaming =>
    \E p \in Found(req.name) :
      \A o \in ModifyOptions(req.type) : req.opts[o] # 0 => p.opts[o] = req.opts[o]

\* Two connections get the same name only if somebody else creates one between
\* the listing and the add.
OneConnectionPerName ==
  (\A r \in Requests : r.id = None) /\ other = 0 =>
    \A p, q \in profiles : p.id = q.id => p = q

=============================================================================
