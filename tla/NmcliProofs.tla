---------------------------- MODULE NmcliProofs ----------------------------
(***************************************************************************)
(* Proofs about nmcli, for all parameters, names and profiles, any number  *)
(* of runs and of changes by others.                                       *)
(***************************************************************************)
EXTENDS Nmcli, TLAPS

\* The runs counted, and what a row of successful runs implies.
HistoryInv ==
  /\ pc # "idle" => req \in Requests /\ streak < runs
  /\ streak <= runs
  /\ streak > 0 => ~disturbed /\ ~req.check /\ (pc = "idle" => result.status = "ok")
  /\ other = 0 => ~disturbed

\* Where a run is, by its parameters.
StageInv ==
  /\ pc \in {"modify", "recheck", "create", "create_modify", "up"} => req.state = "present"
  /\ pc \in {"down", "delete"} => req.state = "absent"
  /\ pc \in {"exists", "modify"} => rc = "none"
  /\ pc = "create_modify" => req.type # None
  /\ pc # "idle" /\ req.check => pc \in {"exists", "recheck"} /\ rc = "none"

\* What is left as the run has found it, or not there before it is added.
UntouchedInv ==
  ~disturbed =>
    /\ pc # "idle" /\ rc = "none" => profiles = before
    /\ pc = "create" \/ (pc = "recheck" /\ rc = "none") => ~ConnectionExists

\* All options the modify command knows have the values asked for.
Applied(p) == \A o \in ModifyOptions(req.type) : req.opts[o] # 0 => p.opts[o] = req.opts[o]

\* The result of a modification lasts until the second listing.
ModifiedInv ==
  pc = "recheck" /\ rc = "ok" /\ ~disturbed /\ ~Renaming => \E p \in Found(req.name) : Applied(p)

\* After a successful run the next one with its parameters finds the connection.
AgainInv ==
  pc # "idle" /\ streak > 0 /\ req.state = "present" /\ ~Renaming =>
    /\ pc \in {"exists", "modify", "recheck"} /\ Found(req.name) # {}
    /\ pc = "recheck" => rc # "none"

IInv ==
  /\ TypeOK /\ HistoryInv /\ StageInv /\ UntouchedInv /\ ModifiedInv /\ AgainInv
  /\ StatedStateReached /\ UnchangedIsUntouched /\ CheckModeForesees /\ SecondRunConverges
  /\ OneConnectionPerName

-----------------------------------------------------------------------------
(* The commands.                                                           *)

\* The fields of the parameters of a run.
LEMMA RequestFields ==
  ASSUME NEW r \in Requests
  PROVE  /\ r.name \in STRING /\ r.type \in Types \cup {None} /\ r.id \in STRING \cup {None}
         /\ r.opts \in Given /\ r.state \in {"present", "absent"} /\ r.check \in BOOLEAN
BY RequestsAssumption

\* A command leaves each option with a value it can have.
LEMMA ApplyType ==
  ASSUME NEW old \in Given, NEW r \in Requests, NEW options
  PROVE  Apply(old, r, options) \in Given
<1>1. \A o \in Options : old[o] \in Value \cup {0} /\ r.opts[o] \in Value \cup {0}
  BY RequestFields DEF Given
<1>. QED  BY <1>1 DEF Apply, Given

\* The commands make profiles.
LEMMA ProfilesMade ==
  ASSUME NEW r \in Requests, r.type # None
  PROVE  /\ \A u \in Uuids : Added(r, u) \in Profile
         /\ \A p \in Profile : /\ Modified(p, r) \in Profile /\ Modified(p, r).uuid = p.uuid
                               /\ r.id = None => Modified(p, r).id = p.id
<1>. /\ r.name \in STRING /\ r.type \in Types /\ r.id \in STRING \cup {None} /\ r.opts \in Given
  BY RequestFields
<1>1. ASSUME NEW u \in Uuids PROVE Added(r, u) \in Profile
  <2>1. [o \in Options |-> 0] \in Given
    BY DEF Given
  <2>2. Apply([o \in Options |-> 0], r, CreateOptions(r.type)) \in Given
    BY <2>1, ApplyType
  <2>3. (IF r.id # None /\ r.type \in RenamedByCreate THEN r.id ELSE r.name) \in STRING
    OBVIOUS
  <2>. QED  BY <2>2, <2>3 DEF Added, Profile
<1>2. ASSUME NEW p \in Profile
      PROVE  /\ Modified(p, r) \in Profile /\ Modified(p, r).uuid = p.uuid
             /\ r.id = None => Modified(p, r).id = p.id
  <2>. DEFINE i == IF r.id # None /\ r.type \in RenamedByModify THEN r.id ELSE p.id
              a == Apply(p.opts, r, ModifyOptions(r.type))
  <2>1. p.id \in STRING /\ p.opts \in Given
    BY DEF Profile
  <2>2. i \in STRING /\ (r.id = None => i = p.id)
    BY <2>1
  <2>3. a \in Given
    BY <2>1, ApplyType
  <2>4. Modified(p, r) = [p EXCEPT !.id = i, !.opts = a]
    BY DEF Modified
  <2>. HIDE DEF i, a
  <2>. QED  BY <2>2, <2>3, <2>4 DEF Profile
<1>. QED  BY <1>1, <1>2

\* A modified profile has the options asked for, whatever it had.
LEMMA ModifiedApplies ==
  ASSUME NEW p \in Profile, req \in Requests, req.type # None
  PROVE  Applied(Modified(p, req))
<1>1. Modified(p, req).opts = Apply(p.opts, req, ModifyOptions(req.type))
  BY DEF Modified, Profile
<1>2. ModifyOptions(req.type) \subseteq Options
  BY RequestFields DEF ModifyOptions, Options, Types
<1>. QED  BY <1>1, <1>2 DEF Applied, Apply

Unique == \A p, q \in profiles : p.id = q.id => p = q

\* What the modify command does to the profiles.
LEMMA ModifyIs ==
  ASSUME TypeOK, req \in Requests, req.type # None, NmcliModify
  PROVE  /\ rc' \in {"ok", "error"} /\ profiles' \subseteq Profile
         /\ rc' = "error" => profiles' = profiles
         /\ rc' = "ok" /\ ~Renaming =>
              \E p \in profiles' : req.name \in {p.id, p.uuid} /\ Applied(p)
         /\ req.id = None /\ Unique => Unique'
<1>1. CASE rc' = "error" /\ profiles' = profiles
  BY <1>1 DEF TypeOK, Unique
<1>2. CASE rc' = "ok" /\ \E p \in Found(req.name) : profiles' = (profiles \ {p}) \cup {Modified(p, req)}
  <2>1. PICK p \in Found(req.name) : profiles' = (profiles \ {p}) \cup {Modified(p, req)}
    BY <1>2
  <2>2. p \in profiles /\ p \in Profile /\ req.name \in {p.id, p.uuid}
    BY DEF Found, TypeOK
  <2>3. /\ Modified(p, req) \in Profile /\ Modified(p, req).uuid = p.uuid
        /\ req.id = None => Modified(p, req).id = p.id
    BY <2>2, ProfilesMade
  <2>4. profiles' \subseteq Profile
    BY <2>1, <2>3 DEF TypeOK
  <2>5. ASSUME ~Renaming
        PROVE  \E q \in profiles' : req.name \in {q.id, q.uuid} /\ Applied(q)
    BY <2>1, <2>2, <2>3, <2>5, ModifiedApplies DEF Renaming
  <2>6. ASSUME req.id = None, Unique PROVE Unique'
    <3>1. ASSUME NEW x \in profiles', NEW y \in profiles', x.id = y.id PROVE x = y
      <4>1. CASE x \in profiles \ {p} /\ y \in profiles \ {p}
        BY <2>6, <3>1, <4>1 DEF Unique
      <4>2. CASE x \in profiles \ {p} /\ y = Modified(p, req)
        BY <2>2, <2>3, <2>6, <3>1, <4>2 DEF Unique
      <4>3. CASE y \in profiles \ {p} /\ x = Modified(p, req)
        BY <2>2, <2>3, <2>6, <3>1, <4>3 DEF Unique
      <4>. QED  BY <2>1, <4>1, <4>2, <4>3
    <3>. QED  BY <3>1 DEF Unique
  <2>. QED  BY <1>2, <2>4, <2>5, <2>6
<1>. QED  BY <1>1, <1>2 DEF NmcliModify

\* What the add command does to the profiles.
LEMMA AddIs ==
  ASSUME TypeOK, req \in Requests, req.type # None, NmcliAdd
  PROVE  /\ rc' \in {"ok", "error"} /\ profiles' \subseteq Profile
         /\ rc' = "ok" /\ ~Renaming => \E p \in profiles' : req.name \in {p.id, p.uuid}
         /\ req.id = None /\ Unique /\ ~ConnectionExists => Unique'
<1>1. CASE rc' = "error" /\ profiles' = profiles
  BY <1>1 DEF TypeOK, Unique
<1>2. CASE rc' = "ok" /\ \E u \in FreeUuids : profiles' = profiles \cup {Added(req, u)}
  <2>1. PICK u \in FreeUuids : profiles' = profiles \cup {Added(req, u)}
    BY <1>2
  <2>2. Added(req, u) \in Profile
    BY ProfilesMade DEF FreeUuids
  <2>3. profiles' \subseteq Profile
    BY <2>1, <2>2 DEF TypeOK
  <2>4. req.id = None => Added(req, u).id = req.name
    BY DEF Added
  <2>5. ASSUME req.id = None, Unique, ~ConnectionExists PROVE Unique'
    <3>1. \A q \in profiles : q.id # req.name
      BY <2>5 DEF ConnectionExists
    <3>2. ASSUME NEW x \in profiles', NEW y \in profiles', x.id = y.id PROVE x = y
      BY <2>1, <2>4, <2>5, <3>1, <3>2 DEF Unique
    <3>. QED  BY <3>2 DEF Unique
  <2>. QED  BY <1>2, <2>1, <2>3, <2>4, <2>5 DEF Renaming
<1>. QED  BY <1>1, <1>2 DEF NmcliAdd

-----------------------------------------------------------------------------
(* The steps of a run.                                                     *)

\* The invariant holds at the start.
LEMMA InitOK == Init => IInv
<1>. SUFFICES ASSUME Init PROVE IInv
  OBVIOUS
<1>1. /\ pc = "idle" /\ req = NoRequest /\ rc = "none" /\ result = [status |-> "none", changed |-> FALSE]
      /\ other = 0 /\ runs = 0 /\ before = profiles /\ disturbed = FALSE /\ streak = 0
  BY DEF Init
<1>2. ASSUME NEW n \in Names, NEW u \in Uuids PROVE Foreign(n, u) \in Profile
  <2>1. Stored("ethernet") = "802-3-ethernet" /\ "ethernet" \in Types
    BY Zenon DEF Stored, Types
  <2>2. [o \in Options |-> 0] \in Given
    BY DEF Given
  <2>3. "802-3-ethernet" \in {Stored(t) : t \in Types}
    BY <2>1
  <2>. QED  BY <2>2, <2>3, NamesAssumption DEF Foreign, Profile
<1>3. profiles \subseteq Profile /\ Unique
  BY <1>2 DEF Init, Unique
<1>4. TypeOK
  <2>1. other \in 0 .. MaxOther /\ runs \in 0 .. MaxRuns /\ streak \in 0 .. MaxRuns
    BY <1>1, BoundsAssumption
  <2>2. result \in [status : {"none", "ok", "failed"}, changed : BOOLEAN] /\ disturbed \in BOOLEAN
    BY <1>1
  <2>3. pc \in {"idle", "exists", "modify", "recheck", "create", "create_modify", "up", "down", "delete"}
        /\ rc \in {"none", "ok", "error"} /\ req \in Requests \cup {NoRequest}
    BY <1>1
  <2>4. before \subseteq Profile
    BY <1>1, <1>3
  <2>. QED  BY <1>3, <2>1, <2>2, <2>3, <2>4 DEF TypeOK
<1>5. HistoryInv /\ StageInv /\ UntouchedInv /\ ModifiedInv /\ AgainInv
  BY <1>1 DEF HistoryInv, StageInv, UntouchedInv, ModifiedInv, AgainInv
<1>6. StatedStateReached /\ UnchangedIsUntouched /\ CheckModeForesees /\ SecondRunConverges
  BY <1>1 DEF StatedStateReached, UnchangedIsUntouched, CheckModeForesees, SecondRunConverges, RunOk
<1>7. OneConnectionPerName
  BY <1>3 DEF OneConnectionPerName, Unique
<1>. QED  BY <1>4, <1>5, <1>6, <1>7 DEF IInv

\* A run that ends has a result; one that goes on keeps that of before.
LEMMA ModuleIs ==
  ASSUME IInv, Module
  PROVE  /\ pc # "idle" /\ req \in Requests /\ UNCHANGED <<other, disturbed, req, runs, before>>
         /\ pc' \in {"idle", "modify", "recheck", "create", "create_modify", "up", "down", "delete"}
         /\ pc' # "idle" => UNCHANGED <<result, streak>>
         /\ pc' = "idle" =>
              /\ result' \in [status : {"ok", "failed"}, changed : BOOLEAN]
              /\ streak' = IF result'.status = "ok" /\ ~disturbed /\ ~req.check THEN streak + 1 ELSE 0
<1>1. pc # "idle"
  BY DEF Module, Exists, ModifyConnection, Recheck, CreateConnection, CreateModify, UpConnection,
         DownConnection, RemoveConnection
<1>2. req \in Requests
  BY <1>1 DEF IInv, HistoryInv
<1>3. UNCHANGED <<other, disturbed, req, runs, before>>
  BY DEF Module, Exists, ModifyConnection, Recheck, CreateConnection, CreateModify, UpConnection,
         DownConnection, RemoveConnection, runVars
<1>4. \/ /\ pc' \in {"modify", "recheck", "create", "create_modify", "up", "down", "delete"}
         /\ UNCHANGED <<result, streak>>
      \/ \E s \in {"ok", "failed"}, c \in BOOLEAN : Exit(s, c)
  <2>1. CASE Exists
    BY <2>1 DEF Exists, Goto
  <2>2. CASE ModifyConnection
    BY <2>2 DEF ModifyConnection, Goto
  <2>3. Finish => \E s \in {"ok", "failed"}, c \in BOOLEAN : Exit(s, c)
    BY DEF Finish
  <2>4. CASE Recheck
    BY <2>3, <2>4 DEF Recheck, Goto
  <2>5. CASE CreateConnection
    BY <2>3, <2>5 DEF CreateConnection, Goto
  <2>6. CASE CreateModify
    BY <2>3, <2>6 DEF CreateModify, Goto
  <2>7. CASE UpConnection \/ DownConnection \/ RemoveConnection
    BY <2>3, <2>7 DEF UpConnection, DownConnection, RemoveConnection, Goto
  <2>. QED  BY <2>1, <2>2, <2>4, <2>5, <2>6, <2>7 DEF Module
<1>5. ASSUME NEW s \in {"ok", "failed"}, NEW c \in BOOLEAN, Exit(s, c)
      PROVE  /\ pc' = "idle" /\ result' \in [status : {"ok", "failed"}, changed : BOOLEAN]
             /\ streak' = IF result'.status = "ok" /\ ~disturbed /\ ~req.check THEN streak + 1 ELSE 0
  BY <1>5 DEF Exit
<1>6. CASE \E s \in {"ok", "failed"}, c \in BOOLEAN : Exit(s, c)
  <2>1. /\ pc' = "idle" /\ result' \in [status : {"ok", "failed"}, changed : BOOLEAN]
        /\ streak' = IF result'.status = "ok" /\ ~disturbed /\ ~req.check THEN streak + 1 ELSE 0
    BY <1>5, <1>6
  <2>. QED  BY <1>1, <1>2, <1>3, <2>1
<1>. QED  BY <1>1, <1>2, <1>3, <1>4, <1>6

\* The profiles and the return code after a step of a run.
LEMMA ModuleProfiles ==
  ASSUME IInv, Module
  PROVE  /\ rc' \in {"none", "ok", "error"} /\ profiles' \subseteq Profile
         /\ (\A r \in Requests : r.id = None) /\ other = 0 => Unique'
<1>0. /\ req \in Requests /\ TypeOK /\ ((\A r \in Requests : r.id = None) /\ other = 0 => Unique)
      /\ rc \in {"none", "ok", "error"} /\ profiles \subseteq Profile
      /\ (\A r \in Requests : r.id = None) => req.id = None
  BY ModuleIs DEF IInv, OneConnectionPerName, Unique, TypeOK
<1>a. ASSUME UNCHANGED profiles PROVE Unique => Unique'
  BY <1>a DEF Unique
<1>1. CASE Exists \/ Recheck
  BY <1>0, <1>1, <1>a DEF Exists, Recheck
<1>2. CASE UpConnection \/ DownConnection
  BY <1>0, <1>2, <1>a DEF UpConnection, DownConnection, NmcliUp
<1>3. CASE ModifyConnection \/ CreateModify
  <2>1. CASE req.type # None /\ NmcliModify
    BY <1>0, <2>1, ModifyIs
  <2>2. CASE UNCHANGED <<rc, profiles>>
    BY <1>0, <1>a, <2>2
  <2>3. CASE CreateModify /\ req.type = None
    BY <2>3 DEF CreateModify, IInv, StageInv
  <2>. QED  BY <1>3, <2>1, <2>2, <2>3 DEF ModifyConnection, CreateModify
<1>4. CASE CreateConnection
  <2>1. CASE req.type # None /\ NmcliAdd
    <3>1. other = 0 => ~ConnectionExists
      BY <1>4 DEF CreateConnection, IInv, HistoryInv, UntouchedInv
    <3>. QED  BY <1>0, <2>1, <3>1, AddIs
  <2>2. CASE UNCHANGED <<rc, profiles>>
    BY <1>0, <1>a, <2>2
  <2>. QED  BY <1>4, <2>1, <2>2 DEF CreateConnection
<1>5. CASE RemoveConnection
  <2>1. rc' \in {"ok", "error"} /\ profiles' \subseteq profiles
    BY <1>5 DEF RemoveConnection, NmcliDelete
  <2>2. Unique => Unique'
    BY <2>1 DEF Unique
  <2>. QED  BY <1>0, <2>1, <2>2
<1>. QED  BY <1>1, <1>2, <1>3, <1>4, <1>5 DEF Module

\* What others do.
LEMMA OthersAre ==
  ASSUME TypeOK, Others
  PROVE  /\ UNCHANGED <<pc, rc, result, req, runs, before>> /\ disturbed' = TRUE /\ streak' = 0
         /\ other' = other + 1 /\ other < MaxOther /\ profiles' \subseteq Profile
<1>1. CASE OtherAdds
  <2>1. PICK n \in Names, u \in FreeUuids : profiles' = profiles \cup {Foreign(n, u)}
    BY <1>1 DEF OtherAdds
  <2>2. Stored("ethernet") = "802-3-ethernet" /\ "ethernet" \in Types
    BY Zenon DEF Stored, Types
  <2>3. [o \in Options |-> 0] \in Given /\ "802-3-ethernet" \in {Stored(t) : t \in Types}
    BY <2>2 DEF Given
  <2>4. Foreign(n, u) \in Profile
    BY <2>3, NamesAssumption DEF Foreign, Profile, FreeUuids
  <2>5. profiles' \subseteq Profile
    BY <2>1, <2>4 DEF TypeOK
  <2>. QED  BY <2>5 DEF Others, runVars
<1>2. CASE OtherDeletes
  BY <1>2 DEF OtherDeletes, Others, runVars, TypeOK
<1>. QED  BY <1>1, <1>2 DEF Others

\* The variables keep their types.
LEMMA TypeKept == IInv /\ [Next]_vars => TypeOK'
<1>. SUFFICES ASSUME IInv, [Next]_vars PROVE TypeOK'
  OBVIOUS
<1>0. TypeOK
  BY DEF IInv
<1>1. CASE \E r \in Requests : Start(r)
  <2>1. PICK r \in Requests : Start(r)
    BY <1>1
  <2>2. runs' \in 0 .. MaxRuns /\ streak' \in 0 .. MaxRuns
    BY <1>0, <2>1, BoundsAssumption DEF Start, TypeOK
  <2>3. /\ pc' \in {"idle", "exists"} /\ req' \in Requests /\ rc' = "none" /\ disturbed' \in BOOLEAN
        /\ before' = profiles /\ UNCHANGED <<profiles, other>>
    BY <2>1 DEF Start
  <2>4. \E s \in {"none", "failed"} : result' = [status |-> s, changed |-> FALSE]
    BY <2>1 DEF Start
  <2>5. result' \in [status : {"none", "ok", "failed"}, changed : BOOLEAN]
    BY <2>4
  <2>. QED  BY <1>0, <2>2, <2>3, <2>5 DEF TypeOK
<1>2. CASE Module
  <2>1. /\ UNCHANGED <<other, disturbed, req, runs, before>> /\ profiles' \subseteq Profile
        /\ pc' \in {"idle", "modify", "recheck", "create", "create_modify", "up", "down", "delete"}
        /\ rc' \in {"none", "ok", "error"}
    BY <1>2, ModuleIs, ModuleProfiles
  <2>2. result' \in [status : {"none", "ok", "failed"}, changed : BOOLEAN]
    BY <1>0, <1>2, <2>1, ModuleIs DEF TypeOK
  <2>3. streak' \in 0 .. MaxRuns
    <3>1. streak < runs /\ streak \in 0 .. MaxRuns /\ runs \in 0 .. MaxRuns
      BY <1>0, <1>2, ModuleIs DEF TypeOK, IInv, HistoryInv
    <3>2. streak' \in {streak, streak + 1, 0}
      BY <1>2, <2>1, ModuleIs
    <3>. QED  BY <3>1, <3>2, BoundsAssumption
  <2>. QED  BY <1>0, <2>1, <2>2, <2>3 DEF TypeOK
<1>3. CASE Others
  <2>1. other' \in 0 .. MaxOther /\ streak' \in 0 .. MaxRuns
    <3>1. other' = other + 1 /\ other < MaxOther /\ streak' = 0
      BY <1>0, <1>3, OthersAre
    <3>2. other \in Nat
      BY <1>0, BoundsAssumption DEF TypeOK
    <3>. QED  BY <3>1, <3>2, BoundsAssumption
  <2>. QED  BY <1>0, <1>3, <2>1, OthersAre DEF TypeOK
<1>4. CASE UNCHANGED vars
  BY <1>0, <1>4 DEF vars, runVars, TypeOK
<1>. QED  BY <1>1, <1>2, <1>3, <1>4 DEF Next, Done

\* A row of successful runs is no longer than the runs.
LEMMA HistoryKept == IInv /\ [Next]_vars => HistoryInv'
<1>. SUFFICES ASSUME IInv, [Next]_vars PROVE HistoryInv'
  OBVIOUS
<1>0. /\ TypeOK /\ HistoryInv /\ streak \in Nat /\ runs \in Nat /\ other \in Nat
      /\ disturbed \in BOOLEAN
  BY BoundsAssumption DEF IInv, TypeOK
<1>1. CASE \E r \in Requests : Start(r)
  <2>1. PICK r \in Requests : Start(r)
    BY <1>1
  <2>2. /\ pc = "idle" /\ runs' = runs + 1 /\ req' = r /\ disturbed' = FALSE
        /\ streak' = 0 \/ (streak' = streak /\ pc' = "exists" /\ r = req)
    BY <2>1 DEF Start
  <2>3. streak' < runs' /\ streak' <= runs'
    BY <1>0, <2>2 DEF HistoryInv
  <2>4. streak' > 0 => ~disturbed' /\ ~req'.check /\ pc' # "idle"
    <3>1. ASSUME streak' > 0 PROVE streak' = streak /\ pc' = "exists" /\ r = req /\ streak > 0
      BY <1>0, <2>2, <3>1
    <3>. QED  BY <1>0, <2>2, <3>1 DEF HistoryInv
  <2>. QED  BY <2>2, <2>3, <2>4 DEF HistoryInv
<1>2. CASE Module
  <2>1. /\ pc # "idle" /\ req \in Requests /\ UNCHANGED <<other, disturbed, req, runs, before>>
        /\ pc' # "idle" => streak' = streak
        /\ pc' = "idle" =>
             streak' = IF result'.status = "ok" /\ ~disturbed /\ ~req.check THEN streak + 1 ELSE 0
    BY <1>2, ModuleIs
  <2>2. streak < runs
    BY <1>0, <2>1 DEF HistoryInv
  <2>3. CASE pc' # "idle"
    BY <1>0, <2>1, <2>2, <2>3 DEF HistoryInv
  <2>4. CASE pc' = "idle" /\ streak' = 0
    BY <1>0, <2>1, <2>2, <2>4 DEF HistoryInv
  <2>5. CASE pc' = "idle" /\ streak' = streak + 1 /\ result'.status = "ok" /\ ~disturbed /\ ~req.check
    BY <1>0, <2>1, <2>2, <2>5 DEF HistoryInv
  <2>. QED  BY <2>1, <2>3, <2>4, <2>5
<1>3. CASE Others
  <2>1. /\ UNCHANGED <<pc, req, runs>> /\ streak' = 0 /\ other' = other + 1
    BY <1>0, <1>3, OthersAre
  <2>2. 0 <= runs /\ (pc # "idle" => req \in Requests /\ 0 < runs) /\ other' # 0
    BY <1>0, <2>1 DEF HistoryInv
  <2>. QED  BY <2>1, <2>2 DEF HistoryInv
<1>4. CASE UNCHANGED vars
  BY <1>0, <1>4 DEF vars, runVars, HistoryInv
<1>. QED  BY <1>1, <1>2, <1>3, <1>4 DEF Next, Done

\* A run stays on the way of its parameters.
LEMMA StageKept == IInv /\ [Next]_vars => StageInv'
<1>. SUFFICES ASSUME IInv, [Next]_vars PROVE StageInv'
  OBVIOUS
<1>0. StageInv /\ TypeOK
  BY DEF IInv
<1>1. CASE \E r \in Requests : Start(r)
  BY <1>1 DEF Start, StageInv
<1>2. CASE Module
  <2>1. req' = req /\ req \in Requests /\ req.state \in {"present", "absent"} /\ req.check \in BOOLEAN
    BY <1>2, ModuleIs, RequestFields
  <2>2. CASE pc' = "idle"
    BY <2>2 DEF StageInv
  <2>3. CASE Exists /\ pc' # "idle"
    BY <1>0, <2>1, <2>3 DEF Exists, Goto, Exit, StageInv
  <2>4. CASE (ModifyConnection \/ Recheck) /\ pc' # "idle"
    BY <1>0, <2>1, <2>4 DEF ModifyConnection, Recheck, Finish, Goto, Exit, StageInv
  <2>5. CASE (CreateConnection \/ CreateModify \/ DownConnection) /\ pc' # "idle"
    BY <1>0, <2>1, <2>5 DEF CreateConnection, CreateModify, DownConnection, Finish, Goto, Exit, StageInv
  <2>. QED
    BY <1>2, <2>2, <2>3, <2>4, <2>5 DEF Module, UpConnection, RemoveConnection, Finish, Exit
<1>3. CASE Others
  BY <1>0, <1>3, OthersAre DEF StageInv
<1>4. CASE UNCHANGED vars
  BY <1>0, <1>4 DEF vars, runVars, StageInv
<1>. QED  BY <1>1, <1>2, <1>3, <1>4 DEF Next, Done

\* Until a command is run the profiles are those the run has found, and what is added
\* was not there.
LEMMA UntouchedKept == IInv /\ [Next]_vars => UntouchedInv'
<1>. SUFFICES ASSUME IInv, [Next]_vars, ~disturbed'
              PROVE  /\ pc' # "idle" /\ rc' = "none" => profiles' = before'
                     /\ pc' = "create" \/ (pc' = "recheck" /\ rc' = "none") => ~ConnectionExists'
  BY DEF UntouchedInv
<1>0. TypeOK
  BY DEF IInv
<1>1. CASE \E r \in Requests : Start(r)
  BY <1>1 DEF Start
<1>2. CASE Module
  <2>1. UNCHANGED <<disturbed, req, before>> /\ pc # "idle" /\ ~disturbed
    BY <1>2, ModuleIs
  <2>2. rc = "none" => profiles = before
    BY <2>1 DEF IInv, UntouchedInv
  <2>3. UNCHANGED profiles => ConnectionExists' = ConnectionExists
    BY <2>1 DEF ConnectionExists
  <2>4. CASE Exists
    BY <2>1, <2>2, <2>3, <2>4 DEF Exists, Goto, Exit
  <2>5. CASE Recheck
    BY <2>1, <2>2, <2>3, <2>5 DEF Recheck, Finish, Goto, Exit
  <2>6. CASE ModifyConnection \/ CreateConnection
    BY <2>6 DEF ModifyConnection, CreateConnection, NmcliModify, NmcliAdd, Finish, Goto, Exit
  <2>7. CASE CreateModify \/ UpConnection \/ DownConnection \/ RemoveConnection
    BY <2>7 DEF CreateModify, UpConnection, DownConnection, RemoveConnection, NmcliModify, NmcliUp,
                NmcliDelete, Finish, Goto, Exit
  <2>. QED  BY <1>2, <2>4, <2>5, <2>6, <2>7 DEF Module
<1>3. CASE Others
  BY <1>0, <1>3, OthersAre
<1>4. CASE UNCHANGED vars
  BY <1>4 DEF vars, runVars, IInv, UntouchedInv, ConnectionExists
<1>. QED  BY <1>1, <1>2, <1>3, <1>4 DEF Next, Done

\* What a modification has set is still set at the second listing.
LEMMA ModifiedKept == IInv /\ [Next]_vars => ModifiedInv'
<1>. SUFFICES ASSUME IInv, [Next]_vars, pc' = "recheck", rc' = "ok", ~disturbed', ~Renaming'
              PROVE  \E p \in profiles' : req'.name \in {p.id, p.uuid} /\ Applied(p)'
  BY DEF ModifiedInv, Found
<1>0. TypeOK
  BY DEF IInv
<1>1. CASE \E r \in Requests : Start(r)
  BY <1>1 DEF Start
<1>2. CASE ModifyConnection
  <2>1. req' = req /\ req \in Requests
    BY <1>2, ModuleIs DEF Module
  <2>2. req.type # None /\ NmcliModify
    BY <1>2, pc' = "recheck" DEF ModifyConnection, Exit
  <2>3. PICK p \in profiles' : req.name \in {p.id, p.uuid} /\ Applied(p)
    BY <1>0, <2>1, <2>2, ModifyIs DEF Renaming
  <2>4. Applied(p)'
    BY <2>1, <2>3 DEF Applied
  <2>. QED  BY <2>1, <2>3, <2>4
<1>3. CASE Exists
  BY <1>3, rc' = "ok" DEF Exists, IInv, StageInv
<1>4. CASE Recheck \/ CreateConnection \/ CreateModify \/ UpConnection \/ DownConnection \/ RemoveConnection
  BY <1>4, pc' = "recheck" DEF Recheck, CreateConnection, CreateModify, UpConnection, DownConnection,
                               RemoveConnection, Finish, Goto, Exit
<1>5. CASE Others
  BY <1>0, <1>5, OthersAre
<1>6. CASE UNCHANGED vars
  <2>1. PICK p \in Found(req.name) : Applied(p)
    BY <1>6 DEF vars, runVars, IInv, ModifiedInv, Renaming
  <2>2. Applied(p)' /\ p \in profiles' /\ req'.name \in {p.id, p.uuid}
    BY <1>6, <2>1 DEF vars, runVars, Applied, Found
  <2>. QED  BY <2>2
<1>. QED  BY <1>1, <1>2, <1>3, <1>4, <1>5, <1>6 DEF Next, Done, Module

\* A connection that is found is among those that exist.
LEMMA FoundExists == Found(req.name) # {} => ConnectionExists
BY DEF Found, ConnectionExists

\* A repeated run modifies the connection the run before has left.
LEMMA AgainKept == IInv /\ [Next]_vars => AgainInv'
<1>. SUFFICES ASSUME IInv, [Next]_vars, pc' # "idle", streak' > 0, req'.state = "present", ~Renaming'
              PROVE  /\ pc' \in {"exists", "modify", "recheck"}
                     /\ \E p \in profiles' : req'.name \in {p.id, p.uuid}
                     /\ pc' = "recheck" => rc' # "none"
  BY DEF AgainInv, Found
<1>0. TypeOK
  BY DEF IInv
<1>1. CASE \E r \in Requests : Start(r)
  <2>1. PICK r \in Requests : Start(r)
    BY <1>1
  <2>2. pc = "idle" /\ pc' = "exists" /\ req' = req /\ streak > 0 /\ profiles' = profiles
    BY <2>1, pc' # "idle", streak' > 0 DEF Start
  <2>3. RunOk /\ ~req.check /\ req.state = "present" /\ ~Renaming
    BY <2>2 DEF IInv, HistoryInv, RunOk, Renaming
  <2>4. Found(req.name) # {}
    BY <2>3 DEF IInv, StatedStateReached
  <2>. QED  BY <2>2, <2>4 DEF Found
<1>2. CASE Module
  <2>1. pc # "idle" /\ req' = req /\ req \in Requests /\ streak' = streak
    BY <1>2, ModuleIs
  <2>2. ~Renaming /\ req.state = "present" /\ streak > 0
    BY <2>1 DEF Renaming
  <2>3. pc \in {"exists", "modify", "recheck"} /\ Found(req.name) # {} /\ ConnectionExists
    BY <2>1, <2>2, FoundExists DEF IInv, AgainInv
  <2>4. CASE Exists
    <3>1. pc' = "modify" /\ profiles' = profiles
      BY <2>2, <2>3, <2>4, pc' # "idle" DEF Exists, Goto, Exit
    <3>. QED  BY <2>1, <2>3, <3>1 DEF Found
  <2>5. CASE ModifyConnection
    <3>1. pc' = "recheck" /\ req.type # None /\ NmcliModify
      BY <2>5, pc' # "idle" DEF ModifyConnection, Goto, Exit
    <3>2. /\ rc' \in {"ok", "error"} /\ (rc' = "error" => profiles' = profiles)
          /\ rc' = "ok" => \E p \in profiles' : req.name \in {p.id, p.uuid}
      BY <1>0, <2>1, <2>2, <3>1, ModifyIs
    <3>. QED  BY <2>1, <2>3, <3>1, <3>2 DEF Found
  <2>6. CASE Recheck
    BY <2>3, <2>6, pc' # "idle" DEF Recheck, Finish, Exit
  <2>. QED
    BY <1>2, <2>3, <2>4, <2>5, <2>6
    DEF Module, CreateConnection, CreateModify, UpConnection, DownConnection, RemoveConnection
<1>3. CASE Others
  BY <1>0, <1>3, streak' > 0, OthersAre
<1>4. CASE UNCHANGED vars
  BY <1>4 DEF vars, runVars, IInv, AgainInv, Renaming, Found
<1>. QED  BY <1>1, <1>2, <1>3, <1>4 DEF Next, Done

\* A run that ends well and undisturbed has just ended, or nothing has changed since.
LEMMA RunOkIs ==
  ASSUME IInv, [Next]_vars, RunOk'
  PROVE  \/ Module /\ pc' = "idle" /\ result'.status = "ok" /\ ~disturbed /\ pc # "idle"
            /\ req \in Requests /\ UNCHANGED <<req, before>>
         \/ RunOk /\ UNCHANGED vars
<1>1. CASE \E r \in Requests : Start(r)
  BY <1>1 DEF Start, RunOk
<1>2. CASE Module
  BY <1>2, ModuleIs DEF RunOk
<1>3. CASE Others
  BY <1>3, OthersAre DEF RunOk, IInv
<1>4. CASE UNCHANGED vars
  BY <1>4 DEF vars, RunOk
<1>. QED  BY <1>1, <1>2, <1>3, <1>4 DEF Next, Done

\* A run that ends with a command ends well if the command has.
LEMMA FinishIs ==
  ASSUME Finish, rc' \in {"ok", "error"}, result'.status = "ok"
  PROVE  rc' = "ok" /\ result'.changed
<1>1. rc' # "error" /\ result'.changed = (rc' # "none")
  BY DEF Finish, Exit
<1>. QED  BY <1>1

\* The ways a run ends well.
LEMMA EndsWell ==
  ASSUME IInv, Module, pc' = "idle", result'.status = "ok", ~disturbed
  PROVE  \/ /\ Exists /\ ConnectionExists /\ req.check /\ result'.changed
            /\ UNCHANGED profiles /\ profiles = before
         \/ /\ Exists /\ ~ConnectionExists /\ req.state = "absent" /\ ~result'.changed
            /\ UNCHANGED profiles /\ profiles = before
         \/ /\ pc = "recheck" /\ rc = "ok" /\ result'.changed /\ ~req.check /\ UNCHANGED profiles
         \/ /\ pc = "recheck" /\ req.check /\ result'.changed /\ UNCHANGED profiles /\ profiles = before
         \/ /\ pc \in {"create", "create_modify", "up", "delete"} /\ rc' = "ok" /\ result'.changed
            /\ ~req.check
<1>0. /\ pc # "idle" /\ req.state \in {"present", "absent"} /\ rc \in {"none", "ok", "error"}
  BY ModuleIs, RequestFields DEF IInv, TypeOK
<1>1. rc = "none" => profiles = before
  BY <1>0 DEF IInv, UntouchedInv
<1>2. req.check => pc \in {"exists", "recheck"} /\ rc = "none"
  BY <1>0 DEF IInv, StageInv
<1>3. CASE Exists
  BY <1>1, <1>3, pc' = "idle", result'.status = "ok" DEF Exists, Goto, Exit, IInv, StageInv
<1>4. CASE ModifyConnection
  BY <1>4, pc' = "idle", result'.status = "ok" DEF ModifyConnection, Goto, Exit
<1>5. CASE Recheck
  <2>1. CASE ConnectionExists
    <3>1. rc # "error" /\ result'.changed = (rc # "none")
      BY <1>5, <2>1, result'.status = "ok" DEF Recheck, Finish, Exit
    <3>2. rc # "none"
      BY <1>5, <2>1 DEF Recheck, IInv, UntouchedInv
    <3>. QED  BY <1>0, <1>2, <1>5, <3>1, <3>2 DEF Recheck
  <2>2. CASE ~ConnectionExists
    <3>1. req.check /\ result'.changed
      BY <1>5, <2>2, pc' = "idle" DEF Recheck, Goto, Exit
    <3>. QED  BY <1>1, <1>2, <1>5, <3>1 DEF Recheck
  <2>. QED  BY <2>1, <2>2
<1>6. CASE CreateConnection
  <2>1. Finish /\ rc' \in {"ok", "error"}
    BY <1>6, pc' = "idle", result'.status = "ok" DEF CreateConnection, NmcliAdd, Goto, Exit
  <2>. QED  BY <1>2, <1>6, <2>1, FinishIs DEF CreateConnection
<1>7. CASE CreateModify
  <2>1. Finish /\ rc' \in {"ok", "error"}
    BY <1>7, pc' = "idle" DEF CreateModify, NmcliModify, Goto
  <2>. QED  BY <1>2, <1>7, <2>1, FinishIs DEF CreateModify
<1>8. CASE UpConnection \/ DownConnection \/ RemoveConnection
  <2>1. Finish /\ rc' \in {"ok", "error"} /\ pc \in {"up", "delete"}
    BY <1>8, pc' = "idle" DEF UpConnection, DownConnection, RemoveConnection, NmcliUp, NmcliDelete, Goto
  <2>. QED  BY <1>2, <2>1, FinishIs
<1>. QED  BY <1>3, <1>4, <1>5, <1>6, <1>7, <1>8 DEF Module

\* A run that ends well leaves the stated state.
LEMMA StatedKept == IInv /\ [Next]_vars => StatedStateReached'
<1>. SUFFICES ASSUME IInv, [Next]_vars, RunOk', ~req'.check
              PROVE  /\ req'.state = "present" /\ ~Renaming' =>
                          \E p \in profiles' : req'.name \in {p.id, p.uuid}
                     /\ req'.state = "absent" => \A p \in profiles' : req'.name \notin {p.id, p.uuid}
  BY DEF StatedStateReached, Found
<1>0. TypeOK
  BY DEF IInv
<1>1. CASE RunOk /\ UNCHANGED vars
  BY <1>1 DEF vars, runVars, IInv, StatedStateReached, Found, Renaming
<1>2. CASE Module /\ pc' = "idle" /\ result'.status = "ok" /\ ~disturbed /\ pc # "idle"
            /\ req \in Requests /\ UNCHANGED <<req, before>>
  <2>. SUFFICES /\ req.state = "present" /\ ~Renaming => \E p \in profiles' : req.name \in {p.id, p.uuid}
                /\ req.state = "absent" => \A p \in profiles' : req.name \notin {p.id, p.uuid}
    BY <1>2 DEF Renaming
  <2>0. ~req.check
    BY <1>2
  <2>1. CASE Exists /\ ~ConnectionExists /\ req.state = "absent" /\ UNCHANGED profiles
    BY <2>1 DEF ConnectionExists
  <2>2. CASE pc = "recheck" /\ rc = "ok" /\ UNCHANGED profiles
    BY <1>2, <2>2 DEF IInv, StageInv, ModifiedInv, Found
  <2>3. CASE pc \in {"create", "create_modify", "up", "delete"} /\ rc' = "ok"
    <3>1. CASE CreateConnection
      <4>1. req.state = "present" /\ req.type # None /\ NmcliAdd
        BY <1>2, <3>1 DEF CreateConnection, Exit, IInv, StageInv
      <4>. QED  BY <1>0, <1>2, <2>3, <4>1, AddIs
    <3>2. CASE CreateModify
      <4>1. req.state = "present" /\ req.type # None /\ NmcliModify
        BY <3>2 DEF CreateModify, IInv, StageInv
      <4>. QED  BY <1>0, <1>2, <2>3, <4>1, ModifyIs
    <3>3. CASE UpConnection
      BY <2>3, <3>3 DEF UpConnection, NmcliUp, IInv, StageInv, Found
    <3>4. CASE RemoveConnection
      BY <2>3, <3>4 DEF RemoveConnection, NmcliDelete, IInv, StageInv, Found
    <3>. QED
      BY <1>2, <2>3, <3>1, <3>2, <3>3, <3>4 DEF Module, Exists, ModifyConnection, Recheck, DownConnection
  <2>. QED  BY <1>2, <2>0, <2>1, <2>2, <2>3, EndsWell
<1>. QED  BY <1>1, <1>2, RunOkIs

\* A run that reports no change, or checks only, changes nothing.
LEMMA UnchangedKept == IInv /\ [Next]_vars => UnchangedIsUntouched'
<1>. SUFFICES ASSUME IInv, [Next]_vars, RunOk', req'.check \/ ~result'.changed
              PROVE  profiles' = before'
  BY DEF UnchangedIsUntouched
<1>1. CASE RunOk /\ UNCHANGED vars
  BY <1>1 DEF vars, runVars, IInv, UnchangedIsUntouched
<1>2. CASE Module /\ pc' = "idle" /\ result'.status = "ok" /\ ~disturbed /\ pc # "idle"
            /\ req \in Requests /\ UNCHANGED <<req, before>>
  BY <1>2, EndsWell
<1>. QED  BY <1>1, <1>2, RunOkIs

\* A check that announces nothing is one of an absent connection nobody has.
LEMMA CheckKept == IInv /\ [Next]_vars => CheckModeForesees'
<1>. SUFFICES ASSUME IInv, [Next]_vars, RunOk', req'.check, ~result'.changed
              PROVE  req'.state = "absent" /\ \A p \in profiles' : req'.name \notin {p.id, p.uuid}
  BY DEF CheckModeForesees, Found
<1>1. CASE RunOk /\ UNCHANGED vars
  BY <1>1 DEF vars, runVars, IInv, CheckModeForesees, Found
<1>2. CASE Module /\ pc' = "idle" /\ result'.status = "ok" /\ ~disturbed /\ pc # "idle"
            /\ req \in Requests /\ UNCHANGED <<req, before>>
  <2>1. ~ConnectionExists /\ req.state = "absent" /\ UNCHANGED profiles
    BY <1>2, EndsWell
  <2>. QED  BY <1>2, <2>1 DEF ConnectionExists
<1>. QED  BY <1>1, <1>2, RunOkIs

\* The second of two runs has applied what it was given.
LEMMA SecondKept == IInv /\ [Next]_vars => SecondRunConverges'
<1>. SUFFICES ASSUME IInv, [Next]_vars, RunOk', streak' >= 2, req'.state = "present",
                     req'.type # None, ~Renaming'
              PROVE  \E p \in profiles' : req'.name \in {p.id, p.uuid} /\ Applied(p)'
  BY DEF SecondRunConverges, Found, Applied
<1>1. CASE RunOk /\ UNCHANGED vars
  <2>1. PICK p \in Found(req.name) : Applied(p)
    BY <1>1 DEF vars, runVars, IInv, SecondRunConverges, Renaming, Applied
  <2>2. Applied(p)' /\ p \in profiles' /\ req'.name \in {p.id, p.uuid}
    BY <1>1, <2>1 DEF vars, runVars, Applied, Found
  <2>. QED  BY <2>2
<1>2. CASE Module /\ pc' = "idle" /\ result'.status = "ok" /\ ~disturbed /\ pc # "idle"
            /\ req \in Requests /\ UNCHANGED <<req, before>>
  <2>1. streak' = streak + 1 /\ ~req.check
    BY <1>2, streak' >= 2, ModuleIs
  <2>2. streak \in Nat
    BY BoundsAssumption DEF IInv, TypeOK
  <2>3. streak > 0
    BY <2>1, <2>2
  <2>4. ~Renaming /\ req.state = "present"
    BY <1>2 DEF Renaming
  <2>5. pc \in {"exists", "modify", "recheck"}
    BY <1>2, <2>3, <2>4 DEF IInv, AgainInv
  <2>6. pc = "recheck" /\ rc = "ok" /\ UNCHANGED profiles
    BY <1>2, <2>1, <2>4, <2>5, EndsWell
  <2>7. PICK p \in Found(req.name) : Applied(p)
    BY <1>2, <2>4, <2>6 DEF IInv, ModifiedInv
  <2>8. Applied(p)' /\ p \in profiles' /\ req'.name \in {p.id, p.uuid}
    BY <1>2, <2>6, <2>7 DEF Applied, Found
  <2>. QED  BY <2>8
<1>. QED  BY <1>1, <1>2, RunOkIs

\* No two connections get the same name.
LEMMA OneKept == IInv /\ [Next]_vars => OneConnectionPerName'
<1>. SUFFICES ASSUME IInv, [Next]_vars, \A r \in Requests : r.id = None, other' = 0 PROVE Unique'
  BY DEF OneConnectionPerName, Unique
<1>0. TypeOK /\ (other = 0 => Unique)
  BY DEF IInv, OneConnectionPerName, Unique
<1>1. CASE (\E r \in Requests : Start(r)) \/ UNCHANGED vars
  BY <1>0, <1>1 DEF Start, vars, Unique
<1>2. CASE Module
  BY <1>2, ModuleIs, ModuleProfiles
<1>3. CASE Others
  <2>1. other' = other + 1
    BY <1>0, <1>3, OthersAre
  <2>2. other \in Nat
    BY <1>0, BoundsAssumption DEF TypeOK
  <2>. QED  BY <2>1, <2>2
<1>. QED  BY <1>1, <1>2, <1>3 DEF Next, Done

\* The invariant holds in every state.
THEOREM Invariance == Spec => []IInv
<1>1. IInv /\ [Next]_vars => IInv'
  BY TypeKept, HistoryKept, StageKept, UntouchedKept, ModifiedKept, AgainKept, StatedKept,
     UnchangedKept, CheckKept, SecondKept, OneKept DEF IInv
<1>. QED  BY <1>1, InitOK, PTL DEF Spec

-----------------------------------------------------------------------------
(* What follows from it.                                                   *)

\* The parameters, the results and the profiles keep their types.
THEOREM TypeCorrect == Spec => []TypeOK
BY Invariance, PTL DEF IInv

\* A successful, undisturbed run leaves the connection there, or gone, as it was stated,
\* although the module drops the results of all commands but the last.
THEOREM StatedIsReached == Spec => []StatedStateReached
BY Invariance, PTL DEF IInv

\* What an undisturbed run reports unchanged, or only checks, it has not touched.
THEOREM UnchangedAreUntouched == Spec => []UnchangedIsUntouched
BY Invariance, PTL DEF IInv

\* Check mode that announces no change foresees that the real run makes none.
THEOREM CheckForesees == Spec => []CheckModeForesees
BY Invariance, PTL DEF IInv

\* Two successful runs in a row apply all options the type's modify command knows.
THEOREM SecondConverges == Spec => []SecondRunConverges
BY Invariance, PTL DEF IInv

\* No run makes a second connection of a name, unless others have interfered.
THEOREM OnePerName == Spec => []OneConnectionPerName
BY Invariance, PTL DEF IInv

=============================================================================
