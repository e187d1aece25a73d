---------------------------- MODULE JunitReports ----------------------------
(***************************************************************************)
(* What a play does with JUnit reports: the role junit2json converts them  *)
(* to JSON (filter junit2obj), the role verify_tests compares those of the *)
(* log folder with what is expected of them (filters junit2dict and        *)
(* regex_diff).  The roles run in any order, on folders they may share,    *)
(* and a play may go on after one of them has failed (rescue, always).     *)
(*                                                                         *)
(* A report is a sequence of suites, a suite a sequence of cases.  Times,  *)
(* counters and texts are left out.  External: junitparser, the globs.     *)
(*                                                                         *)
(* JR marks names that other modules of filters use as well.               *)
(***************************************************************************)
EXTENDS Naturals, Sequences, SequencesExt

CONSTANTS
  Reports,    \* Reports the tools write: sequences of suites.
  Broken,     \* A file that is no JUnit report.
  Left,       \* What tests leave: a report in logs, another or None, and one of the
              \* name of the first in another folder, or None.
  Expected,   \* Lists of expected results, see Tests.
  MaxInputs,  \* Bound: reports given to one run of junit2json.
  MaxTests,   \* Bound: entries of tests_to_verify.
  MaxRoles,   \* Bound: roles run by a play.
  None        \* Nothing there.

ASSUME CountsAssumption == MaxInputs \in Nat /\ MaxTests \in Nat /\ MaxRoles \in Nat

\* A case has no result, or results of these kinds with a status, None if it has neither
\* a type nor a message.  A report converted to JSON keeps the statuses.
Result == [kind : {"skipped", "failure", "error"}, status : STRING \cup {None}]
Case   == [name : STRING, result : Seq(Result)]
Entry  == [name : STRING, result : Seq(STRING \cup {"passed", None})]

ASSUME ReportsAssumption == Reports \subseteq Seq(Seq(Case))
ASSUME NoReports ==
  /\ Broken # None /\ None # "passed"
  /\ \A v \in {Broken, None} : v \notin Seq(Seq(Case)) /\ v \notin Seq(Seq(Entry))
\* No tool writes "passed" as the type of a failure, or at the start of its message.
ASSUME StatusAssumption ==
  \A report \in Reports : \A case \in ToSet(FlattenSeq(report)) : \A k \in DOMAIN case.result :
    case.result[k].kind \in {"failure", "error"} => case.result[k].status # "passed"
ASSUME ExpectedAssumption ==
  Expected \subseteq Seq([testcase : SUBSET STRING, passed : BOOLEAN])
ASSUME LeftAssumption ==
  Left \subseteq (Reports \cup {Broken}) \X (Reports \cup {Broken, None}) \X (Reports \cup {None})

\* Folders: "logs" is job_logs.path, "out" does not exist before it is created.
\* "merged" is merged.junit.xml or, converted, merged.junit.json.
Path == [dir : {"logs", "other", "out"}, name : {"r1", "r2", "merged"}]
At(dir, name) == [dir |-> dir, name |-> name]

\* Parameters of a run of junit2json.
Params == [inputs : UNION {[1 .. n -> Path] : n \in 0 .. MaxInputs},
           merge : BOOLEAN, dir : {"logs", "out"}]

\* tests_to_verify: the files a name matches, and the expected results, where a
\* regular expression is the set of the case names it is found in.
Patterns == {{"r2"}, {"r1", "r2", "merged"}}
Tests == UNION {[1 .. n -> [filename : Patterns, expected : Expected]] : n \in 1 .. MaxTests}

VARIABLES
  task,     \* Next step of the running role, "idle" between roles.
  xml,      \* Content of the XML files.
  json,     \* Content of the JSON files.
  dirs,     \* Folders that exist.
  list,     \* Fact global_json_reports_list.
  run,      \* Parameters of the last run of junit2json.
  reports,  \* Fact junit2_reports_list.
  stdout,   \* Fact _junit2json_merged_xml.
  item,     \* Position in the loop of the role.
  listed,   \* History: length of list when that run started.
  tests, skip,  \* Parameters of the last run of verify_tests.
  files,    \* Files it still has to parse for the current entry.
  ended,    \* What ended last, and how.
  roles     \* Roles run.

conversion == <<run, reports, stdout, listed>>
verification == <<tests, skip, files>>
disk == <<xml, json, dirs>>
jrVars == <<task, disk, list, conversion, item, verification, ended, roles>>

NoRun == [inputs |-> <<>>, merge |-> FALSE, dir |-> "logs"]

\* The XML files a test run has left, and no folder "out".
JRInit ==
  /\ task = "idle" /\ dirs = {"logs", "other"}
  /\ \E left \in Left :
       xml = [p \in Path |-> CASE p = At("logs", "r1") -> left[1]
                               [] p = At("logs", "r2") -> left[2]
                               [] p = At("other", "r1") -> left[3]
                               [] OTHER -> None]
  /\ json = [p \in Path |-> None] /\ list = <<>>
  /\ run = NoRun /\ reports = <<>> /\ stdout = None /\ item = 1 /\ listed = 0
  /\ tests = <<>> /\ skip = FALSE /\ files = {}
  /\ ended = <<"none", "none">> /\ roles = 0

-----------------------------------------------------------------------------
(* The filters.                                                            *)

\* A case that was skipped counts as passed, also when it has failed as well.
Passes(case) ==
  case.result = <<>> \/ \E k \in DOMAIN case.result : case.result[k].kind = "skipped"

Junit2dict(report) ==
  LET cases == FlattenSeq(report)
  IN  [k \in DOMAIN cases |-> [testcase |-> cases[k].name, passed |-> Passes(cases[k])]]

Found(e, actual) == {k \in DOMAIN actual : actual[k].testcase \in e.testcase}
Wrong(e, actual) == {k \in Found(e, actual) : actual[k].passed # e.passed}

\* Mutant: an expectation nothing is found for is no difference.
DifferencesFound(e, actual) == {[expected |-> e, actual |-> actual[k]] : k \in Wrong(e, actual)}

\* What one expectation contributes to the differences; nobody looks at their order.
Differences(e, actual) ==
  IF Found(e, actual) = {} THEN {[expected |-> e, actual |-> None]}
  ELSE {[expected |-> e, actual |-> actual[k]] : k \in Wrong(e, actual)}

RegexDiff(expected, actual) == UNION {Differences(expected[k], actual) : k \in DOMAIN expected}

\* The status of a result is its type or the first word of its message; a result
\* with neither has the status None here, and the filter raises.
ProcessTestCase(case) ==
  [name |-> case.name,
   result |-> IF case.result = <<>> THEN <<"passed">>
              ELSE [k \in DOMAIN case.result |-> case.result[k].status]]

ProcessTestSuite(suite) == [k \in DOMAIN suite |-> ProcessTestCase(suite[k])]

Junit2obj(report) ==
  IF report = Broken \/ \E k \in DOMAIN FlattenSeq(report) :
                          None \in ToSet(ProcessTestCase(FlattenSeq(report)[k]).result)
  THEN Broken
  ELSE [k \in DOMAIN report |-> ProcessTestSuite(report[k])]

\* junitparser merge: the suites of all the reports.
Merged(paths) ==
  IF \E k \in DOMAIN paths : xml[paths[k]] = Broken THEN Broken
  ELSE FlattenSeq([k \in DOMAIN paths |-> xml[paths[k]]])

-----------------------------------------------------------------------------
(* junit2json.                                                             *)

End(role, how) == task' = "idle" /\ ended' = <<role, how>>

Convert(p) ==
  /\ task = "idle" /\ roles < MaxRoles
  /\ run' = p /\ reports' = <<>> /\ item' = 1 /\ listed' = Len(list)
  /\ roles' = roles + 1
  /\ \/ p.inputs = <<>> /\ End("junit2json", "failed")
     \/ p.inputs # <<>> /\ task' = "expand" /\ UNCHANGED ended
  /\ UNCHANGED <<disk, list, stdout, verification>>

Expand ==
  /\ task = "expand"
  /\ LET file == run.inputs[item] IN
       \/ /\ xml[file] = None
          /\ End("junit2json", "failed")
          /\ UNCHANGED <<reports, item>>
       \/ /\ xml[file] # None
          /\ reports' = Append(reports, file)
          /\ IF item < Len(run.inputs)
             THEN item' = item + 1 /\ UNCHANGED task
             ELSE item' = 1 /\ task' = IF run.merge THEN "merge" ELSE "convert"
          /\ UNCHANGED ended
  /\ UNCHANGED <<disk, list, run, stdout, listed, verification, roles>>

\* Mutant: an earlier merged report is not overwritten.
CannotReplace == run.dir \notin dirs \/ xml[At(run.dir, "merged")] # None

\* The copy of the merged report creates no folder.
CannotWrite == run.dir \notin dirs

\* Mutant: the list of reports is not replaced by the merged one.
KeptList == reports

MergedList == <<At(run.dir, "merged")>>

\* merge.yml.  The merged text is always longer than
\* the minimum, for it has at least the attributes of its root.
Merge ==
  /\ task = "merge"
  /\ stdout' = Merged(reports)
  /\ \/ /\ stdout' = Broken \/ CannotWrite
        /\ End("junit2json", "failed")
        /\ UNCHANGED <<xml, reports>>
     \/ /\ stdout' # Broken /\ ~CannotWrite
        /\ xml' = [xml EXCEPT ![At(run.dir, "merged")] = stdout']
        /\ reports' = MergedList
        /\ task' = "convert" /\ UNCHANGED ended
  /\ UNCHANGED <<json, dirs, list, run, item, listed, verification, roles>>

\* Mutant: only the last report of the loop is written.
WrittenLast(path, data) == IF item < Len(reports) THEN json ELSE [json EXCEPT ![path] = data]

Written(path, data) == [json EXCEPT ![path] = data]

\* The report is listed, and its folder created, before it is converted.
WriteReport ==
  /\ task = "convert"
  /\ LET path == At(run.dir, IF run.merge THEN "merged" ELSE reports[item].name)
         data == Junit2obj(IF run.merge THEN stdout ELSE xml[reports[item]])
     IN  /\ list' = Append(list, path)
         /\ dirs' = dirs \cup {run.dir}
         /\ IF data = Broken
            THEN End("junit2json", "failed") /\ UNCHANGED <<json, item>>
            ELSE /\ json' = Written(path, data)
                 /\ IF item < Len(reports)
                    THEN item' = item + 1 /\ UNCHANGED <<task, ended>>
                    ELSE End("junit2json", "ok") /\ UNCHANGED item
  /\ UNCHANGED <<xml, conversion, verification, roles>>

-----------------------------------------------------------------------------
(* verify_tests.                                                           *)

Verify(t, s) ==
  /\ task = "idle" /\ roles < MaxRoles
  /\ tests' = t /\ skip' = s /\ files' = {} /\ item' = 1
  /\ task' = "read" /\ roles' = roles + 1
  /\ UNCHANGED <<disk, list, conversion, ended>>

NextTest ==
  IF item < Len(tests) THEN item' = item + 1 /\ task' = "read" /\ UNCHANGED ended
  ELSE End("verify_tests", "ok") /\ UNCHANGED item

ReadJunitFiles ==
  /\ task = "read"
  /\ files' = {p \in Path : p.dir = "logs" /\ p.name \in tests[item].filename /\ xml[p] # None}
  /\ \/ files' # {} /\ task' = "parse" /\ UNCHANGED <<item, ended>>
     \/ files' = {} /\ ~skip /\ End("verify_tests", "failed") /\ UNCHANGED item
     \/ files' = {} /\ skip /\ NextTest
  /\ UNCHANGED <<disk, list, conversion, tests, skip, roles>>

\* The files of a glob come in any order.
ParseJunitFile(file) ==
  /\ task = "parse" /\ file \in files
  /\ files' = files \ {file}
  /\ IF xml[file] = Broken \/ RegexDiff(tests[item].expected, Junit2dict(xml[file])) # {}
     THEN End("verify_tests", "failed") /\ UNCHANGED item
     ELSE IF files' # {} THEN UNCHANGED <<task, item, ended>> ELSE NextTest
  /\ UNCHANGED <<disk, list, conversion, tests, skip, roles>>

JRNext ==
  \/ \E p \in Params : Convert(p)
  \/ Expand \/ Merge \/ WriteReport
  \/ \E t \in Tests, s \in BOOLEAN : Verify(t, s)
  \/ ReadJunitFiles
  \/ \E file \in Path : ParseJunitFile(file)
  \/ task = "idle" /\ roles = MaxRoles /\ UNCHANGED jrVars   \* The play is over.

JRSpec == JRInit /\ [][JRNext]_jrVars

-----------------------------------------------------------------------------
(* Properties.                                                             *)

\* The variables have the types of the facts, files and parameters they model.
JRTypeOK ==
  /\ task \in {"idle", "expand", "merge", "convert", "read", "parse"}
  /\ xml \in [Path -> Seq(Seq(Case)) \cup {Broken, None}]
  /\ json \in [Path -> Seq(Seq(Entry)) \cup {None}]
  /\ dirs \subseteq {"logs", "other", "out"}
  /\ list \in Seq(Path) /\ reports \in Seq(Path)
  /\ run \in Params /\ item \in Nat \ {0} /\ listed \in 0 .. Len(list)
  /\ stdout \in Seq(Seq(Case)) \cup {Broken, None}
  /\ tests \in Tests \cup {<<>>} /\ skip \in BOOLEAN /\ files \subseteq Path
  /\ ended \in {<<"none", "none">>} \cup ({"junit2json", "verify_tests"} \X {"ok", "failed"})
  /\ roles \in 0 .. MaxRoles

Ended(role, how) == task = "idle" /\ ended = <<role, how>>

Fails(case) == \E k \in DOMAIN case.result : case.result[k].kind \in {"failure", "error"}

\* The JSON report has an entry of the case with a status for each of its results,
\* and does not call it passed when it failed.
Tells(report, case) ==
  \E entry \in ToSet(FlattenSeq(report)) :
    /\ entry.name = case.name
    /\ Len(entry.result) >= Len(case.result)
    /\ Fails(case) => \E k \in DOMAIN entry.result : entry.result[k] # "passed"

\* An input whose JSON report is overwritten by that of a later input of its name.
Overwritten(k) ==
  /\ ~run.merge
  /\ \E l \in k + 1 .. Len(run.inputs) : run.inputs[l].name = run.inputs[k].name

\* A run of junit2json that ends well has listed as many reports as it converted
\* and they are all there; each case of each of its inputs is told by one of them,
\* whatever earlier runs have left in the folders and facts.  Only inputs of one
\* name, from different folders, overwrite each other (convert.yml:14-32).
RunConverts ==
  Ended("junit2json", "ok") =>
    LET new == {list[k] : k \in listed + 1 .. Len(list)}
    IN  /\ Len(list) = listed + IF run.merge THEN 1 ELSE Len(run.inputs)
        /\ \A p \in new : json[p] # None
        /\ \A k \in DOMAIN run.inputs : Overwritten(k) \/
             \A case \in ToSet(FlattenSeq(xml[run.inputs[k]])) : \E p \in new : Tells(json[p], case)

\* A listed report is missing from its folder only when the conversion of a report
\* of its name, or of a merged one, failed: the list is extended before the report
\* is written (convert.yml:22-44).
ListedIsWritten ==
  \A k \in DOMAIN list :
    json[list[k]] = None =>
      \E p \in Path : /\ xml[p] # None /\ Junit2obj(xml[p]) = Broken
                     /\ list[k].name \in {p.name, "merged"}

\* An input is missing, or is a report the filter does not take.
BadInputs ==
  \/ run.inputs = <<>>
  \/ \E k \in DOMAIN run.inputs :
       xml[run.inputs[k]] = None \/ Junit2obj(xml[run.inputs[k]]) = Broken

\* junit2json fails only for its inputs, or because a merged run finds no folder to
\* write to: nothing an earlier run left makes a later one fail (main.yml:13-47).
FailsForCause ==
  Ended("junit2json", "failed") => BadInputs \/ (run.merge /\ run.dir \notin dirs)

\* The reports the tests have left in the log folder.
Own == {p \in Path : p.dir = "logs" /\ p.name # "merged" /\ xml[p] # None}

\* The merged report in the log folder, if any, is made of reports of that folder.
MergedIsOwn ==
  LET merged == xml[At("logs", "merged")]
  IN  \/ merged = None
      \/ \E some \in SUBSET (Own \ {p \in Own : xml[p] = Broken}) :
           /\ some # {}
           /\ ToSet(merged) = UNION {ToSet(xml[p]) : p \in some}

\* All the cases an expectation is about were as expected, and there was one.
Met(e, report) ==
  LET found == {case \in ToSet(FlattenSeq(report)) : case.name \in e.testcase}
  IN  /\ found # {}
      /\ \A case \in found :
           e.passed = (~Fails(case) \/ \E k \in DOMAIN case.result : case.result[k].kind = "skipped")

\* roles/verify_tests/README.md:6: the job passes exactly when the expected tests
\* are in the reports with the expected results (a skipped test counts as passed),
\* in each report an entry names, in whatever order the files come; a merged report
\* that junit2json has put into the same folder does not change the verdict.
VerdictIsExact ==
  task = "idle" /\ ended[1] = "verify_tests" /\ MergedIsOwn =>
    (ended[2] = "ok" <=>
       \A k \in DOMAIN tests :
         LET named == {p \in Own : p.name \in tests[k].filename}
         IN  /\ named # {} \/ skip
             /\ \A p \in named : /\ xml[p] # Broken
                                 /\ \A l \in DOMAIN tests[k].expected : Met(tests[k].expected[l], xml[p]))

=============================================================================
