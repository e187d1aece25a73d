--------------------------- MODULE MCJunitReports ---------------------------
(***************************************************************************)
(* Reports of one or two suites with the outcomes test tools write: passed,*)
(* skipped, failed, skipped and then failed in the teardown, and a result  *)
(* with neither a type nor a message.                                      *)
(***************************************************************************)
EXTENDS JunitReports

Tested(name, result) == [name |-> name, result |-> result]
Outcome(kind, status) == [kind |-> kind, status |-> status]

Green   == << <<Tested("a", <<>>), Tested("b", <<Outcome("skipped", "skipped")>>)>> >>
Red     == << <<Tested("a", <<Outcome("failure", "AssertionError")>>)>> >>
Mixed   == << <<Tested("a", <<>>)>>,
              <<Tested("b", <<Outcome("skipped", "skipped"), Outcome("error", "error")>>)>> >>
Bare    == << <<Tested("b", <<Outcome("skipped", None)>>)>> >>

MCReports == {Green, Red, Mixed, Bare}

MCLeft == {<<Green, None, None>>, <<Green, Mixed, Red>>, <<Red, Green, Bare>>,
           <<Bare, Mixed, Green>>, <<Broken, Red, Green>>, <<Mixed, Broken, Mixed>>}

Expect(testcase, passed) == [testcase |-> testcase, passed |-> passed]

MCExpected == {
  <<Expect({"a"}, TRUE)>>,
  <<Expect({"a", "b"}, TRUE), Expect({"b"}, TRUE)>>,
  <<Expect({"a"}, FALSE)>> }

=============================================================================
