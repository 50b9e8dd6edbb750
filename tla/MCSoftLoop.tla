----------------------------- MODULE MCSoftLoop -----------------------------
EXTENDS Adapters

\* What a failing gate may report: a list of one violation or of two.
FewReports == {<<"a", "b">>, <<"broken">>}
FewLines == {<<"a", "b", "a">>}
\* Prose that repeats what a tail may hold.
FewEchoes == {<< >>, <<Marker("committed", "echo"), Marker("diff_lines", 9), Marker("net", "echo")>>,
              <<Marker("not_committed", "nothing_to_commit"), Marker("diff_lines", 0)>>,
              <<Marker("not_restored", "echo"), Marker("not_committed", "secrets")>>}
=============================================================================
