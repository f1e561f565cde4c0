------------------------------- MODULE MCMain -------------------------------
\* Every build on short files, and on requests well formed and not.
EXTENDS Main

SomeRequests ==
    {<<t, s>> : t \in {"EC", "ES"}, s \in {"CO", "PR", "ST"}}
    \cup {<<>>, <<"EC">>, <<"ST">>, <<"x", "CO">>, <<"EC", "ST", "x">>}

\* SEEM only compiles with CGSS2 and FUDGE only with CaDiCaL.
AllBuilds ==
    [algorithm : {"IAQ", "EEE", "SEE"}, solver : {"library", "external"}]
    \cup [algorithm : {"SEEM", "FUDGE"}, solver : {"library"}]

FudgeBuild == [algorithm : {"FUDGE"}, solver : {"library"}]

OneRequest == {<<"EC", "CO">>}
=============================================================================
