------------------------------ MODULE MCFudge ------------------------------
\* fudge.cpp on every framework with N arguments, and on one with six.
EXTENDS Fudge

AllFrameworks == Relations

\* Two independent choices (0 or 1, 2 or 3), and an argument 5 whose only
\* attacker, the self-attacking 4, is attacked by 2 and by 1: argument 5 is
\* in every preferred extension but {0, 3}.
TwoChoices ==
    {{<<0, 1>>, <<1, 0>>, <<2, 3>>, <<3, 2>>,
      <<4, 4>>, <<4, 5>>, <<2, 4>>, <<1, 4>>}}
=============================================================================
