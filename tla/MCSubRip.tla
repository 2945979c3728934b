------------------------------ MODULE MCSubRip ------------------------------
(* Instances of SubRip for TLC. *)
EXTENDS SubRip

\* 24, 25, 30, 60 and 1000 frames a second, 23.976 and 29.97.
Rate(n, m) == [frames |-> n, seconds |-> m]
Rates == {Rate(24, 1), Rate(25, 1), Rate(30, 1), Rate(60, 1), Rate(1000, 1), Rate(2997, 125), Rate(2997, 100)}

\* Timecodes: a short fraction, two fields, the last of a minute, one frame of 24 a
\* second later, and minutes that do not exist.
Half == [fields |-> <<0, 0, 1>>, frac |-> <<5>>]
LastMs == [fields |-> <<59, 59>>, frac |-> <<9, 9, 9, 9>>]
Hour == [fields |-> <<1, 0, 0>>, frac |-> <<0, 4, 2>>]
Sixty == [fields |-> <<0, 60, 0>>, frac |-> <<>>]

\* A letter; two letters with a virama each, and the conjunct with a vowel sign they
\* join; a virama that nothing follows.
Sample == <<
    <<"letter">>, <<"letter", "virama">>, <<"letter", "virama">>,
    <<"letter", "virama", "letter", "sign">>, <<"letter", "virama">>>>

Lines == {
    Blank, Number(1), Number(7), Arrow,
    Timing(Half, LastMs, FALSE), Timing(LastMs, Hour, TRUE), Timing(Hour, Half, FALSE),
    Timing(Half, Hour, FALSE),
    Timing(Half, Sixty, FALSE),
    Words(Sample)}
=============================================================================
