----------------------------- MODULE MCDayLogs -----------------------------
EXTENDS DayLogs, TLC

\* 28 February 2024 and two days on, over the 29th.
MCFirstDay == 19781
\* A folder of the window's edge, two expired ones, and what a person left:
\* dates that do not exist, an odd spelling of one that does, a word.
MCFound == { Civil(19779), Civil(19780), <<2020, 2, 30>>, <<2023, 13, 45>>,
             <<2024, 2, 1, 0>>, <<>> }
MCSymmetry == Permutations(Runs)
=============================================================================
