----------------------------- MODULE MC_Zmodem ------------------------------
(* Instances of Zmodem for TLC: files, and the circumstances of a run.      *)
EXTENDS Zmodem

OneBlock == <<1>>
TwoBlocks == <<2>>
TwoOne == <<2, 1>>
OneOneTwo == <<1, 1, 2>>

Quiet == [existing |-> {}, unopenable |-> {}, readonly |-> {},
          faults |-> 0, slow |-> 0, aborts |-> 0]

\* A damaged line, hasty timers, one interrupted session; and, on a good line,
\* files one of the programs cannot or will not open.
Good == {[Quiet EXCEPT !.faults = 2, !.slow = 1],
         [Quiet EXCEPT !.faults = 1, !.slow = 1, !.aborts = 1],
         [Quiet EXCEPT !.unopenable = {2}],
         [Quiet EXCEPT !.readonly = {2}],
         [Quiet EXCEPT !.existing = {2}]}

\* File 1 is there already, with another date.
Skip == {[Quiet EXCEPT !.existing = {1}]}

\* The only file is there already; the session is aborted once.
SkipAgain == {[Quiet EXCEPT !.existing = {1}, !.aborts = 1]}

\* The line loses or damages one item.
OneFault == {[Quiet EXCEPT !.faults = 1]}

\* The session is aborted once.
Interrupted == {[Quiet EXCEPT !.aborts = 1]}
=============================================================================
