---------------------------- MODULE FileTransfer ----------------------------
(***************************************************************************)
(* What a file transfer promises, with no packets, numbers or buffers: the *)
(* units of a list of files arrive one by one, in order, and each side     *)
(* ends with a verdict.                                                    *)
(***************************************************************************)
EXTENDS Naturals, Sequences

CONSTANTS NFiles, FileLen

VARIABLES
    out,            \* what has arrived of each file
    finished,       \* the files that have been closed
    cancelled,      \* has anyone asked for a cancellation?
    sender,         \* "run", or the verdict of the sender
    receiver        \* "run", or the verdict of the receiver

vars == <<out, finished, cancelled, sender, receiver>>

Files == 1..NFiles

Failures == {"FAILURE", "quit", "receiving"}

Init ==
    /\ out = [f \in Files |-> <<>>]
    /\ finished = {}
    /\ cancelled = FALSE
    /\ sender = "run"
    /\ receiver = "run"

\* Files are received one after the other: f is the one being received.
Current(f) == receiver = "run" /\ finished = 1..(f - 1)

\* The next unit of the current file.
Deliver(f) ==
    /\ Current(f) /\ Len(out[f]) < FileLen[f]
    /\ out' = [out EXCEPT ![f] = Append(@, <<f, Len(@) + 1>>)]
    /\ UNCHANGED <<finished, cancelled, sender, receiver>>

\* The end of the current file; the receiver may fail with it.
Finish(f) ==
    /\ Current(f)
    /\ cancelled \/ Len(out[f]) = FileLen[f]
    /\ finished' = finished \cup {f}
    /\ receiver' \in {"run", "FAILURE"}
    /\ UNCHANGED <<out, cancelled, sender>>

Cancel ==
    /\ cancelled' = TRUE
    /\ UNCHANGED <<out, finished, sender, receiver>>

ReceiverSucceeds ==
    /\ receiver = "run"
    /\ cancelled \/ finished = Files
    /\ receiver' = "SUCCESS"
    /\ UNCHANGED <<out, finished, cancelled, sender>>

SenderSucceeds ==
    /\ sender = "run" /\ receiver = "SUCCESS"
    /\ sender' = "SUCCESS"
    /\ UNCHANGED <<out, finished, cancelled, receiver>>

Fail ==
    /\ \/ sender = "run" /\ sender' \in Failures /\ UNCHANGED receiver
       \/ receiver = "run" /\ receiver' \in Failures /\ UNCHANGED sender
    /\ UNCHANGED <<out, finished, cancelled>>

Next ==
    \/ \E f \in Files : Deliver(f) \/ Finish(f)
    \/ Cancel \/ ReceiverSucceeds \/ SenderSucceeds \/ Fail

Spec == Init /\ [][Next]_vars

=============================================================================
