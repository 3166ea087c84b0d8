------------------------------- MODULE Zmodem -------------------------------
(***************************************************************************)
(* zmtx and zmrx at the two ends of a line, sessions that are aborted and  *)
(* started again, and the properties of the transfer.                      *)
(***************************************************************************)
EXTENDS Zmtx, Zmrx

CONSTANT
    MaxSessions     \* bound: sessions

ASSUME SessionsAssumption == MaxSessions \in Nat \ {0}

VARIABLES
    aborts,         \* sessions aborted so far
    session         \* sessions started so far

userVars == <<scene, aborts, session>>

vars == <<lineVars, sendVars, recvVars, userVars>>

Init ==
    /\ scene \in Scenarios
    /\ aborts = 0 /\ session = 1
    /\ toR = <<>> /\ toS = <<>> /\ faults = 0 /\ slow = 0
    /\ SInit
    /\ RInit
    /\ mtime = [f \in Files |-> IF f \in scene.existing THEN "older" ELSE "none"]
    /\ disc = [f \in Files |-> IF f \in scene.existing THEN Old(f) ELSE <<>>]

BothExit == spc = "exit" /\ rpc = "exit"

\* The user types five CANs at both programs: rx_raw() calls cleanup() and exits.
Abort ==
    /\ aborts < scene.aborts /\ aborts' = aborts + 1
    /\ spc # "exit" /\ rpc # "exit"
    /\ Cleanup
    /\ spc' = "exit"
    /\ UNCHANGED <<lineVars, scene, session, stries, sfile, spos, sbase, sent,
                   rtries, rfile, mangled, disc>>

\* The user runs both programs again with the same files.
Again ==
    /\ BothExit /\ session < MaxSessions /\ aborts > 0
    /\ session' = session + 1
    /\ toR' = <<>> /\ toS' = <<>>
    /\ spc' = "start" /\ stries' = 0 /\ sfile' = 1 /\ spos' = 0 /\ sbase' = 0
    /\ sent' = [f \in Files |-> "no"]
    /\ rpc' = "start" /\ rtries' = 0 /\ rfile' = 0 /\ rfp' = "null" /\ mangled' = FALSE
    /\ UNCHANGED <<faults, slow, disc, mtime, scene, aborts>>

\* What is sent to a program that has ended goes nowhere.
Drain ==
    /\ \/ rpc = "exit" /\ toR # <<>> /\ toR' = Tail(toR) /\ UNCHANGED toS
       \/ spc = "exit" /\ toS # <<>> /\ toS' = Tail(toS) /\ UNCHANGED toR
    /\ UNCHANGED <<faults, slow>>

SendStep == SendNext(RStands) /\ UNCHANGED <<faults, recvVars, userVars>>

RecvStep == RecvNext(SStands) /\ UNCHANGED <<faults, sendVars, userVars>>

Next ==
    \/ SendStep
    \/ RecvStep
    \/ (LineFault \/ Drain) /\ UNCHANGED <<sendVars, recvVars, userVars>>
    \/ Abort
    \/ Again

Spec == Init /\ [][Next]_vars

\* Both programs run until they end, and the line delivers.
FairSpec ==
    /\ Spec
    /\ WF_vars(SendStep)
    /\ WF_vars(RecvStep)
    /\ WF_vars(Drain /\ UNCHANGED <<sendVars, recvVars, userVars>>)
    /\ WF_vars(Again)

-----------------------------------------------------------------------------

\* The types of the variables.
TypeOK ==
    /\ toR \in Seq(Items) /\ toS \in Seq(Items)
    /\ faults \in 0..scene.faults /\ slow \in 0..scene.slow
    /\ spc \in SendPlaces /\ stries \in 0..MaxTries
    /\ sfile \in 1..(NFiles + 1) /\ spos \in Nat /\ sbase \in Nat
    /\ sent \in [Files -> {"no", "sent", "skipped", "unopened"}]
    /\ rpc \in RecvPlaces /\ rtries \in 0..MaxTries
    /\ rfile \in 0..NFiles /\ rfp \in {"null", "open", "closed"} /\ mangled \in BOOLEAN
    /\ disc \in [Files -> Seq((0..NFiles) \X Nat)] /\ mtime \in [Files -> Dates]
    /\ scene \in Scenarios /\ aborts \in 0..scene.aborts /\ session \in 1..MaxSessions

\* Whatever the line does, and however often a transfer is interrupted and
\* resumed, a file in zmrx's directory is one that was there before, or
\* begins like the file of that name that zmtx sends: no block is missing,
\* repeated or taken from another file (fwrite() in receive_file_data()).
Integrity ==
    \A f \in Files : disc[f] = Old(f) \/ IsPrefix(disc[f], Contents(f))

\* When zmtx says it has sent a file, zmrx has all of it, has closed it and
\* has given it its date, so that the next session does not take it for another.
SentIsThere ==
    \A f \in Files : sent[f] = "sent" => disc[f] = Contents(f) /\ mtime[f] = "same"

\* When both programs have ended, in whatever way, every file zmrx wrote to
\* carries the date zmtx gave it (cleanup() and the utime() of receive_file()):
\* only then does the next session resume it.
Resumable ==
    BothExit => \A f \in Files : disc[f] \in {<<>>, Old(f)} \/ mtime[f] = "same"

\* A file that carries that date, complete or interrupted, is only ever added
\* to (the "ab" of receive_file()), by this session and by later ones.
NothingLost == [][\A f \in Files : mtime[f] = "same" => IsPrefix(disc[f], disc'[f])]_vars

\* With -p a file that was in zmrx's directory before stays as it is, in this
\* session and in later ones.  receive_file() skips it, but leaves fp behind,
\* and cleanup() then gives the file the date that means "to be resumed".
Protected == Manage = "protect" => \A f \in scene.existing : disc[f] = Old(f)

\* zmrx found nobody to talk to.  zmtx, once it has heard a ZRINIT, never
\* gives up, so it must not be left waiting for such a zmrx.
GaveUp == rpc = "exit" /\ rfile = 0

\* On a line without faults, if nobody aborts the session and zmrx has not
\* given up before the first file was offered, both programs end: the loops
\* of send_file() and receive_file() have no other limit.
BothEnd == <>(BothExit \/ GaveUp \/ faults > 0 \/ aborts > 0)

\* "The transmitter should not time out at all, except to abort the program if no
\* headers are received for an extended period of time" (zmodem.doc): zmtx does not
\* wait for ever for the answer to its last block, which send_from() never asks for
\* again, and which zmrx, once it has the block and waits for ZEOF, never repeats.
AckWaitEnds == spc = "ack" ~> spc # "ack"

\* "Crash recovery now supported" (release.notes): when a session is aborted
\* and both programs are run again, on a line without faults, they end again.
Recovers == [](session = 2 => <>(BothExit \/ GaveUp \/ faults > 0))

=============================================================================
