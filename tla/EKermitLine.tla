---------------------------- MODULE EKermitLine ----------------------------
(***************************************************************************)
(* What the two E-Kermits share: packets, sequence numbers, the window     *)
(* slots packets are read into, and the serial line between them.          *)
(*                                                                         *)
(* A packet is abstracted to the fields kermit() branches on.  A file's    *)
(* contents are numbered units, one unit per D packet: <<f, i>> is unit i  *)
(* of file f, so a unit that is lost, repeated or misplaced shows.         *)
(***************************************************************************)
EXTENDS Naturals, Sequences, FiniteSets

CONSTANTS
    SeqSpace,         \* size of the sequence number space (64 in the code)
    WSlots,         \* P_WSLOTS, the number of receive slots
    PRetry,         \* P_RETRY
    Bct,            \* block check type negotiated for the transfer, 1..3
    NFiles,         \* length of the sender's filelist
    FileLen,        \* units in each file
    Binary,         \* does each file look binary to fileinfo()'s scan?
    LineFaults,     \* what the line may do: "damage", "short", "lose", "noise", "echo"
    MaxFaults,      \* bound: line faults in one behaviour
    TimesOut,       \* the sides whose rxd times out: {} for unixio.c's readpkt
    LineCap,        \* bound: no timeout while this many packets are in flight
    Cancels,        \* what the control programs may do: "S file", "S group",
                    \* "S abort", and the same with "R"
    IOFaults        \* calls that may fail: "tx", "openr", "openw", "write", "close"

ASSUME ProtocolAssumption ==
    /\ SeqSpace \in Nat /\ SeqSpace > 2
    /\ WSlots \in Nat /\ WSlots > 0
    /\ PRetry \in Nat
    /\ Bct \in 1..3

ASSUME FilesAssumption ==
    /\ NFiles \in Nat
    /\ FileLen \in [1..NFiles -> Nat]
    /\ Binary \in [1..NFiles -> BOOLEAN]

ASSUME EnvironmentAssumption ==
    /\ MaxFaults \in Nat
    /\ LineCap \in Nat
    /\ IOFaults \subseteq {"tx", "openr", "openw", "write", "close"}

VARIABLES
    toR,            \* packets on their way to the receiver, oldest first
    toS,            \* packets on their way to the sender
    faults          \* line faults so far

lineVars == <<toR, toS, faults>>

-----------------------------------------------------------------------------
(* Sequence numbers: nxtpkt() and ack() add one, kermit() computes prev.    *)

Seqs == 0..(SeqSpace - 1)

\* Mutant: the number is not wrapped.
SuccUnwrapped(n) == n + 1

Succ(n) == (n + 1) % SeqSpace

Prev(n) == IF n = 0 THEN SeqSpace - 1 ELSE n - 1

-----------------------------------------------------------------------------
(* Packets.  "null" is a read that returned 0 bytes (a timeout, or a packet *)
(* longer than r_maxlen), "short" one of 1 to 3 bytes, "bad" one whose      *)
(* block check can match no type.                                           *)

Files == 1..NFiles

\* What getpkt() takes from a file for one D packet.
Units == (0..NFiles) \X Nat

NoUnit == <<0, 0>>

Types == {"S", "F", "A", "D", "Z", "B", "Y", "N", "E", "null", "short", "bad", "none"}

\* An F packet names a file.
Packets ==
    {p \in [typ : Types, seq : Seqs, dat : Units, can : {"no", "X", "Z", "D"}, chk : 1..3] :
        p.typ = "F" => p.dat[1] \in Files}

\* spkt(): a packet of type t, number n, data d, block check of type c.
Pkt(t, n, d, c) == [typ |-> t, seq |-> n, dat |-> d, can |-> "no", chk |-> c]

\* rpar(): the parameters, in an S packet or its ACK, with a type 1 block check.
ParamPkt(t, n) == Pkt(t, n, NoUnit, 1)

\* encstr(): the data of an F packet is the name of the file.
NameOf(f) == <<f, 0>>

\* epkt(): an Error packet always has number 0 and a type 1 block check.
ErrorPkt == Pkt("E", 0, NoUnit, 1)

\* opktbuf before anything was sent, and the reads that carry no packet.
NoPkt == Pkt("none", 0, NoUnit, 1)

Null == Pkt("null", 0, NoUnit, 1)

Short == Pkt("short", 0, NoUnit, 1)

Bad == Pkt("bad", 0, NoUnit, 1)

\* Reads of fewer than 4 bytes never reach the parser.
Unreadable(p) == p.typ \in {"null", "short"}

-----------------------------------------------------------------------------
(* Receive slots.                                                           *)

Slots == 0..(WSlots - 1)

\* getrslot(): the first slot that is not in use.
FreeSlot(used) == CHOOSE i \in Slots : ~used[i] /\ \A j \in 0..(i - 1) : used[j]

NoSlot(used) == \A i \in Slots : used[i]

\* The retry limit, k->retry: spar() raises it above the window size.
Retry(negotiated) ==
    IF negotiated /\ WSlots > 1 /\ WSlots > PRetry THEN WSlots + 1 ELSE PRetry

\* A retry counter; values above every limit behave alike and are merged.
RtrMax == Retry(TRUE) + PRetry + 1

\* Mutant: NAKs and retransmissions are not counted.
BumpNever(n) == n

Bump(n) == IF n < RtrMax THEN n + 1 ELSE n

-----------------------------------------------------------------------------
(* The line.  txd() either queues the whole packet or fails.                *)

TxResults == IF "tx" \in IOFaults THEN {TRUE, FALSE} ELSE {TRUE}

Sent(line, p, ok) == IF ok /\ p.typ # "none" THEN Append(line, p) ELSE line

\* A fault hits one packet in flight, or adds one that nobody sent.
Hit(line, kind) ==
    CASE kind = "damage" -> [line EXCEPT ![1] = Bad]
      [] kind = "short"  -> [line EXCEPT ![1] = Short]
      [] kind = "lose"   -> Tail(line)

LineFault ==
    /\ faults < MaxFaults
    /\ faults' = faults + 1
    /\ \E kind \in LineFaults \cap {"damage", "short", "lose"} :
          \/ toR # <<>> /\ toR' = Hit(toR, kind) /\ UNCHANGED toS
          \/ toS # <<>> /\ toS' = Hit(toS, kind) /\ UNCHANGED toR

Noise ==
    /\ faults < MaxFaults
    /\ "noise" \in LineFaults
    /\ faults' = faults + 1
    /\ \/ toR' = Append(toR, Bad) /\ UNCHANGED toS
       \/ toS' = Append(toS, Bad) /\ UNCHANGED toR

=============================================================================
