------------------------------- MODULE ZmLine -------------------------------
(***************************************************************************)
(* What zmtx and zmrx share (zmdm.c): headers, data subpackets, the line   *)
(* between them and the two seconds rx_raw() waits for a byte.             *)
(*                                                                         *)
(* A file is a sequence of blocks, one block per data subpacket, and a     *)
(* file position counts blocks: <<f, i>> is block i of file f.             *)
(***************************************************************************)
EXTENDS Naturals, Sequences, SequencesExt

CONSTANTS
    NFiles,         \* length of zmtx's argument list
    Size,           \* blocks in each file
    MaxTries,       \* attempts to establish contact (10 in the code)
    LineCap,        \* bound: no timeout while this many items are under way
    Scenarios       \* the circumstances of a behaviour, records of
                    \*   existing    files zmrx's directory holds already
                    \*   unopenable  files zmtx cannot open
                    \*   readonly    files zmrx cannot open for writing
                    \*   faults      bound: items the line damages
                    \*   slow        bound: timeouts although something is under way
                    \*   aborts      bound: sessions the user aborts

ASSUME ZmAssumption ==
    /\ NFiles \in Nat
    /\ Size \in [1..NFiles -> Nat]
    /\ MaxTries \in Nat \ {0}
    /\ LineCap \in Nat
    /\ \A s \in Scenarios :
          /\ s.existing \cup s.unopenable \cup s.readonly \subseteq 1..NFiles
          /\ s.faults \in Nat /\ s.slow \in Nat /\ s.aborts \in Nat

VARIABLES
    toR,            \* on its way to zmrx, oldest first
    toS,            \* on its way to zmtx
    faults,         \* line faults so far
    slow,           \* hasty timeouts so far
    scene           \* the circumstances, one of Scenarios

lineVars == <<toR, toS, faults, slow>>

-----------------------------------------------------------------------------
(* What travels.  A header carries a position (ZRPOS, ZDATA; nobody looks   *)
(* at that of ZACK, ZNAK and ZEOF).  A subpacket carries a block, or the    *)
(* name, size and date of file f as <<f, 0>>, and ends a frame with ZCRCW   *)
(* or continues it with ZCRCG.  "bad" is a header whose CRC does not match, *)
(* "trash" such a subpacket, "noise" bytes that are neither, "OO" the end   *)
(* of the session.                                                          *)

Files == 1..NFiles

HeaderTypes == {"ZRQINIT", "ZRINIT", "ZFILE", "ZSKIP", "ZRPOS", "ZDATA",
                "ZACK", "ZNAK", "ZEOF", "ZFIN", "ZCOMPL"}

SubpacketTypes == {"ZCRCG", "ZCRCW", "trash"}

Items == [typ : HeaderTypes \cup SubpacketTypes \cup {"bad", "noise", "OO"},
          pos : Nat, blk : (0..NFiles) \X Nat]

\* tx_pos_header(), tx_hex_header() and tx_header().
Header(t, n) == [typ |-> t, pos |-> n, blk |-> <<0, 0>>]

\* tx_data().
Subpacket(t, b) == [typ |-> t, pos |-> 0, blk |-> b]

Contents(f) == [i \in 1..Size[f] |-> <<f, i>>]

\* rx_header() runs over everything that is not a valid header.
IsHeader(m) == m.typ \in HeaderTypes

IsSubpacket(m) == m.typ \in SubpacketTypes

-----------------------------------------------------------------------------
(* The line loses bytes or damages them.  What remains of a header is an     *)
(* invalid one or mere noise.  A subpacket's CRC no longer matches, and if   *)
(* its end was lost it runs on into the next item.  (Bytes lost exactly from *)
(* the end of one item to the end of another go unnoticed: no CRC spans two.)*)

Trash == Subpacket("trash", <<0, 0>>)

Hits(line) ==
    IF IsSubpacket(Head(line))
    THEN {<<Trash>> \o Tail(line), <<Trash>> \o SubSeq(line, 3, Len(line))}
    ELSE {<<Header(remains, 0)>> \o Tail(line) : remains \in {"bad", "noise"}}

LineFault ==
    /\ faults < scene.faults
    /\ faults' = faults + 1
    /\ \/ toR # <<>> /\ toR' \in Hits(toR) /\ UNCHANGED toS
       \/ toS # <<>> /\ toS' \in Hits(toS) /\ UNCHANGED toR
    /\ UNCHANGED slow

\* How the other program stands: not running, waiting for the line, or about
\* to send more.
Peers == {"absent", "waiting", "busy"}

\* rx_purge() throws away what has arrived, which is everything when the
\* program that sent it has ended.
Purged(line, peer) ==
    IF peer = "absent" THEN {<<>>} ELSE {SubSeq(line, k + 1, Len(line)) : k \in 0..Len(line)}

\* rx_raw() gives up after two seconds without a byte, whatever its argument.
\* Those are long for the line and the other program: when they have passed,
\* nothing is under way and the other program waits as well, or does not run.
\* A timer that is too hasty for that is limited by scene.slow.
TimesOut(in, out, peer) ==
    /\ in = <<>>
    /\ Len(out) < LineCap
    /\ IF peer = "absent" \/ (peer = "waiting" /\ out = <<>>)
       THEN UNCHANGED slow
       ELSE slow < scene.slow /\ slow' = slow + 1

=============================================================================
