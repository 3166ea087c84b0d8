---------------------------- MODULE EKermitRecv ----------------------------
(***************************************************************************)
(* The receiving E-Kermit: kermit() with k->what = W_RECV, the file output *)
(* functions of unixio.c it calls, and main()'s loop around it.  As in     *)
(* EKermitSend one action is one turn of the loop, and what is left of the *)
(* k_data of a process that ends is not updated.                           *)
(***************************************************************************)
EXTENDS EKermitLine

CONSTANTS
    ObufLen,        \* k->obuflen, in units
    PktRest,        \* units a D packet may hold after the one that fills obuf
    Keep            \* k->ikeep, the -k option

ASSUME RecvAssumption ==
    /\ ObufLen \in Nat /\ ObufLen > 0 /\ PktRest \in Nat
    /\ Keep \in BOOLEAN

VARIABLES
    rst,            \* k->state
    r_seq,          \* k->r_seq, the number wanted
    r_opkt,         \* k->opktbuf
    r_used,         \* which of ipktinfo[] are not free
    r_rtr,          \* ipktinfo[].rtr
    r_cancel,       \* k->cancel
    r_binary,       \* k->binary
    r_name,         \* r->filename: which file it names
    r_obuf,         \* k->obuf, an array; NoUnit is the NUL it is initialised with
    r_pos,          \* k->obufpos
    disk,           \* the output files; a file that does not exist is empty
    r_done,         \* files whose Z packet led to a successful closef
    rexit           \* "run", or how the process ended

recvVars == <<rst, r_seq, r_opkt, r_used, r_rtr, r_cancel, r_binary, r_name,
              r_obuf, r_pos, disk, r_done, rexit>>

\* The file being received and what has become of the others.
recvFile == <<r_binary, r_name, r_obuf, r_pos, disk, r_done>>

RInit ==
    /\ rst = "R_WAIT"
    /\ r_seq = 0
    /\ r_opkt = NoPkt
    /\ r_used = [i \in Slots |-> FALSE]
    /\ r_rtr = [i \in Slots |-> 0]
    /\ r_cancel = 0
    /\ r_binary = TRUE
    /\ r_name = 0
    /\ r_obuf = [i \in 1..ObufLen |-> NoUnit]
    /\ r_pos = 0
    /\ disk = [f \in Files |-> <<>>]
    /\ r_done = {}
    /\ rexit = "run"

RRunning == rexit = "run"

-----------------------------------------------------------------------------
(* The packet read in this turn, and the slot it is in.                     *)

slotR == FreeSlot(r_used)

RRead(p) == toR # <<>> /\ p = Head(toR) /\ toR' = Tail(toR)

RTimer(p) == "R" \in TimesOut /\ Len(toS) < LineCap /\ p = Null /\ UNCHANGED toR

\* The block check: type 1 for S packets, else the negotiated type.
RChecks(p) ==
    /\ p.typ # "bad"
    /\ p.typ = "E" \/ p.chk = (IF p.typ = "S" THEN 1 ELSE Bct)

\* nak(): the NAK replaces opktbuf; its result decides only if it is looked at.
RNak(checked) ==
    \E ok \in TxResults :
        LET n == Pkt("N", r_seq, NoUnit, Bct) IN
        /\ toS' = Sent(toS, n, ok)
        /\ r_opkt' = n
        /\ r_rtr' = [r_rtr EXCEPT ![slotR] = Bump(@)]
        /\ rexit' = IF checked /\ (~ok \/ r_rtr[slotR] > Retry(rst # "R_WAIT"))
                      THEN "FAILURE" ELSE rexit
        /\ UNCHANGED <<rst, r_seq>>

\* epkt() and an X_ERROR that ends the process.
RRefuse ==
    /\ \E ok \in TxResults : toS' = Sent(toS, ErrorPkt, ok)
    /\ rexit' = "FAILURE"
    /\ UNCHANGED <<rst, r_seq, r_opkt>>

\* ack(): acknowledge the wanted packet with y and go to state st, the process
\* being in condition x from then on.
AckPkt(text) == [Pkt("Y", r_seq, NoUnit, Bct) EXCEPT !.can = text]

RAck(y, st, x) ==
    \E ok \in TxResults :
        /\ toS' = Sent(toS, y, ok)
        /\ IF ok THEN r_opkt' = y /\ r_seq' = Succ(r_seq) /\ rst' = st /\ rexit' = x
                 ELSE rexit' = "FAILURE" /\ UNCHANGED <<rst, r_seq, r_opkt>>

\* The text of the ACK to a D or Z packet asks for a cancellation.
RCancelText == CASE r_cancel = 0 -> "no" [] r_cancel = 1 -> "X" [] r_cancel = 2 -> "Z"

-----------------------------------------------------------------------------
(* Packets that are not the wanted one.                                     *)

\* Echoes of ACKs and NAKs are dropped before their block check is looked at.
REcho(p) ==
    /\ p.typ \in {"Y", "N"}
    /\ UNCHANGED <<rst, r_seq, r_opkt, r_used, r_rtr, rexit, recvFile, toS>>

\* Nothing, or nothing usable, was read: NAK the packet wanted.
RDamaged(p) ==
    /\ p.typ \notin {"Y", "N"}
    /\ Unreadable(p) \/ ~RChecks(p)
    /\ r_used' = IF p.typ = "short" THEN [r_used EXCEPT ![slotR] = TRUE] ELSE r_used
    /\ RNak(Unreadable(p))
    /\ UNCHANGED recvFile

\* An Error packet ends the transfer.
RError(p) ==
    /\ p.typ = "E"
    /\ rexit' = "FAILURE"
    /\ UNCHANGED <<rst, r_seq, r_opkt, r_used, r_rtr, recvFile, toS>>

RGood(p) == p.typ \notin {"Y", "N", "E"} /\ ~Unreadable(p) /\ RChecks(p)

\* Mutant: the previous packet is dropped without an answer.
RStaleSilent(p) ==
    /\ RGood(p) /\ p.seq # r_seq
    /\ IF p.seq # Prev(r_seq) THEN RNak(TRUE)
                              ELSE UNCHANGED <<rst, r_seq, r_opkt, r_rtr, rexit, toS>>
    /\ UNCHANGED <<r_used, recvFile>>

\* The previous packet again: its answer is repeated, so often and no more.
\* Any other number is answered with a NAK.
RStale(p) ==
    /\ RGood(p) /\ p.seq # r_seq
    /\ IF p.seq # Prev(r_seq)
         THEN RNak(TRUE)
         ELSE /\ r_rtr' = [r_rtr EXCEPT ![slotR] = Bump(@)]
              /\ IF r_rtr[slotR] > Retry(rst # "R_WAIT")
                   THEN RRefuse
                   ELSE /\ \E ok \in TxResults :
                              /\ toS' = Sent(toS, r_opkt, ok)
                              /\ rexit' = IF ok THEN rexit ELSE "FAILURE"
                        /\ UNCHANGED <<rst, r_seq, r_opkt>>
    /\ UNCHANGED <<r_used, recvFile>>

\* Mutant: the previous packet is taken for the one wanted.
RWantedPrev(p) ==
    /\ RGood(p) /\ p.seq \in {r_seq, Prev(r_seq)}
    /\ r_rtr' = [r_rtr EXCEPT ![slotR] = 0]
    /\ UNCHANGED r_used

RWanted(p) ==
    /\ RGood(p) /\ p.seq = r_seq
    /\ r_rtr' = [r_rtr EXCEPT ![slotR] = 0]
    /\ UNCHANGED r_used

-----------------------------------------------------------------------------
(* The state switcher.                                                      *)

RInitPkt(p) ==
    /\ RWanted(p) /\ rst = "R_WAIT" /\ p.typ = "S"
    /\ RAck(ParamPkt("Y", r_seq), "R_FILE", "run")
    /\ UNCHANGED recvFile

\* Mutant: the state is not switched.
RFilePktNoSwitch(p) ==
    /\ RWanted(p) /\ rst = "R_FILE" /\ p.typ = "F"
    /\ r_name' = p.dat[1]
    /\ RAck(AckPkt("no"), "R_FILE", "run")
    /\ UNCHANGED <<r_binary, r_obuf, r_pos, disk, r_done>>

\* Mutant: the name of the first file is kept.
RFilePktOldName(p) ==
    /\ RWanted(p) /\ rst = "R_FILE" /\ p.typ = "F"
    /\ r_name' = IF r_name = 0 THEN p.dat[1] ELSE r_name
    /\ RAck(AckPkt("no"), "R_ATTR", "run")
    /\ UNCHANGED <<r_binary, r_obuf, r_pos, disk, r_done>>

RFilePkt(p) ==
    /\ RWanted(p) /\ rst = "R_FILE" /\ p.typ = "F"
    /\ r_name' = p.dat[1]
    /\ RAck(AckPkt("no"), "R_ATTR", "run")
    /\ UNCHANGED <<r_binary, r_obuf, r_pos, disk, r_done>>

RBreak(p) ==
    /\ RWanted(p) /\ rst = "R_FILE" /\ p.typ = "B"
    /\ RAck(AckPkt("no"), "R_FILE", "SUCCESS")
    /\ UNCHANGED recvFile

\* gattr(): was the file announced as binary?
GattrBinary(p) == p.dat[2] = 1

\* The result of this ack() is not looked at.
RAttrPkt(p) ==
    /\ RWanted(p) /\ rst = "R_ATTR" /\ p.typ = "A"
    /\ r_binary' = GattrBinary(p)
    /\ \E ok \in TxResults :
          /\ toS' = Sent(toS, AckPkt("no"), ok)
          /\ r_opkt' = AckPkt("no")
          /\ r_seq' = IF ok THEN Succ(r_seq) ELSE r_seq
    /\ UNCHANGED <<rst, rexit, r_name, r_obuf, r_pos, disk, r_done>>

\* writefile(): n bytes of obuf, or in text mode all of it up to the first NUL.
TextLen(obuf) ==
    CHOOSE n \in 0..ObufLen : /\ \A i \in 1..n : obuf[i] # NoUnit
                              /\ n = ObufLen \/ obuf[n + 1] = NoUnit

Written(obuf, n) == SubSeq(obuf, 1, IF r_binary THEN n ELSE TextLen(obuf))

\* The results of writing w after the contents old: all of it, or X_ERROR
\* and only a part.
WriteOK(old, w) == old \o w

WriteErrors(old, w) ==
    IF "write" \in IOFaults THEN {old \o SubSeq(w, 1, n) : n \in 0..(Len(w) - 1)} ELSE {}

\* Mutant: a write error is acknowledged like a success.
RDecodeUnchecked(u, pos, old) ==
    LET obuf == [r_obuf EXCEPT ![pos + 1] = u]
        full == pos + 1 = ObufLen
        w == Written(obuf, ObufLen)
    IN  /\ r_obuf' = obuf
        /\ UNCHANGED <<r_binary, r_name, r_done>>
        /\ r_pos' = IF full THEN 0 ELSE pos + 1
        /\ \E new \in IF full THEN {WriteOK(old, w)} \cup WriteErrors(old, w) ELSE {old} :
              disk' = [disk EXCEPT ![r_name] = new]
        /\ RAck(AckPkt(RCancelText), "R_DATA", "run")

\* decode(): the unit goes to obuf, which is written out when it is full.  While
\* that works, a packet of several units acts like several packets.  When it fails
\* the break leaves the loop over a repeated character only: the rest of the packet
\* is stored after the end of obuf, and then the error is returned.
RDecode(u, pos, old) ==
    LET obuf == [r_obuf EXCEPT ![pos + 1] = u]
        full == pos + 1 = ObufLen
    IN  /\ r_obuf' = obuf
        /\ UNCHANGED <<r_binary, r_name, r_done>>
        /\ \/ /\ r_pos' = IF full THEN 0 ELSE pos + 1
              /\ disk' = [disk EXCEPT ![r_name] =
                             IF full THEN WriteOK(old, Written(obuf, ObufLen)) ELSE old]
              /\ RAck(AckPkt(RCancelText), "R_DATA", "run")
           \/ /\ full
              /\ \E rest \in 0..PktRest : r_pos' = pos + 1 + rest
              /\ \E new \in WriteErrors(old, Written(obuf, ObufLen)) :
                    disk' = [disk EXCEPT ![r_name] = new]
              /\ RRefuse

\* openfile(), mode 2: the file is created, and so truncated if it exists.
Created == <<>>

RFirstData(p) ==
    /\ RWanted(p) /\ rst = "R_ATTR" /\ p.typ = "D"
    /\ \/ RDecode(p.dat, 0, Created)
       \/ /\ "openw" \in IOFaults
          /\ RRefuse
          /\ UNCHANGED recvFile

RDataPkt(p) ==
    /\ RWanted(p) /\ rst = "R_DATA" /\ p.typ = "D"
    /\ RDecode(p.dat, r_pos, disk[r_name])

\* closefile(): an incomplete file, marked D by the sender, is deleted.
Closed(c, contents) == IF c = "D" /\ ~Keep THEN <<>> ELSE contents

\* Mutant: one unit left in obuf is not written out.
REofPktNoFlush(p) ==
    /\ RWanted(p) /\ rst = "R_DATA" /\ p.typ = "Z"
    /\ r_pos' = 0
    /\ disk' = [disk EXCEPT ![r_name] =
                   IF r_pos > 1 THEN WriteOK(@, Written(r_obuf, r_pos)) ELSE @]
    /\ r_done' = r_done \cup {r_name}
    /\ RAck(AckPkt(RCancelText), "R_FILE", "run")
    /\ UNCHANGED <<r_binary, r_name, r_obuf>>

\* End of file: write the rest of obuf, whatever comes of that, and close.
REofPkt(p) ==
    /\ RWanted(p) /\ rst = "R_DATA" /\ p.typ = "Z"
    /\ r_pos' = 0
    /\ UNCHANGED <<r_binary, r_name, r_obuf>>
    /\ LET old == disk[r_name]
           w == IF r_pos > 0 THEN Written(r_obuf, r_pos) ELSE <<>>
       IN  \E new \in {WriteOK(old, w)} \cup WriteErrors(old, w) :
             \/ /\ disk' = [disk EXCEPT ![r_name] = Closed(p.can, new)]
                /\ r_done' = r_done \cup {r_name}
                /\ RAck(AckPkt(RCancelText), "R_FILE", "run")
             \/ /\ "close" \in IOFaults
                /\ disk' = [disk EXCEPT ![r_name] = new]
                /\ RRefuse
                /\ UNCHANGED r_done

\* An empty file: create it, close it, acknowledge, and leave the switch by
\* break, which returns X_ERROR.
REmpty(p) ==
    /\ RWanted(p) /\ rst = "R_ATTR" /\ p.typ = "Z"
    /\ \/ /\ disk' = [disk EXCEPT ![r_name] = Created]
          /\ r_done' = r_done \cup {r_name}
          /\ RAck(AckPkt(RCancelText), "R_FILE", "FAILURE")
       \/ /\ "close" \in IOFaults
          /\ disk' = [disk EXCEPT ![r_name] = Created]
          /\ RRefuse
          /\ UNCHANGED r_done
       \/ /\ "openw" \in IOFaults
          /\ RRefuse
          /\ UNCHANGED <<disk, r_done>>
    /\ r_pos' = 0
    /\ UNCHANGED <<r_binary, r_name, r_obuf>>

\* Which packets each state takes.
Takes(st) ==
    CASE st = "R_WAIT" -> {"S"}
      [] st = "R_FILE" -> {"F", "B"}
      [] st = "R_ATTR" -> {"A", "D", "Z"}
      [] st = "R_DATA" -> {"D", "Z"}

\* "Unexpected packet type".
RUnexpected(p) ==
    /\ RWanted(p) /\ p.typ \notin Takes(rst)
    /\ RRefuse
    /\ UNCHANGED recvFile

\* No free slot: rxd has no buffer to read into and main() gives up.
RNoSlot ==
    /\ RRunning /\ NoSlot(r_used)
    /\ rexit' = "FAILURE"
    /\ UNCHANGED <<rst, r_seq, r_opkt, r_used, r_rtr, r_cancel, recvFile, toR, toS>>

RRun(p) ==
    /\ RRunning /\ ~NoSlot(r_used)
    /\ \/ REcho(p) \/ RDamaged(p) \/ RError(p) \/ RStale(p)
       \/ RInitPkt(p) \/ RFilePkt(p) \/ RBreak(p) \/ RAttrPkt(p) \/ RFirstData(p)
       \/ RDataPkt(p) \/ REofPkt(p) \/ REmpty(p) \/ RUnexpected(p)
    /\ UNCHANGED r_cancel

RReceive == toR # <<>> /\ RRead(Head(toR)) /\ RRun(Head(toR))

RTimeout == RTimer(Null) /\ RRun(Null)

-----------------------------------------------------------------------------
(* The control program, between two turns of the loop.                      *)

RCancel ==
    /\ RRunning /\ r_cancel = 0
    /\ \/ "R file" \in Cancels /\ r_cancel' = 1
       \/ "R group" \in Cancels /\ r_cancel' = 2
    /\ UNCHANGED <<rst, r_seq, r_opkt, r_used, r_rtr, rexit, recvFile, toR, toS>>

\* kermit(K_ERROR).
RAbort ==
    /\ RRunning /\ "R abort" \in Cancels
    /\ \E ok \in TxResults : toS' = Sent(toS, ErrorPkt, ok)
    /\ rexit' = "quit"
    /\ UNCHANGED <<rst, r_seq, r_opkt, r_used, r_rtr, r_cancel, recvFile, toR>>

RecvNext == RReceive \/ RTimeout \/ RNoSlot \/ RCancel \/ RAbort

=============================================================================
