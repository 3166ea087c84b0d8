---------------------------- MODULE EKermitSend ----------------------------
(***************************************************************************)
(* The sending E-Kermit: kermit() with k->what = W_SEND, called by main()  *)
(* for every packet it reads.  One action is one turn of main()'s loop:    *)
(* getrslot, rxd, kermit(K_RUN).  When a turn ends the process, what is    *)
(* left of its k_data is dead and is not updated.                          *)
(***************************************************************************)
EXTENDS EKermitLine

CONSTANTS
    Attrs,          \* did both sides offer CAP_AT (F_AT)?
    SendOption      \* the sender's file type option: "auto", "-B" or "-T"

ASSUME SendAssumption ==
    /\ Attrs \in BOOLEAN
    /\ SendOption \in {"auto", "-B", "-T"}

VARIABLES
    sst,            \* k->state
    s_seq,          \* k->s_seq; k->r_seq is equal to it whenever kermit() returns
    s_opkt,         \* k->opktbuf, the last packet sent
    s_used,         \* which of ipktinfo[] are not free
    s_rtr,          \* ipktinfo[].rtr
    s_list,         \* how many names of k->filelist have been taken
    s_file,         \* the file being sent
    s_pos,          \* units of it that getpkt() has taken
    s_cancel,       \* k->cancel: 0, I_FILE = 1 or I_GROUP = 2
    sexit           \* "run", or how the process ended

sendVars == <<sst, s_seq, s_opkt, s_used, s_rtr, s_list, s_file, s_pos, s_cancel, sexit>>

\* What only a new protocol step changes.
sendStep == <<sst, s_seq, s_opkt, s_list, s_file, s_pos>>

SInit ==
    /\ sst = "R_WAIT"
    /\ s_seq = 0
    /\ s_opkt = NoPkt
    /\ s_used = [i \in Slots |-> FALSE]
    /\ s_rtr = [i \in Slots |-> 0]
    /\ s_list = 0
    /\ s_file = 0
    /\ s_pos = 0
    /\ s_cancel = 0
    /\ sexit = "run"

SRunning == sexit = "run" /\ sst # "R_WAIT"

-----------------------------------------------------------------------------
(* The packet read in this turn, and the slot it is in.                     *)

slotS == FreeSlot(s_used)

SRead(p) == toS # <<>> /\ p = Head(toS) /\ toS' = Tail(toS)

STimer(p) == "S" \in TimesOut /\ Len(toR) < LineCap /\ p = Null /\ UNCHANGED toS

\* The block check: packets are checked with type 1 until the ACK to S, then
\* with the negotiated type; E packets may have type 1 at any time.
SChecks(p) ==
    /\ p.typ # "bad"
    /\ p.typ = "E" \/ p.chk = (IF sst = "S_INIT" THEN 1 ELSE Bct)

SLeak == s_used' = [s_used EXCEPT ![slotS] = TRUE]

\* The process ends; its packet state is dead.
SFails == sexit' = "FAILURE" /\ UNCHANGED sendStep

\* resend(): retransmit opktbuf; the result decides only if it is looked at.
SResend(checked) ==
    \E ok \in TxResults :
        /\ toR' = Sent(toR, s_opkt, ok)
        /\ sexit' = IF ok \/ ~checked THEN sexit ELSE "FAILURE"
        /\ UNCHANGED sendStep

\* nxtpkt() and spkt(): a new packet, after which the state is st.
SNext(p, st) ==
    \E ok \in TxResults :
        /\ toR' = Sent(toR, p, ok)
        /\ IF ok THEN sst' = st /\ s_seq' = p.seq /\ s_opkt' = p /\ sexit' = sexit
                 ELSE sexit' = "FAILURE" /\ UNCHANGED <<sst, s_seq, s_opkt>>

-----------------------------------------------------------------------------
(* kermit(K_SEND): main() ignores its result, so when the S packet cannot   *)
(* be written the process goes on as a receiver that waits for an S packet. *)

SStart ==
    /\ sexit = "run" /\ sst = "R_WAIT"
    /\ \E ok \in TxResults :
          /\ toR' = Sent(toR, ParamPkt("S", 0), ok)
          /\ s_opkt' = ParamPkt("S", 0)
          /\ IF ok THEN sst' = "S_INIT" /\ sexit' = sexit
                   ELSE sexit' = "receiving" /\ sst' = sst
    /\ UNCHANGED <<s_seq, s_used, s_rtr, s_list, s_file, s_pos, s_cancel, toS>>

\* Nothing, or nothing usable, was read: retransmit.  A packet of 1 to 3
\* bytes keeps its slot.
SDamaged(p) ==
    /\ Unreadable(p) \/ ~SChecks(p)
    /\ IF p.typ = "short" THEN SLeak ELSE UNCHANGED s_used
    /\ SResend(Unreadable(p))
    /\ UNCHANGED s_rtr

\* An Error packet ends the transfer.
SError(p) ==
    /\ p.typ = "E"
    /\ SFails
    /\ UNCHANGED <<s_used, s_rtr, toR>>

SGood(p) == ~Unreadable(p) /\ SChecks(p) /\ p.typ # "E"

\* Not the number waited for.  Repeats of the previous ACK are counted.
SStale(p) ==
    /\ SGood(p) /\ p.seq # s_seq
    /\ UNCHANGED s_used
    /\ IF p.seq = Prev(s_seq)
         THEN /\ s_rtr' = [s_rtr EXCEPT ![slotS] = Bump(@)]
              /\ IF s_rtr[slotS] > Retry(sst # "S_INIT")
                   THEN \E ok \in TxResults : toR' = Sent(toR, ErrorPkt, ok) /\ SFails
                   ELSE SResend(TRUE)
         ELSE SResend(TRUE) /\ UNCHANGED s_rtr

\* Mutant: an ACK to the packet before is taken for the one waited for.
SExpectedPrev(p) ==
    /\ SGood(p) /\ p.seq \in {s_seq, Prev(s_seq)}
    /\ s_rtr' = [s_rtr EXCEPT ![slotS] = 0]

SExpected(p) ==
    /\ SGood(p) /\ p.seq = s_seq
    /\ s_rtr' = [s_rtr EXCEPT ![slotS] = 0]

\* A NAK, or an echo of the sender's own packet.
SNotAck(p) ==
    /\ SExpected(p) /\ p.typ # "Y"
    /\ SResend(TRUE)
    /\ UNCHANGED s_used

SCancelSeen(p) == sst = "S_DATA" /\ (s_cancel # 0 \/ p.can \in {"X", "Z"})

\* The file is cancelled from here or by the receiver: the ACK's slot is kept.
SCancelled(p) ==
    /\ SExpected(p) /\ p.typ = "Y" /\ SCancelSeen(p)
    /\ SLeak
    /\ SNext(Pkt("Z", Succ(s_seq), NoUnit, Bct), "S_EOF")
    /\ s_list' = IF sexit' = "run" /\ (p.can = "Z" \/ s_cancel = 2) THEN NFiles ELSE s_list
    /\ UNCHANGED <<s_file, s_pos>>

\* Mutant: the type of the answer is not looked at.
SAckedAny(p) == SExpected(p) /\ ~SCancelSeen(p) /\ UNCHANGED s_used

SAcked(p) == SExpected(p) /\ p.typ = "Y" /\ ~SCancelSeen(p) /\ UNCHANGED s_used

\* S_INIT, S_EOF: open the next file and send its name, or finish with B.
SNextFile(p) ==
    /\ SAcked(p) /\ sst \in {"S_INIT", "S_EOF"}
    /\ IF s_list < NFiles
         THEN \/ /\ SNext(Pkt("F", Succ(s_seq), NameOf(s_list + 1), Bct), "S_FILE")
                 /\ s_list' = s_list + 1 /\ s_file' = s_list + 1 /\ s_pos' = 0
              \/ "openr" \in IOFaults /\ SFails /\ UNCHANGED toR
         ELSE /\ SNext(Pkt("B", Succ(s_seq), NoUnit, Bct), "S_EOT")
              /\ UNCHANGED <<s_list, s_file, s_pos>>

\* doarg() and kermit.h: k.binary after -B is BINARY, 0; after -T it is TEXT, 1.
Forced(option) == IF option = "-B" THEN 0 ELSE 1

\* fileinfo(): the type of the file, 0 for text and 1 for binary.
FileType(f) ==
    IF SendOption # "auto" THEN Forced(SendOption)
                           ELSE IF Binary[f] THEN 1 ELSE 0

\* sattr(): the A packet announces the type.
AttrPkt(f, n) == Pkt("A", n, <<f, FileType(f)>>, Bct)

SFileAcked(p) ==
    /\ SAcked(p) /\ sst = "S_FILE" /\ Attrs
    /\ SNext(AttrPkt(s_file, Succ(s_seq)), "S_ATTR")
    /\ UNCHANGED <<s_list, s_file, s_pos>>

SDataWanted == sst \in {"S_ATTR", "S_DATA"} \/ (sst = "S_FILE" /\ ~Attrs)

\* sdata(): is there a unit to send?  Not after a cancellation.
SMore == s_cancel = 0 /\ s_pos < FileLen[s_file]

\* Mutant: getpkt() sends its lookahead again.
SDataAgain(p) ==
    /\ SAcked(p) /\ SDataWanted /\ SMore
    /\ LET d == Pkt("D", Succ(s_seq), <<s_file, IF s_pos = 0 THEN 1 ELSE s_pos>>, Bct) IN
       /\ \E ok \in TxResults : toR' = Sent(toR, d, ok)
       /\ s_opkt' = d
    /\ s_pos' = s_pos + 1
    /\ s_seq' = Succ(s_seq)
    /\ sst' = "S_DATA"
    /\ UNCHANGED <<s_list, s_file, sexit>>

\* The next unit; the state switcher does not look at a write error.
SData(p) ==
    /\ SAcked(p) /\ SDataWanted /\ SMore
    /\ LET d == Pkt("D", Succ(s_seq), <<s_file, s_pos + 1>>, Bct) IN
       /\ \E ok \in TxResults : toR' = Sent(toR, d, ok)
       /\ s_opkt' = d
    /\ s_pos' = s_pos + 1
    /\ s_seq' = Succ(s_seq)
    /\ sst' = "S_DATA"
    /\ UNCHANGED <<s_list, s_file, sexit>>

\* sdata() found end of file, or a cancellation before the first unit.
SEof(p) ==
    /\ SAcked(p) /\ SDataWanted /\ ~SMore
    /\ SNext(Pkt("Z", Succ(s_seq), NoUnit, Bct), "S_EOF")
    /\ UNCHANGED <<s_list, s_file, s_pos>>

SDone(p) ==
    /\ SAcked(p) /\ sst = "S_EOT"
    /\ sexit' = "SUCCESS"
    /\ UNCHANGED <<sendStep, toR>>

\* No free slot: rxd has no buffer to read into and main() gives up.
SNoSlot ==
    /\ SRunning /\ NoSlot(s_used)
    /\ SFails
    /\ UNCHANGED <<s_used, s_rtr, s_cancel, toR, toS>>

SRun(p) ==
    /\ SRunning /\ ~NoSlot(s_used)
    /\ \/ SDamaged(p) \/ SError(p) \/ SStale(p) \/ SNotAck(p) \/ SCancelled(p)
       \/ SNextFile(p) \/ SFileAcked(p) \/ SData(p) \/ SEof(p) \/ SDone(p)
    /\ UNCHANGED s_cancel

SReceive == toS # <<>> /\ SRead(Head(toS)) /\ SRun(Head(toS))

STimeout == STimer(Null) /\ SRun(Null)

-----------------------------------------------------------------------------
(* The control program, between two turns of the loop.                      *)

SCancel ==
    /\ SRunning /\ s_cancel = 0
    /\ \/ "S file" \in Cancels /\ s_cancel' = 1
       \/ "S group" \in Cancels /\ s_cancel' = 2
    /\ UNCHANGED <<sst, s_seq, s_opkt, s_used, s_rtr, s_list, s_file, s_pos, sexit, toR, toS>>

\* kermit(K_ERROR): send an Error packet, close the file, report X_DONE.
SAbort ==
    /\ SRunning /\ "S abort" \in Cancels
    /\ \E ok \in TxResults : toR' = Sent(toR, ErrorPkt, ok)
    /\ sexit' = "quit"
    /\ UNCHANGED <<sst, s_seq, s_opkt, s_used, s_rtr, s_list, s_file, s_pos, s_cancel, toS>>

SendNext == SStart \/ SReceive \/ STimeout \/ SNoSlot \/ SCancel \/ SAbort

=============================================================================
