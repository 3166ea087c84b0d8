------------------------------ MODULE EKermit ------------------------------
(***************************************************************************)
(* A sending and a receiving E-Kermit at the two ends of a serial line,    *)
(* and the properties of the transfer.                                     *)
(***************************************************************************)
EXTENDS EKermitSend, EKermitRecv

vars == <<lineVars, sendVars, recvVars>>

Init ==
    /\ toR = <<>> /\ toS = <<>> /\ faults = 0
    /\ SInit
    /\ RInit

\* The line echoes the last packet a side sent.
Echo ==
    /\ faults < MaxFaults
    /\ "echo" \in LineFaults
    /\ faults' = faults + 1
    /\ \/ SRunning /\ toS' = Append(toS, s_opkt) /\ UNCHANGED toR
       \/ RRunning /\ r_opkt.typ # "none" /\ toR' = Append(toR, r_opkt) /\ UNCHANGED toS

\* What is sent to a process that has ended goes nowhere.
Drain ==
    \/ rexit # "run" /\ toR # <<>> /\ toR' = Tail(toR) /\ UNCHANGED <<toS, faults>>
    \/ sexit # "run" /\ toS # <<>> /\ toS' = Tail(toS) /\ UNCHANGED <<toR, faults>>

Ended == sexit # "run" /\ rexit # "run"

Next ==
    \/ SendNext /\ UNCHANGED <<recvVars, faults>>
    \/ RecvNext /\ UNCHANGED <<sendVars, faults>>
    \/ (LineFault \/ Noise \/ Echo \/ Drain) /\ UNCHANGED <<sendVars, recvVars>>
    \/ Ended /\ UNCHANGED vars

Spec == Init /\ [][Next]_vars

\* main() calls kermit() for every packet that arrives, and a side that times
\* out keeps doing so.  Nothing makes a control program cancel anything.
Fairness ==
    /\ WF_vars((SStart \/ SReceive \/ SNoSlot) /\ UNCHANGED <<recvVars, faults>>)
    /\ WF_vars(STimeout /\ UNCHANGED <<recvVars, faults>>)
    /\ WF_vars((RReceive \/ RNoSlot) /\ UNCHANGED <<sendVars, faults>>)
    /\ WF_vars(RTimeout /\ UNCHANGED <<sendVars, faults>>)
    /\ WF_vars(Drain /\ UNCHANGED <<sendVars, recvVars>>)

FairSpec == Spec /\ Fairness

-----------------------------------------------------------------------------
(* The types of the variables.                                              *)

SendStates == {"R_WAIT", "S_INIT", "S_FILE", "S_ATTR", "S_DATA", "S_EOF", "S_EOT"}
RecvStates == {"R_WAIT", "R_FILE", "R_ATTR", "R_DATA"}
SendExits == {"run", "receiving", "quit", "SUCCESS", "FAILURE"}
RecvExits == {"run", "quit", "SUCCESS", "FAILURE"}

LineType == toR \in Seq(Packets) /\ toS \in Seq(Packets) /\ faults \in 0..MaxFaults

SendType ==
    /\ sst \in SendStates /\ sexit \in SendExits
    /\ s_seq \in Seqs /\ s_opkt \in Packets
    /\ s_used \in [Slots -> BOOLEAN] /\ s_rtr \in [Slots -> 0..RtrMax]
    /\ s_list \in 0..NFiles /\ s_file \in 0..NFiles /\ s_pos \in Nat
    /\ s_cancel \in 0..2

RecvType ==
    /\ rst \in RecvStates /\ rexit \in RecvExits
    /\ r_seq \in Seqs /\ r_opkt \in Packets
    /\ r_used \in [Slots -> BOOLEAN] /\ r_rtr \in [Slots -> 0..RtrMax]
    /\ r_cancel \in 0..2 /\ r_binary \in BOOLEAN /\ r_name \in 0..NFiles
    /\ r_obuf \in [1..ObufLen -> Units] /\ r_pos \in 0..(ObufLen + PktRest)
    /\ rexit = "run" => r_pos < ObufLen
    /\ rst \in {"R_ATTR", "R_DATA"} => r_name \in Files
    /\ disk \in [Files -> Seq(Units)] /\ r_done \subseteq Files

\* Every variable holds a value of the C type, or of the range, it stands for.  A
\* receiver that goes on has room for one more byte in obuf (one whose write failed
\* ends, but may have gone past the end of obuf before), and it has a file name
\* whenever openfile() or closefile() may need one.
TypeOK == LineType /\ SendType /\ RecvType

-----------------------------------------------------------------------------
(* The link.  The sender waits for one ACK at a time, so the packet with    *)
(* number s_seq, s_opkt, is the current one; it is accepted when the        *)
(* receiver has gone on to want the next.                                   *)

Accepted == r_seq = Succ(s_seq)

\* The receiver wants the sender's current packet or the next one, and it can
\* still repeat only its answer to the packet before the one it wants.
Numbers ==
    /\ r_seq \in {s_seq, Succ(s_seq)}
    /\ s_opkt.seq = s_seq /\ s_opkt.typ # "Y"
    /\ r_opkt.typ \in {"none", "Y", "N"}
    /\ r_opkt.typ = "Y" => r_opkt.seq = Prev(r_seq)

\* Packets on the way to the receiver: copies of the current packet follow
\* copies of the one before it, and once it is accepted no older one is left.
DataOrder(line) ==
    \A i \in 1..Len(line) : RGood(line[i]) =>
        /\ line[i] # s_opkt => line[i].seq = Prev(s_seq) /\ ~Accepted
        /\ line[i] = s_opkt => \A j \in i..Len(line) : RGood(line[j]) => line[j] = s_opkt

\* Packets on the way to the sender: ACKs of the current packet follow those of
\* the one before it, and there is one only if the packet has been accepted.
AckOrder(line) ==
    \A i \in 1..Len(line) : line[i].typ = "Y" =>
        /\ line[i].seq # s_seq => line[i].seq = Prev(s_seq)
        /\ line[i].seq = s_seq =>
              /\ Accepted
              /\ \A j \in i..Len(line) : line[j].typ = "Y" => line[j].seq = s_seq

\* Nothing is accepted or acknowledged before the sender has sent anything.
Silent ==
    sst = "R_WAIT" =>
        /\ s_seq = 0 /\ r_seq = 0
        /\ \A i \in 1..Len(toR) : ~RGood(toR[i])
        /\ \A i \in 1..Len(toS) : toS[i].typ # "Y"

\* The stop-and-wait link: what is under way between the two sides, and what
\* either may still repeat, never mixes up a packet with another one of the
\* same number, however late, often or damaged it arrives.
Link == Numbers /\ DataOrder(toR) /\ AckOrder(toS) /\ Silent

-----------------------------------------------------------------------------
(* Safety.                                                                  *)

\* Units i+1, i+2, ... of file f, and nothing else.
Consecutive(s, f, i) == \A j \in 1..Len(s) : s[j] = <<f, i + j>>

\* Whatever is on the receiver's disk under a file's name is the beginning of
\* that file, and what waits in obuf continues it: no unit is lost, repeated,
\* swapped or put into another file, whatever the line does to the packets.
InOrder ==
    /\ \A f \in Files : Consecutive(disk[f], f, 0)
    /\ rexit = "run" /\ rst = "R_DATA" =>
          Consecutive(SubSeq(r_obuf, 1, r_pos), r_name, Len(disk[r_name]))

\* The two state machines keep in step: a packet with the number the receiver
\* wants is of a type its state takes, so "Unexpected packet type" is never the
\* answer to another E-Kermit.
InStep ==
    \A i \in 1..Len(toR) :
        rexit = "run" /\ RGood(toR[i]) /\ toR[i].seq = r_seq => toR[i].typ \in Takes(rst)

NoCancel == s_cancel = 0 /\ r_cancel = 0

Complete(f) == disk[f] = [i \in 1..FileLen[f] |-> <<f, i>>]

\* If nobody cancelled anything, a sender that reports success has had every
\* file of its list received completely, and the receiver reports success too.
Agreement ==
    sexit = "SUCCESS" /\ NoCancel =>
        rexit = "SUCCESS" /\ \A f \in Files : f \in r_done /\ Complete(f)

\* If nobody cancelled anything, a file the receiver has closed is complete,
\* even when the transfer fails later.
DoneComplete == NoCancel => \A f \in r_done : Complete(f)

\* A file that has been received is never opened, truncated or written again,
\* whatever arrives late.
DoneStays == [][\A f \in r_done : f \in r_done' /\ disk'[f] = disk[f]]_vars

-----------------------------------------------------------------------------
(* The transfer as its users see it.                                        *)

\* What the receiver has of each file, on disk and in obuf.
Out == [f \in Files |-> IF rst = "R_DATA" /\ f = r_name
                         THEN disk[f] \o SubSeq(r_obuf, 1, r_pos) ELSE disk[f]]

Transfer == INSTANCE FileTransfer WITH
                out <- Out, finished <- r_done, cancelled <- ~NoCancel,
                sender <- sexit, receiver <- rexit

\* E-Kermit implements a transfer in which the units of the files arrive one
\* by one and in order, each file ends only when all of it is there, and the
\* sender hears of success only after the receiver.
ImplementsTransfer == Transfer!Spec

-----------------------------------------------------------------------------
(* Progress.                                                                *)

\* A line that is merely noisy does not stop the transfer: the receiver ends
\* with every file complete.
ReceiverFinishes == <>(rexit = "SUCCESS" /\ \A f \in Files : Complete(f))

\* If rxd times out, lost and damaged packets do not hang the receiver: every
\* timeout is answered with a NAK, and the NAKs are counted.
ReceiverEnds == <>(rexit # "run")

-----------------------------------------------------------------------------
(* What the documentation, the comments or the names in the code say, and   *)
(* the code does not do.                                                    *)

\* A transfer over a line that damages nothing, with no i/o error, does not
\* fail, whatever the files contain and whatever is cancelled.
CleanSucceeds == faults = 0 => sexit # "FAILURE" /\ rexit # "FAILURE"

\* A side gives up only when a packet needed more retransmissions than the
\* retry limit allows, so not before the line failed that often.
FewFaultsSurvived == faults <= PRetry => sexit # "FAILURE" /\ rexit # "FAILURE"

\* decode() stores no more than obuf holds, whose "Length of output file buffer" is
\* obuflen.
NoOverrun == r_pos <= ObufLen

\* Both processes end: nobody waits for a peer that has gone.
BothEnd == <>Ended

=============================================================================
