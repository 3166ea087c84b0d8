------------------------- MODULE EKermitLinkProofs -------------------------
(***************************************************************************)
(* The stop-and-wait link is correct for every sequence number space of at *)
(* least three, every number of slots and retries, and every fault of the  *)
(* line, as long as txd() itself does not fail.                            *)
(*                                                                         *)
(* Every step is of one of four kinds: the sender repeats its packet or    *)
(* says nothing (SQuiet), it goes on to the next (SAdvance), the receiver  *)
(* repeats its answer or says nothing (RQuiet), or it accepts (RAccept);   *)
(* the rest are faults of the line.                                        *)
(***************************************************************************)
EXTENDS EKermitProofs

\* The sender repeats its packet, sends an Error packet, or sends nothing.
SQuiet ==
    /\ sst # "R_WAIT" /\ UNCHANGED <<sst, s_seq, s_opkt>>
    /\ toR' \in {toR, Append(toR, s_opkt), Append(toR, ErrorPkt)}
    /\ toS' = toS \/ (toS # <<>> /\ toS' = Tail(toS))

\* The sender takes the ACK it waited for and sends the next packet.
SAdvance ==
    /\ sst # "R_WAIT" /\ sst' # "R_WAIT"
    /\ toS # <<>> /\ Head(toS).typ = "Y" /\ Head(toS).seq = s_seq
    /\ toS' = Tail(toS)
    /\ s_seq' = Succ(s_seq) /\ s_opkt'.seq = Succ(s_seq) /\ s_opkt'.typ # "Y"
    /\ toR' = Append(toR, s_opkt')

\* The receiver repeats its answer, sends a NAK or an Error packet, or nothing.
RQuiet ==
    /\ r_seq' = r_seq
    /\ r_opkt' = r_opkt \/ r_opkt'.typ = "N"
    /\ \/ toS' = toS
       \/ \E q : q.typ # "Y" /\ toS' = Append(toS, q)
       \/ /\ toR # <<>> /\ RGood(Head(toR))
          /\ toS' = Append(toS, r_opkt)
    /\ toR' = toR \/ (toR # <<>> /\ toR' = Tail(toR))

\* The receiver acknowledges the packet it wanted.
RAccept ==
    /\ toR # <<>> /\ RGood(Head(toR)) /\ Head(toR).seq = r_seq
    /\ toR' = Tail(toR)
    /\ r_opkt'.typ = "Y" /\ r_opkt'.seq = r_seq
    /\ r_seq' = Succ(r_seq)
    /\ toS' = Append(toS, r_opkt')

-----------------------------------------------------------------------------
(* The order of packets on a line survives what happens to the line.        *)

\* The oldest packet to the receiver is taken off, or replaced by something
\* unusable; the current packet or something unusable is added.
LEMMA DataOrderKept ==
    ASSUME NEW line \in Seq(Packets), NEW q, DataOrder(line)
    PROVE  /\ line # <<>> => DataOrder(Tail(line))
           /\ line # <<>> /\ ~RGood(q) => DataOrder([line EXCEPT ![1] = q])
           /\ q = s_opkt \/ ~RGood(q) => DataOrder(Append(line, q))
<1>1. ASSUME line # <<>> PROVE DataOrder(Tail(line))
  <2>1. Len(line) \in Nat /\ Len(line) > 0 /\ Len(Tail(line)) = Len(line) - 1
    BY <1>1, LenProperties, EmptySeq, HeadTailProperties
  <2>2. \A i \in 1..Len(Tail(line)) : i + 1 \in 1..Len(line) /\ Tail(line)[i] = line[i + 1]
    BY <1>1, <2>1, HeadTailProperties
  <2>3. \A i \in 1..Len(Tail(line)) : \A j \in i..Len(Tail(line)) :
           j \in 1..Len(Tail(line)) /\ j + 1 \in (i + 1)..Len(line)
    BY <2>1
  <2> QED BY <2>2, <2>3 DEF DataOrder
<1>2. ASSUME line # <<>>, ~RGood(q) PROVE DataOrder([line EXCEPT ![1] = q])
  <2> DEFINE l == [line EXCEPT ![1] = q]
  <2>1. Len(l) = Len(line) /\ \A i \in 1..Len(line) : l[i] = IF i = 1 THEN q ELSE line[i]
    BY <1>2, LenProperties
  <2>2. \A i \in 1..Len(line) : \A j \in i..Len(line) : j \in 1..Len(line)
    BY LenProperties
  <2> HIDE DEF l
  <2>3. DataOrder(l)
    BY <1>2, <2>1, <2>2 DEF DataOrder
  <2> QED BY <2>3 DEF l
<1>3. ASSUME q = s_opkt \/ ~RGood(q) PROVE DataOrder(Append(line, q))
  <2> DEFINE l == Append(line, q)
  <2>1. Len(line) \in Nat /\ Len(l) = Len(line) + 1
        /\ \A i \in 1..Len(l) : l[i] = IF i = Len(line) + 1 THEN q ELSE line[i]
    BY LenProperties, AppendProperties
  <2>2. \A i \in 1..Len(l) : \A j \in i..Len(l) : j \in 1..Len(l) /\ (j <= Len(line) => j \in i..Len(line))
    BY <2>1
  <2> HIDE DEF l
  <2>3. DataOrder(l)
    BY <1>3, <2>1, <2>2 DEF DataOrder
  <2> QED BY <2>3 DEF l
<1> QED BY <1>1, <1>2, <1>3

\* The same for answers to the sender.
LEMMA AckOrderKept ==
    ASSUME NEW line \in Seq(Packets), NEW q, AckOrder(line)
    PROVE  /\ line # <<>> => AckOrder(Tail(line))
           /\ line # <<>> /\ q.typ # "Y" => AckOrder([line EXCEPT ![1] = q])
           /\ q.typ # "Y" => AckOrder(Append(line, q))
           /\ Accepted /\ q.seq = s_seq => AckOrder(Append(line, q))
           /\ ~Accepted /\ q.seq = Prev(s_seq) /\ s_seq \in Seqs => AckOrder(Append(line, q))
<1>1. ASSUME line # <<>> PROVE AckOrder(Tail(line))
  <2>1. Len(line) \in Nat /\ Len(line) > 0 /\ Len(Tail(line)) = Len(line) - 1
    BY <1>1, LenProperties, EmptySeq, HeadTailProperties
  <2>2. \A i \in 1..Len(Tail(line)) : i + 1 \in 1..Len(line) /\ Tail(line)[i] = line[i + 1]
    BY <1>1, <2>1, HeadTailProperties
  <2>3. \A i \in 1..Len(Tail(line)) : \A j \in i..Len(Tail(line)) :
           j \in 1..Len(Tail(line)) /\ j + 1 \in (i + 1)..Len(line)
    BY <2>1
  <2> QED BY <2>2, <2>3 DEF AckOrder
<1>2. ASSUME line # <<>>, q.typ # "Y" PROVE AckOrder([line EXCEPT ![1] = q])
  <2> DEFINE l == [line EXCEPT ![1] = q]
  <2>1. Len(l) = Len(line) /\ \A i \in 1..Len(line) : l[i] = IF i = 1 THEN q ELSE line[i]
    BY <1>2, LenProperties
  <2>2. \A i \in 1..Len(line) : \A j \in i..Len(line) : j \in 1..Len(line)
    BY LenProperties
  <2> HIDE DEF l
  <2>3. AckOrder(l)
    BY <1>2, <2>1, <2>2 DEF AckOrder
  <2> QED BY <2>3 DEF l
<1>3. ASSUME \/ q.typ # "Y"
             \/ Accepted /\ q.seq = s_seq
             \/ ~Accepted /\ q.seq = Prev(s_seq) /\ s_seq \in Seqs
      PROVE  AckOrder(Append(line, q))
  <2> DEFINE l == Append(line, q)
  <2>1. Len(line) \in Nat /\ Len(l) = Len(line) + 1
        /\ \A i \in 1..Len(l) : l[i] = IF i = Len(line) + 1 THEN q ELSE line[i]
    BY LenProperties, AppendProperties
  <2>2. \A i \in 1..Len(l) : \A j \in i..Len(l) : j \in 1..Len(l) /\ (j <= Len(line) => j \in i..Len(line))
    BY <2>1
  <2>3. s_seq \in Seqs => Prev(s_seq) # s_seq
    BY Neighbours
  <2> HIDE DEF l
  <2>4. AckOrder(l)
    BY <1>3, <2>1, <2>2, <2>3 DEF AckOrder
  <2> QED BY <2>4 DEF l
<1> QED BY <1>1, <1>2, <1>3

-----------------------------------------------------------------------------
(* Each kind of step preserves the link.                                    *)

\* The number wanted is that of the current packet or the next, never both.
LEMMA AcceptedOrNot ==
    ASSUME TypeOK, Link
    PROVE  /\ ~Accepted <=> r_seq = s_seq
           /\ Accepted => Prev(r_seq) = s_seq
           /\ ~Accepted => Prev(r_seq) = Prev(s_seq)
           /\ Succ(s_seq) # s_seq /\ Prev(s_seq) # s_seq /\ Prev(s_seq) # Succ(s_seq)
           /\ Prev(Succ(s_seq)) = s_seq /\ Succ(s_seq) \in Seqs
BY Neighbours, SuccValue DEF Accepted, TypeOK, SendType, Link, Numbers

\* Repeats and silence of the sender.
LEMMA SQuietLink ==
    ASSUME TypeOK, Link, SQuiet, UNCHANGED <<r_seq, r_opkt>>
    PROVE  Link'
<1>1. toR \in Seq(Packets) /\ toS \in Seq(Packets) /\ ErrorPkt \in Packets /\ s_opkt \in Packets
  BY FixedPackets DEF TypeOK, LineType, SendType
<1>2. ~RGood(ErrorPkt)
  BY DEF RGood, ErrorPkt, Pkt
<1>3. DataOrder(toR')
  BY <1>1, <1>2, DataOrderKept DEF Link, SQuiet
<1>4. AckOrder(toS')
  BY <1>1, AckOrderKept DEF Link, SQuiet
<1>5. DataOrder(toR)' /\ AckOrder(toS)'
  BY <1>3, <1>4 DEF SQuiet, DataOrder, AckOrder, Accepted
<1>6. Numbers' /\ Silent'
  BY DEF Link, Numbers, Silent, SQuiet
<1> QED BY <1>5, <1>6 DEF Link

\* The sender's next packet: everything under way belongs to the one before.
LEMMA SAdvanceLink ==
    ASSUME TypeOK, Link, SAdvance, UNCHANGED <<r_seq, r_opkt>>
    PROVE  Link'
<1>1. /\ toR \in Seq(Packets) /\ toS \in Seq(Packets)
      /\ Len(toR) \in Nat /\ Len(toS) \in Nat /\ Len(toS) > 0
  BY LenProperties, EmptySeq DEF TypeOK, LineType, SAdvance
<1>2. toS[1].typ = "Y" /\ toS[1].seq = s_seq /\ 1 \in 1..Len(toS)
  BY <1>1 DEF SAdvance
<1>3. Accepted /\ \A j \in 1..Len(toS) : toS[j].typ = "Y" => toS[j].seq = s_seq
  BY <1>2 DEF Link, AckOrder
<1>4. \A i \in 1..Len(toR) : RGood(toR[i]) => toR[i] = s_opkt
  BY <1>3 DEF Link, DataOrder
<1>5. /\ s_opkt.seq = s_seq /\ s_opkt # s_opkt'
      /\ r_seq' = s_seq' /\ Prev(s_seq') = s_seq /\ ~(Accepted')
  <2>1. Succ(s_seq) \in Seqs /\ Succ(Succ(s_seq)) # Succ(s_seq)
    BY AcceptedOrNot, Neighbours
  <2> QED BY <1>3, <2>1, AcceptedOrNot DEF Link, Numbers, SAdvance, Accepted
<1>6. DataOrder(toR)'
  <2>1. /\ Len(toR') = Len(toR) + 1
        /\ \A i \in 1..Len(toR') : toR'[i] = IF i = Len(toR) + 1 THEN s_opkt' ELSE toR[i]
    BY <1>1, AppendProperties DEF SAdvance
  <2>2. \A i \in 1..Len(toR') : RGood(toR'[i]) => toR'[i] = IF i = Len(toR) + 1 THEN s_opkt' ELSE s_opkt
    BY <1>1, <1>4, <2>1
  <2>3. \A i \in 1..Len(toR') : i = Len(toR) + 1 => \A j \in i..Len(toR') : j = i
    BY <1>1, <2>1
  <2> QED BY <1>5, <2>2, <2>3 DEF DataOrder
<1>7. AckOrder(toS)'
  <2>1. /\ Len(toS') = Len(toS) - 1
        /\ \A i \in 1..Len(toS') : i + 1 \in 1..Len(toS) /\ toS'[i] = toS[i + 1]
    BY <1>1, HeadTailProperties DEF SAdvance
  <2>2. \A i \in 1..Len(toS') : toS'[i].typ = "Y" => toS'[i].seq = s_seq
    BY <1>3, <2>1
  <2>3. s_seq' # s_seq
    BY AcceptedOrNot DEF SAdvance
  <2> QED BY <1>5, <2>2, <2>3 DEF AckOrder
<1>8. Numbers' /\ Silent'
  BY <1>5 DEF Link, Numbers, Silent, SAdvance
<1> QED BY <1>6, <1>7, <1>8 DEF Link

\* Repeats and silence of the receiver.
LEMMA RQuietLink ==
    ASSUME TypeOK, Link, RQuiet, UNCHANGED <<sst, s_seq, s_opkt>>
    PROVE  Link'
<1>1. /\ toR \in Seq(Packets) /\ toS \in Seq(Packets) /\ s_seq \in Seqs
      /\ Len(toR) \in Nat /\ Len(toS) \in Nat
  BY LenProperties DEF TypeOK, LineType, SendType
<1>2. DataOrder(toR')
  BY <1>1, DataOrderKept DEF Link, RQuiet
<1>3. AckOrder(toS')
  <2>1. CASE toS' = toS \/ \E q : q.typ # "Y" /\ toS' = Append(toS, q)
    BY <1>1, <2>1, AckOrderKept DEF Link
  <2>2. CASE toS' = Append(toS, r_opkt)
    <3>1. r_opkt.typ # "Y" \/ r_opkt.seq = Prev(r_seq)
      BY DEF Link, Numbers
    <3> QED BY <1>1, <2>2, <3>1, AckOrderKept, AcceptedOrNot DEF Link
  <2> QED BY <2>1, <2>2 DEF RQuiet
<1>4. DataOrder(toR)' /\ AckOrder(toS)'
  BY <1>2, <1>3 DEF RQuiet, DataOrder, AckOrder, Accepted
<1>5. Numbers'
  BY DEF Link, Numbers, RQuiet
<1>6. Silent'
  <2> SUFFICES ASSUME sst = "R_WAIT" PROVE Silent'
    BY DEF Silent
  <2>1. toR # <<>> => Head(toR) = toR[1] /\ 1 \in 1..Len(toR)
    BY <1>1, EmptySeq
  <2>2. ~(toR # <<>> /\ RGood(Head(toR)))
    BY <2>1 DEF Link, Silent
  <2>3. \A i \in 1..Len(toR') : ~RGood(toR'[i])
    <3>1. toR # <<>> => \A i \in 1..Len(Tail(toR)) : i + 1 \in 1..Len(toR) /\ Tail(toR)[i] = toR[i + 1]
      BY <1>1, HeadTailProperties
    <3> QED BY <3>1 DEF RQuiet, Link, Silent
  <2>4. \A i \in 1..Len(toS') : toS'[i].typ # "Y"
    <3>1. ASSUME NEW q, q.typ # "Y", toS' = Append(toS, q)
          PROVE  \A i \in 1..Len(toS') : toS'[i].typ # "Y"
      <4>1. /\ Len(toS') = Len(toS) + 1
            /\ \A i \in 1..Len(toS') : toS'[i] = IF i = Len(toS) + 1 THEN q ELSE toS[i]
        BY <1>1, <3>1, AppendProperties
      <4> QED BY <1>1, <3>1, <4>1 DEF Link, Silent
    <3> QED BY <2>2, <3>1 DEF RQuiet, Link, Silent
  <2> QED BY <2>3, <2>4 DEF RQuiet, Link, Silent
<1> QED BY <1>4, <1>5, <1>6 DEF Link

\* The receiver accepts: it can only be the current packet, and the ACK is the
\* first one of it.
LEMMA RAcceptLink ==
    ASSUME TypeOK, Link, RAccept, UNCHANGED <<sst, s_seq, s_opkt>>
    PROVE  Link'
<1>1. /\ toR \in Seq(Packets) /\ toS \in Seq(Packets)
      /\ Len(toR) \in Nat /\ Len(toS) \in Nat /\ Len(toR) > 0
  BY LenProperties, EmptySeq DEF TypeOK, LineType, RAccept
<1>2. RGood(toR[1]) /\ toR[1].seq = r_seq /\ 1 \in 1..Len(toR)
  BY <1>1 DEF RAccept
<1>3. toR[1] = s_opkt /\ r_seq = s_seq /\ ~Accepted
  <2>1. toR[1] # s_opkt => toR[1].seq = Prev(s_seq) /\ ~Accepted
    BY <1>2 DEF Link, DataOrder
  <2>2. toR[1] = s_opkt
    BY <1>2, <2>1, AcceptedOrNot
  <2> QED BY <1>2, <2>2, AcceptedOrNot DEF Link, Numbers
<1>4. \A j \in 1..Len(toR) : RGood(toR[j]) => toR[j] = s_opkt
  BY <1>2, <1>3 DEF Link, DataOrder
<1>5. Accepted' /\ Prev(r_seq') = s_seq /\ r_opkt'.seq = s_seq
  BY <1>3, AcceptedOrNot DEF Accepted, RAccept
<1>6. DataOrder(toR)'
  <2>1. /\ Len(toR') = Len(toR) - 1
        /\ \A i \in 1..Len(toR') : i + 1 \in 1..Len(toR) /\ toR'[i] = toR[i + 1]
    BY <1>1, HeadTailProperties DEF RAccept
  <2>2. \A i \in 1..Len(toR') : RGood(toR'[i]) => toR'[i] = s_opkt
    BY <1>4, <2>1
  <2>3. \A i \in 1..Len(toR') : \A j \in i..Len(toR') : j \in 1..Len(toR')
    BY <1>1, <2>1
  <2> QED BY <2>2, <2>3 DEF DataOrder
<1>7. AckOrder(toS)'
  <2>1. /\ Len(toS') = Len(toS) + 1
        /\ \A i \in 1..Len(toS') : toS'[i] = IF i = Len(toS) + 1 THEN r_opkt' ELSE toS[i]
    BY <1>1, AppendProperties DEF RAccept
  <2>2. \A i \in 1..Len(toS) : toS[i].typ = "Y" => toS[i].seq = Prev(s_seq) /\ toS[i].seq # s_seq
    BY <1>3, AcceptedOrNot DEF Link, AckOrder
  <2>3. \A i \in 1..Len(toS') : toS'[i].typ = "Y" =>
           toS'[i].seq = (IF i = Len(toS) + 1 THEN s_seq ELSE Prev(s_seq))
    BY <1>1, <1>5, <2>1, <2>2
  <2>4. \A i \in 1..Len(toS') : i = Len(toS) + 1 => \A j \in i..Len(toS') : j = i
    BY <1>1, <2>1
  <2> QED BY <1>5, <2>3, <2>4, AcceptedOrNot DEF AckOrder
<1>8. Numbers'
  BY <1>3, <1>5 DEF Link, Numbers, RAccept
<1>9. Silent'
  BY <1>2 DEF Link, Silent
<1> QED BY <1>6, <1>7, <1>8, <1>9 DEF Link

-----------------------------------------------------------------------------
(* Every step is of one of these kinds.                                     *)

\* A turn of the sender's loop, after a packet p or a timeout.
LEMMA SRunKind ==
    ASSUME "tx" \notin IOFaults, NEW p, SRun(p),
           \/ toS # <<>> /\ p = Head(toS) /\ toS' = Tail(toS)
           \/ p = Null /\ toS' = toS
    PROVE  SQuiet \/ SAdvance
<1>1. sst # "R_WAIT" /\ (toS' = toS \/ (toS # <<>> /\ toS' = Tail(toS)))
  BY DEF SRun, SRunning
<1>2. ASSUME NEW c, SResend(c) PROVE SQuiet
  BY <1>1, <1>2 DEF SResend, SQuiet, Sent, sendStep
<1>3. ASSUME SFails, UNCHANGED toR PROVE SQuiet
  BY <1>1, <1>3 DEF SFails, SQuiet, sendStep
<1>4. ASSUME p.typ = "Y", SExpected(p)
      PROVE  toS # <<>> /\ Head(toS).typ = "Y" /\ Head(toS).seq = s_seq /\ toS' = Tail(toS)
  BY <1>4 DEF SExpected, Null, Pkt
<1>5. ASSUME p.typ = "Y", SExpected(p), NEW q, NEW st, SNext(q, st),
             st # "R_WAIT", q.seq = Succ(s_seq), q.typ \notin {"Y", "none"}
      PROVE  SAdvance
  BY <1>1, <1>4, <1>5 DEF SNext, SAdvance, TxResults, Sent
<1>6. CASE SDamaged(p)
  BY <1>2, <1>6 DEF SDamaged
<1>7. CASE SError(p)
  BY <1>3, <1>7 DEF SError
<1>8. CASE SStale(p)
  <2>1. ASSUME NEW ok \in TxResults, toR' = Sent(toR, ErrorPkt, ok), SFails
        PROVE  SQuiet
    BY <1>1, <2>1 DEF Sent, SFails, SQuiet, sendStep
  <2> QED BY <1>2, <1>8, <2>1 DEF SStale
<1>9. CASE SNotAck(p)
  BY <1>2, <1>9 DEF SNotAck
<1>10. CASE SCancelled(p)
  BY <1>5, <1>10 DEF SCancelled, Pkt
<1>11. CASE SNextFile(p)
  BY <1>3, <1>5, <1>11 DEF SNextFile, SAcked, Pkt
<1>12. CASE SFileAcked(p)
  BY <1>5, <1>12 DEF SFileAcked, SAcked, AttrPkt, Pkt
<1>13. CASE SData(p)
  BY <1>1, <1>4, <1>13 DEF SData, SAcked, SAdvance, TxResults, Sent, Pkt
<1>14. CASE SEof(p)
  BY <1>5, <1>14 DEF SEof, SAcked, Pkt
<1>15. CASE SDone(p)
  BY <1>1, <1>15 DEF SDone, SQuiet, sendStep
<1> QED
  BY <1>6, <1>7, <1>8, <1>9, <1>10, <1>11, <1>12, <1>13, <1>14, <1>15 DEF SRun

\* A turn of the receiver's loop.
LEMMA RRunKind ==
    ASSUME "tx" \notin IOFaults, NEW p, RRun(p),
           \/ toR # <<>> /\ p = Head(toR) /\ toR' = Tail(toR)
           \/ p = Null /\ toR' = toR
    PROVE  RQuiet \/ RAccept
<1>1. toR' = toR \/ (toR # <<>> /\ toR' = Tail(toR))
  OBVIOUS
<1>2. ASSUME NEW c, RNak(c) PROVE RQuiet
  BY <1>1, <1>2 DEF RNak, RQuiet, TxResults, Sent, Pkt
<1>3. ASSUME RRefuse PROVE RQuiet
  BY <1>1, <1>3 DEF RRefuse, RQuiet, TxResults, Sent, ErrorPkt, Pkt
<1>4. ASSUME RGood(p) PROVE toR # <<>> /\ p = Head(toR) /\ toR' = Tail(toR)
  BY <1>4 DEF RGood, Unreadable, Null, Pkt
<1>5. ASSUME RWanted(p), NEW y, NEW st, NEW x, RAck(y, st, x), y.typ = "Y", y.seq = r_seq
      PROVE  RAccept
  BY <1>4, <1>5 DEF RWanted, RAck, RAccept, TxResults, Sent
<1>6. ASSUME NEW text PROVE AckPkt(text).typ = "Y" /\ AckPkt(text).seq = r_seq
  BY DEF AckPkt, Pkt
<1>7. ASSUME NEW u, NEW pos, NEW old, RWanted(p), RDecode(u, pos, old)
      PROVE  RQuiet \/ RAccept
  BY <1>3, <1>5, <1>6, <1>7 DEF RDecode
<1>8. CASE REcho(p)
  BY <1>1, <1>8 DEF REcho, RQuiet
<1>9. CASE RDamaged(p)
  BY <1>2, <1>9 DEF RDamaged
<1>10. CASE RError(p)
  BY <1>1, <1>10 DEF RError, RQuiet
<1>11. CASE RStale(p)
  <2>1. ASSUME NEW ok \in TxResults, toS' = Sent(toS, r_opkt, ok), UNCHANGED <<r_seq, r_opkt>>
        PROVE  RQuiet
    BY <1>1, <1>4, <1>11, <2>1 DEF RStale, RQuiet, Sent
  <2> QED BY <1>2, <1>3, <1>11, <2>1 DEF RStale
<1>12. CASE RInitPkt(p)
  BY <1>5, <1>12 DEF RInitPkt, ParamPkt, Pkt
<1>13. CASE RFilePkt(p)
  BY <1>5, <1>6, <1>13 DEF RFilePkt
<1>14. CASE RBreak(p)
  BY <1>5, <1>6, <1>14 DEF RBreak
<1>15. CASE RAttrPkt(p)
  BY <1>4, <1>6, <1>15 DEF RAttrPkt, RWanted, RAccept, TxResults, Sent
<1>16. CASE RFirstData(p)
  BY <1>3, <1>7, <1>16 DEF RFirstData
<1>17. CASE RDataPkt(p)
  BY <1>7, <1>17 DEF RDataPkt
<1>18. CASE REofPkt(p)
  BY <1>3, <1>5, <1>6, <1>18 DEF REofPkt
<1>19. CASE REmpty(p)
  BY <1>3, <1>5, <1>6, <1>19 DEF REmpty
<1>20. CASE RUnexpected(p)
  BY <1>3, <1>20 DEF RUnexpected
<1> QED
  BY <1>8, <1>9, <1>10, <1>11, <1>12, <1>13, <1>14, <1>15, <1>16, <1>17, <1>18, <1>19, <1>20
  DEF RRun

\* Something unusable is put on a line, or a packet taken off it.
LEMMA LineLink ==
    ASSUME TypeOK, Link, UNCHANGED <<sst, s_seq, s_opkt, r_seq, r_opkt>>,
           NEW q, ~RGood(q),
           toR' \in {toR, Append(toR, q)} \/ (toR # <<>> /\ toR' \in {Tail(toR), [toR EXCEPT ![1] = q]}),
           NEW y, y.typ # "Y",
           toS' \in {toS, Append(toS, y)} \/ (toS # <<>> /\ toS' \in {Tail(toS), [toS EXCEPT ![1] = y]})
    PROVE  Link'
<1>1. toR \in Seq(Packets) /\ toS \in Seq(Packets) /\ Len(toR) \in Nat /\ Len(toS) \in Nat
  BY LenProperties DEF TypeOK, LineType
<1>2. DataOrder(toR') /\ AckOrder(toS')
  <2>1. DataOrder(toR) /\ AckOrder(toS)
    BY DEF Link
  <2>2. DataOrder(toR')
    BY <1>1, <2>1, DataOrderKept
  <2>3. AckOrder(toS')
    BY <1>1, <2>1, AckOrderKept
  <2> QED BY <2>2, <2>3
<1>3. DataOrder(toR)' /\ AckOrder(toS)'
  BY <1>2 DEF DataOrder, AckOrder, Accepted
<1>4. Numbers'
  BY DEF Link, Numbers
<1>5. Silent'
  <2> SUFFICES ASSUME sst = "R_WAIT" PROVE Silent'
    BY DEF Silent
  <2>1. \A i \in 1..Len(toR) : ~RGood(toR[i])
    BY DEF Link, Silent
  <2>2. \A i \in 1..Len(toS) : toS[i].typ # "Y"
    BY DEF Link, Silent
  <2>3. \A i \in 1..Len(toR') : ~RGood(toR'[i])
    <3>1. CASE toR' = Append(toR, q)
      BY <1>1, <2>1, <3>1, AppendProperties
    <3>2. CASE toR # <<>> /\ toR' = Tail(toR)
      BY <1>1, <2>1, <3>2, HeadTailProperties
    <3>3. CASE toR # <<>> /\ toR' = [toR EXCEPT ![1] = q]
      BY <1>1, <2>1, <3>3
    <3> QED BY <2>1, <3>1, <3>2, <3>3
  <2>4. \A i \in 1..Len(toS') : toS'[i].typ # "Y"
    <3>1. CASE toS' = Append(toS, y)
      BY <1>1, <2>2, <3>1, AppendProperties
    <3>2. CASE toS # <<>> /\ toS' = Tail(toS)
      BY <1>1, <2>2, <3>2, HeadTailProperties
    <3>3. CASE toS # <<>> /\ toS' = [toS EXCEPT ![1] = y]
      BY <1>1, <2>2, <3>3
    <3> QED BY <2>2, <3>1, <3>2, <3>3
  <2> QED BY <2>3, <2>4 DEF Link, Silent
<1> QED BY <1>3, <1>4, <1>5 DEF Link

\* The S packet: nothing has been accepted before it.
LEMMA SStartLink ==
    ASSUME "tx" \notin IOFaults, TypeOK, Link, SStart, UNCHANGED <<r_seq, r_opkt>>
    PROVE  Link'
<1>1. /\ toR \in Seq(Packets) /\ toS \in Seq(Packets) /\ Len(toR) \in Nat
      /\ s_seq = 0 /\ r_seq = 0 /\ s_seq' = 0 /\ r_seq' = 0 /\ sst' = "S_INIT" /\ toS' = toS
      /\ s_opkt' = ParamPkt("S", 0) /\ toR' = Append(toR, s_opkt')
  <2>1. toR \in Seq(Packets) /\ toS \in Seq(Packets) /\ Len(toR) \in Nat
    BY LenProperties DEF TypeOK, LineType
  <2>2. s_seq = 0 /\ r_seq = 0 /\ s_seq' = 0 /\ r_seq' = 0 /\ toS' = toS
    BY DEF SStart, Link, Silent
  <2>3. ParamPkt("S", 0).typ # "none"
    BY DEF ParamPkt, Pkt
  <2>4. s_opkt' = ParamPkt("S", 0) /\ sst' = "S_INIT" /\ toR' = Append(toR, ParamPkt("S", 0))
    BY <2>3 DEF SStart, TxResults, Sent
  <2> QED BY <2>1, <2>2, <2>4
<1>2. s_opkt'.seq = 0 /\ s_opkt'.typ = "S"
  BY <1>1 DEF ParamPkt, Pkt
<1>3. DataOrder(toR)'
  <2>1. /\ Len(toR') = Len(toR) + 1
        /\ \A i \in 1..Len(toR') : toR'[i] = IF i = Len(toR) + 1 THEN s_opkt' ELSE toR[i]
    BY <1>1, AppendProperties
  <2>2. \A i \in 1..Len(toR') : RGood(toR'[i]) => toR'[i] = s_opkt'
    BY <1>1, <2>1 DEF SStart, Link, Silent
  <2>3. \A i \in 1..Len(toR') : \A j \in i..Len(toR') : j \in 1..Len(toR')
    BY <1>1, <2>1
  <2> QED BY <2>2, <2>3 DEF DataOrder
<1>4. AckOrder(toS)'
  BY <1>1 DEF AckOrder, SStart, Link, Silent
<1>5. Numbers' /\ Silent'
  BY <1>1, <1>2 DEF Numbers, Silent, Link
<1> QED BY <1>3, <1>4, <1>5 DEF Link

\* All steps.
LEMMA NextLink ==
    ASSUME "tx" \notin IOFaults, TypeOK, Link, [Next]_vars
    PROVE  Link'
<1>1. ~RGood(Bad) /\ ~RGood(Short) /\ Bad.typ # "Y" /\ Short.typ # "Y"
  BY DEF RGood, RChecks, Unreadable, Bad, Short, Pkt
<1>2. CASE SendNext /\ UNCHANGED <<recvVars, faults>>
  <2>1. UNCHANGED <<r_seq, r_opkt>>
    BY <1>2 DEF recvVars
  <2>2. CASE SStart
    BY <2>1, <2>2, SStartLink
  <2>3. CASE SReceive
    BY <2>1, <2>3, SRunKind, SQuietLink, SAdvanceLink DEF SReceive, SRead
  <2>4. CASE STimeout
    BY <2>1, <2>4, SRunKind, SQuietLink, SAdvanceLink DEF STimeout, STimer
  <2>5. CASE SNoSlot \/ SCancel
    <3>1. SQuiet
      BY <2>5 DEF SNoSlot, SCancel, SFails, sendStep, SRunning, SQuiet
    <3> QED BY <2>1, <3>1, SQuietLink
  <2>6. CASE SAbort
    <3>1. SQuiet
      BY <2>6 DEF SAbort, SRunning, Sent, SQuiet
    <3> QED BY <2>1, <3>1, SQuietLink
  <2> QED BY <1>2, <2>2, <2>3, <2>4, <2>5, <2>6 DEF SendNext
<1>3. CASE RecvNext /\ UNCHANGED <<sendVars, faults>>
  <2>1. UNCHANGED <<sst, s_seq, s_opkt>>
    BY <1>3 DEF sendVars
  <2>2. CASE RReceive
    BY <2>1, <2>2, RRunKind, RQuietLink, RAcceptLink DEF RReceive, RRead
  <2>3. CASE RTimeout
    BY <2>1, <2>3, RRunKind, RQuietLink, RAcceptLink DEF RTimeout, RTimer
  <2>4. CASE RNoSlot \/ RCancel
    <3>1. RQuiet
      BY <2>4 DEF RNoSlot, RCancel, RQuiet
    <3> QED BY <2>1, <3>1, RQuietLink
  <2>5. CASE RAbort
    <3>1. RQuiet
      BY <2>5 DEF RAbort, Sent, RQuiet, TxResults, ErrorPkt, Pkt
    <3> QED BY <2>1, <3>1, RQuietLink
  <2> QED BY <1>3, <2>2, <2>3, <2>4, <2>5 DEF RecvNext
<1>4. CASE (LineFault \/ Noise \/ Echo \/ Drain) /\ UNCHANGED <<sendVars, recvVars>>
  <2>1. UNCHANGED <<sst, s_seq, s_opkt, r_seq, r_opkt>>
    BY <1>4 DEF sendVars, recvVars
  <2>2. CASE LineFault
    <3>1. PICK q \in {Bad, Short} :
            /\ toR' = toR \/ (toR # <<>> /\ toR' \in {Tail(toR), [toR EXCEPT ![1] = q]})
            /\ toS' = toS \/ (toS # <<>> /\ toS' \in {Tail(toS), [toS EXCEPT ![1] = q]})
      BY <2>2 DEF LineFault, Hit
    <3> QED BY <1>1, <2>1, <3>1, LineLink
  <2>3. CASE Noise
    BY <1>1, <2>1, <2>3, LineLink DEF Noise
  <2>4. CASE Echo
    <3>1. s_opkt.typ # "Y" /\ (r_opkt.typ # "none" => ~RGood(r_opkt))
      BY DEF Link, Numbers, RGood
    <3>2. CASE toS' = Append(toS, s_opkt) /\ toR' = toR
      BY <1>1, <2>1, <3>1, <3>2, LineLink
    <3>3. CASE r_opkt.typ # "none" /\ toR' = Append(toR, r_opkt) /\ toS' = toS
      BY <1>1, <2>1, <3>1, <3>3, LineLink
    <3> QED BY <2>4, <3>2, <3>3 DEF Echo
  <2>5. CASE Drain
    BY <1>1, <2>1, <2>5, LineLink DEF Drain
  <2> QED BY <1>4, <2>2, <2>3, <2>4, <2>5
<1>5. CASE UNCHANGED vars
  BY <1>5 DEF vars, lineVars, sendVars, recvVars,
              Link, Numbers, DataOrder, AckOrder, Silent, Accepted
<1> QED BY <1>2, <1>3, <1>4, <1>5 DEF Next

\* The stop-and-wait link of spkt(), ack(), nak() and resend() never mixes up
\* packets, for every sequence number space of at least three and every fault of
\* the line.
THEOREM LinkCorrect == "tx" \notin IOFaults => (Spec => []Link)
<1> SUFFICES ASSUME "tx" \notin IOFaults PROVE Spec => []Link
  OBVIOUS
<1>1. Init => Link
  BY DEF Init, SInit, RInit, NoPkt, Pkt, Link, Numbers, DataOrder, AckOrder, Silent
<1>2. TypeOK /\ Link /\ [Next]_vars => Link'
  BY NextLink
<1> QED BY <1>1, <1>2, TypeCorrect, PTL DEF Spec

=============================================================================
