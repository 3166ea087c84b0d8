--------------------------- MODULE EKermitProofs ---------------------------
(***************************************************************************)
(* Proofs about EKermit for every value of its constants.                  *)
(***************************************************************************)
EXTENDS EKermit, SequenceTheorems, WellFoundedInduction, TLAPS

-----------------------------------------------------------------------------
(* Lemmas about sequence numbers and packets.                               *)

\* nxtpkt() and ack() stay in the sequence number space and wrap at its end.
LEMMA SuccValue ==
    ASSUME NEW n \in Seqs
    PROVE  /\ Succ(n) \in Seqs
           /\ Succ(n) = IF n = SeqSpace - 1 THEN 0 ELSE n + 1
<1>1. SeqSpace \in Nat /\ SeqSpace > 2 /\ n \in Nat /\ n < SeqSpace
  BY ProtocolAssumption DEF Seqs
<1>2. CASE n = SeqSpace - 1
  <2>1. (n + 1) % SeqSpace = 0
    BY <1>1, <1>2
  <2> QED BY <1>1, <1>2, <2>1 DEF Succ, Seqs
<1>3. CASE n # SeqSpace - 1
  <2>1. (n + 1) % SeqSpace = n + 1
    BY <1>1, <1>3
  <2> QED BY <1>1, <1>3, <2>1 DEF Succ, Seqs
<1> QED BY <1>2, <1>3

\* The previous, this and the next number are three different numbers.
LEMMA Neighbours ==
    ASSUME NEW n \in Seqs
    PROVE  /\ Prev(n) \in Seqs /\ Prev(Succ(n)) = n
           /\ Succ(n) # n /\ Prev(n) # n /\ Prev(n) # Succ(n)
BY SuccValue, ProtocolAssumption DEF Prev, Seqs

\* The packets the program builds are packets.
LEMMA PacketTypes ==
    ASSUME NEW n \in Seqs, NEW f \in 0..NFiles, NEW i \in Nat,
           NEW text \in {"no", "X", "Z"}
    PROVE  /\ f > 0 => Pkt("F", n, NameOf(f), Bct) \in Packets
           /\ AttrPkt(f, n) \in Packets
           /\ Pkt("D", n, <<f, i>>, Bct) \in Packets
           /\ Pkt("Z", n, NoUnit, Bct) \in Packets
           /\ Pkt("B", n, NoUnit, Bct) \in Packets
           /\ Pkt("N", n, NoUnit, Bct) \in Packets
           /\ [Pkt("Y", n, NoUnit, Bct) EXCEPT !.can = text] \in Packets
           /\ ParamPkt("S", n) \in Packets
           /\ ParamPkt("Y", n) \in Packets
<1>1. Bct \in 1..3 /\ 1 \in 1..3
  BY ProtocolAssumption
<1>2. NoUnit \in Units /\ NameOf(f) \in Units /\ <<f, i>> \in Units
  BY FilesAssumption DEF NoUnit, NameOf, Units
<1>3. <<f, FileType(f)>> \in Units
  BY DEF FileType, Forced, Units
<1>4. f > 0 => NameOf(f)[1] \in Files
  BY FilesAssumption DEF NameOf, Files
<1> QED BY <1>1, <1>2, <1>3, <1>4 DEF AttrPkt, ParamPkt, Pkt, Packets, Types

\* So are the packets with fixed contents, epkt()'s and the unusable reads.
LEMMA FixedPackets ==
    /\ ErrorPkt \in Packets /\ NoPkt \in Packets /\ Null \in Packets
    /\ Short \in Packets /\ Bad \in Packets
<1>1. 0 \in Seqs /\ NoUnit \in Units
  BY ProtocolAssumption, FilesAssumption DEF Seqs, NoUnit, Units
<1> QED BY <1>1 DEF ErrorPkt, NoPkt, Null, Short, Bad, Pkt, Packets, Types

\* Sending appends a packet, or nothing.
LEMMA SentType ==
    ASSUME NEW line \in Seq(Packets), NEW p \in Packets, NEW ok \in BOOLEAN
    PROVE  Sent(line, p, ok) \in Seq(Packets)
BY DEF Sent

\* txd() succeeds or fails.
LEMMA TxBoolean == TxResults \subseteq BOOLEAN
BY DEF TxResults

\* A retry counter stays in its range.
LEMMA BumpType ==
    ASSUME NEW n \in 0..RtrMax
    PROVE  Bump(n) \in 0..RtrMax
<1>1. RtrMax \in Nat
  BY ProtocolAssumption DEF RtrMax, Retry
<1> QED BY <1>1 DEF Bump

-----------------------------------------------------------------------------
(* Type correctness.                                                        *)

\* resend() changes nothing but the line, unless it ends the process.
LEMMA SResendType ==
    ASSUME SendType, toR \in Seq(Packets), NEW c, SResend(c)
    PROVE  /\ UNCHANGED sendStep
           /\ sexit' \in SendExits
           /\ toR' \in Seq(Packets)
BY TxBoolean, SentType DEF SResend, SendType, SendExits

\* A new packet of the sender, or the end of the process.
LEMMA SNextType ==
    ASSUME SendType, toR \in Seq(Packets), NEW q \in Packets, NEW st \in SendStates,
           SNext(q, st)
    PROVE  /\ sst' \in SendStates /\ s_seq' \in Seqs /\ s_opkt' \in Packets
           /\ sexit' \in SendExits
           /\ toR' \in Seq(Packets)
<1>1. q.seq \in Seqs
  BY DEF Packets
<1>2. PICK ok \in TxResults :
        /\ toR' = Sent(toR, q, ok)
        /\ IF ok THEN sst' = st /\ s_seq' = q.seq /\ s_opkt' = q /\ sexit' = sexit
                 ELSE sexit' = "FAILURE" /\ UNCHANGED <<sst, s_seq, s_opkt>>
  BY DEF SNext
<1>3. toR' \in Seq(Packets)
  BY <1>2, TxBoolean, SentType
<1> QED BY <1>1, <1>2, <1>3 DEF SendType, SendExits

\* A turn of the sender's loop preserves the types.
LEMMA SRunType ==
    ASSUME SendType, toR \in Seq(Packets), NEW p \in Packets, SRun(p)
    PROVE  SendType' /\ toR' \in Seq(Packets)
<1>0. s_cancel' = s_cancel
  BY DEF SRun
<1>1. Succ(s_seq) \in Seqs
  BY SuccValue DEF SendType
<1>2. NFiles \in Nat /\ s_list \in Nat /\ s_file \in 0..NFiles /\ s_pos + 1 \in Nat
  BY FilesAssumption DEF SendType
<1>3. SLeak => s_used' \in [Slots -> BOOLEAN]
  BY DEF SLeak, SendType
<1>4. SExpected(p) => s_rtr' \in [Slots -> 0..RtrMax]
  <2>1. 0 \in 0..RtrMax
    BY ProtocolAssumption DEF RtrMax, Retry
  <2> QED BY <2>1 DEF SExpected, SendType
<1>5. SFails => UNCHANGED sendStep /\ sexit' \in SendExits
  BY DEF SFails, SendExits
<1>6. CASE SDamaged(p)
  BY <1>0, <1>3, <1>6, SResendType DEF SDamaged, sendStep, SendType
<1>7. CASE SError(p)
  BY <1>0, <1>5, <1>7 DEF SError, sendStep, SendType
<1>8. CASE SStale(p)
  <2>1. [s_rtr EXCEPT ![slotS] = Bump(@)] \in [Slots -> 0..RtrMax]
    BY BumpType DEF SendType
  <2>2. s_rtr' \in [Slots -> 0..RtrMax] /\ s_used' = s_used
    BY <1>8, <2>1 DEF SStale, SendType
  <2>3. ASSUME NEW ok \in TxResults, toR' = Sent(toR, ErrorPkt, ok)
        PROVE  toR' \in Seq(Packets)
    BY <2>3, SentType, TxBoolean, FixedPackets
  <2>4. UNCHANGED sendStep /\ sexit' \in SendExits /\ toR' \in Seq(Packets)
    BY <1>5, <1>8, <2>3, SResendType DEF SStale
  <2> QED BY <1>0, <2>2, <2>4 DEF sendStep, SendType
<1>9. CASE SNotAck(p)
  BY <1>0, <1>4, <1>9, SResendType DEF SNotAck, sendStep, SendType
<1>10. CASE SCancelled(p)
  <2>1. Pkt("Z", Succ(s_seq), NoUnit, Bct) \in Packets
    BY <1>1, <1>2, PacketTypes
  <2>2. /\ sst' \in SendStates /\ s_seq' \in Seqs /\ s_opkt' \in Packets
        /\ sexit' \in SendExits /\ toR' \in Seq(Packets)
    BY <1>10, <2>1, SNextType DEF SCancelled, SendStates
  <2>3. s_list' \in 0..NFiles /\ UNCHANGED <<s_file, s_pos>>
    BY <1>2, <1>10 DEF SCancelled, SendType
  <2> QED BY <1>0, <1>3, <1>4, <1>10, <2>2, <2>3 DEF SCancelled, SendType
<1>11. CASE SNextFile(p)
  <2>1. Pkt("B", Succ(s_seq), NoUnit, Bct) \in Packets
    BY <1>1, <1>2, PacketTypes
  <2>2. ASSUME s_list < NFiles
        PROVE  Pkt("F", Succ(s_seq), NameOf(s_list + 1), Bct) \in Packets
    <3>1. s_list + 1 \in 0..NFiles /\ s_list + 1 > 0
      BY <1>2, <2>2
    <3> QED BY <1>1, <3>1, PacketTypes
  <2>3. s_rtr' \in [Slots -> 0..RtrMax] /\ s_used' = s_used
    BY <1>4, <1>11 DEF SNextFile, SAcked
  <2>4. CASE s_list < NFiles /\ SNext(Pkt("F", Succ(s_seq), NameOf(s_list + 1), Bct), "S_FILE")
             /\ s_list' = s_list + 1 /\ s_file' = s_list + 1 /\ s_pos' = 0
    <3>1. /\ sst' \in SendStates /\ s_seq' \in Seqs /\ s_opkt' \in Packets
          /\ sexit' \in SendExits /\ toR' \in Seq(Packets)
      BY <2>2, <2>4, SNextType DEF SendStates
    <3> QED BY <1>0, <1>2, <2>3, <2>4, <3>1 DEF SendType
  <2>5. CASE SFails /\ UNCHANGED toR
    BY <1>0, <1>5, <2>3, <2>5 DEF sendStep, SendType
  <2>6. CASE SNext(Pkt("B", Succ(s_seq), NoUnit, Bct), "S_EOT")
             /\ UNCHANGED <<s_list, s_file, s_pos>>
    <3>1. /\ sst' \in SendStates /\ s_seq' \in Seqs /\ s_opkt' \in Packets
          /\ sexit' \in SendExits /\ toR' \in Seq(Packets)
      BY <2>1, <2>6, SNextType DEF SendStates
    <3> QED BY <1>0, <2>3, <2>6, <3>1 DEF SendType
  <2> QED BY <1>11, <2>4, <2>5, <2>6 DEF SNextFile
<1>12. CASE SFileAcked(p)
  <2>1. AttrPkt(s_file, Succ(s_seq)) \in Packets
    BY <1>1, <1>2, PacketTypes
  <2>2. /\ sst' \in SendStates /\ s_seq' \in Seqs /\ s_opkt' \in Packets
        /\ sexit' \in SendExits /\ toR' \in Seq(Packets)
    BY <1>12, <2>1, SNextType DEF SFileAcked, SendStates
  <2> QED BY <1>0, <1>4, <1>12, <2>2 DEF SFileAcked, SAcked, SendType
<1>13. CASE SData(p)
  <2>1. Pkt("D", Succ(s_seq), <<s_file, s_pos + 1>>, Bct) \in Packets
    BY <1>1, <1>2, PacketTypes
  <2>2. toR' \in Seq(Packets)
    BY <1>13, <2>1, SentType, TxBoolean DEF SData
  <2> QED BY <1>0, <1>1, <1>4, <1>13, <2>1, <2>2 DEF SData, SAcked, SendType, SendStates
<1>14. CASE SEof(p)
  <2>1. Pkt("Z", Succ(s_seq), NoUnit, Bct) \in Packets
    BY <1>1, <1>2, PacketTypes
  <2>2. /\ sst' \in SendStates /\ s_seq' \in Seqs /\ s_opkt' \in Packets
        /\ sexit' \in SendExits /\ toR' \in Seq(Packets)
    BY <1>14, <2>1, SNextType DEF SEof, SendStates
  <2> QED BY <1>0, <1>4, <1>14, <2>2 DEF SEof, SAcked, SendType
<1>15. CASE SDone(p)
  BY <1>0, <1>4, <1>15 DEF SDone, SAcked, sendStep, SendType, SendExits
<1> QED
  BY <1>6, <1>7, <1>8, <1>9, <1>10, <1>11, <1>12, <1>13, <1>14, <1>15 DEF SRun

\* The length of the text in obuf: a first NUL exists or there is none.
LEMMA TextLenType ==
    ASSUME NEW obuf
    PROVE  TextLen(obuf) \in 0..ObufLen
<1> DEFINE Nuls == {i \in 1..ObufLen : obuf[i] = NoUnit}
           Fits(n) == /\ \A i \in 1..n : obuf[i] # NoUnit
                      /\ n = ObufLen \/ obuf[n + 1] = NoUnit
<1>1. ObufLen \in Nat
  BY RecvAssumption
<1>2. \E n \in 0..ObufLen : Fits(n)
  <2>1. CASE Nuls = {}
    <3>1. Fits(ObufLen)
      BY <2>1
    <3> QED BY <1>1, <3>1
  <2>2. CASE Nuls # {}
    <3>1. Nuls \subseteq Nat
      BY <1>1
    <3>2. PICK x \in Nuls : \A y \in Nuls : ~(<<y, x>> \in OpToRel(<, Nat))
      BY <2>2, <3>1, NatLessThanWellFounded, WFMin
    <3>3. \A y \in Nuls : ~(y < x)
      BY <3>1, <3>2 DEF OpToRel
    <3>4. x - 1 \in 0..ObufLen /\ Fits(x - 1)
      BY <1>1, <3>3
    <3> QED BY <3>4
  <2> QED BY <2>1, <2>2
<1> QED BY <1>2 DEF TextLen

\* writefile() writes a part of obuf.
LEMMA WrittenType ==
    ASSUME NEW obuf \in [1..ObufLen -> Units], NEW n \in 0..ObufLen
    PROVE  Written(obuf, n) \in Seq(Units)
<1> DEFINE m == IF r_binary THEN n ELSE TextLen(obuf)
<1>1. m \in 0..ObufLen /\ ObufLen \in Nat
  BY TextLenType, RecvAssumption
<1>2. \A i \in 1..m : obuf[i] \in Units
  BY <1>1
<1> QED BY <1>1, <1>2, SubSeqProperties DEF Written

\* A write leaves a sequence of units, also when it fails halfway.
LEMMA WriteTypes ==
    ASSUME NEW old \in Seq(Units), NEW w \in Seq(Units)
    PROVE  WriteOK(old, w) \in Seq(Units) /\ WriteErrors(old, w) \subseteq Seq(Units)
<1>1. WriteOK(old, w) \in Seq(Units)
  BY ConcatProperties DEF WriteOK
<1>2. ASSUME NEW n \in 0..(Len(w) - 1)
      PROVE  old \o SubSeq(w, 1, n) \in Seq(Units)
  <2>1. Len(w) \in Nat /\ \A i \in 1..Len(w) : w[i] \in Units
    BY LenProperties, ElementOfSeq
  <2>2. SubSeq(w, 1, n) \in Seq(Units)
    BY <2>1, SubSeqProperties
  <2> QED BY <2>2, ConcatProperties
<1> QED BY <1>1, <1>2 DEF WriteErrors

\* nak() leaves the protocol state alone and may end the process.
LEMMA RNakType ==
    ASSUME RecvType, toS \in Seq(Packets), NEW c, RNak(c)
    PROVE  /\ UNCHANGED <<rst, r_seq>> /\ r_opkt' \in Packets /\ toS' \in Seq(Packets)
           /\ r_rtr' \in [Slots -> 0..RtrMax] /\ rexit' \in {rexit, "FAILURE"}
<1>1. Pkt("N", r_seq, NoUnit, Bct) \in Packets
  BY PacketTypes, FilesAssumption DEF RecvType
<1>2. [r_rtr EXCEPT ![slotR] = Bump(@)] \in [Slots -> 0..RtrMax]
  BY BumpType DEF RecvType
<1> QED BY <1>1, <1>2, SentType, TxBoolean DEF RNak

\* epkt() and the end of the process.
LEMMA RRefuseType ==
    ASSUME RecvType, toS \in Seq(Packets), RRefuse
    PROVE  UNCHANGED <<rst, r_seq, r_opkt>> /\ toS' \in Seq(Packets) /\ rexit' = "FAILURE"
BY FixedPackets, SentType, TxBoolean DEF RRefuse

\* ack() goes on to the next state, or the process ends.
LEMMA RAckType ==
    ASSUME RecvType, toS \in Seq(Packets), NEW y \in Packets, NEW st \in RecvStates,
           NEW x \in RecvExits, RAck(y, st, x)
    PROVE  /\ rst' \in {rst, st} /\ r_seq' \in Seqs /\ r_opkt' \in Packets
           /\ toS' \in Seq(Packets) /\ rexit' \in {x, "FAILURE"}
<1>1. Succ(r_seq) \in Seqs
  BY SuccValue DEF RecvType
<1>2. PICK ok \in TxResults :
        /\ toS' = Sent(toS, y, ok)
        /\ IF ok THEN r_opkt' = y /\ r_seq' = Succ(r_seq) /\ rst' = st /\ rexit' = x
                 ELSE rexit' = "FAILURE" /\ UNCHANGED <<rst, r_seq, r_opkt>>
  BY DEF RAck
<1> QED BY <1>1, <1>2, SentType, TxBoolean DEF RecvType

\* decode() and the ACK or Error packet after it.
LEMMA RDecodeType ==
    ASSUME RecvType, toS \in Seq(Packets), NEW u \in Units, NEW pos \in 0..(ObufLen - 1),
           NEW old \in Seq(Units), RDecode(u, pos, old)
    PROVE  /\ rst' \in {rst, "R_DATA"} /\ rexit' \in RecvExits /\ r_seq' \in Seqs
           /\ r_opkt' \in Packets /\ toS' \in Seq(Packets)
           /\ UNCHANGED <<r_binary, r_name, r_done>>
           /\ r_obuf' \in [1..ObufLen -> Units] /\ r_pos' \in 0..(ObufLen + PktRest)
           /\ rexit' = "run" => r_pos' < ObufLen
           /\ disk' \in [Files -> Seq(Units)]
<1> DEFINE obuf == [r_obuf EXCEPT ![pos + 1] = u]
           full == pos + 1 = ObufLen
           w == Written(obuf, ObufLen)
<1>1. ObufLen \in Nat /\ ObufLen > 0 /\ PktRest \in Nat
  BY RecvAssumption
<1>2. obuf \in [1..ObufLen -> Units]
  BY DEF RecvType
<1>3. w \in Seq(Units)
  <2>1. ObufLen \in 0..ObufLen
    BY <1>1
  <2> HIDE DEF obuf
  <2> QED BY <1>2, <2>1, WrittenType
<1>4. r_obuf' = obuf /\ UNCHANGED <<r_binary, r_name, r_done>>
  BY DEF RDecode
<1>5. ASSUME NEW new \in Seq(Units) PROVE [disk EXCEPT ![r_name] = new] \in [Files -> Seq(Units)]
  BY DEF RecvType
<1> HIDE DEF obuf, w
<1>6. CASE /\ r_pos' = IF full THEN 0 ELSE pos + 1
           /\ disk' = [disk EXCEPT ![r_name] = IF full THEN WriteOK(old, w) ELSE old]
           /\ RAck(AckPkt(RCancelText), "R_DATA", "run")
  <2>1. AckPkt(RCancelText) \in Packets
    <3>1. RCancelText \in {"no", "X", "Z"}
      BY DEF RCancelText, RecvType
    <3> QED BY <3>1, PacketTypes, FilesAssumption DEF AckPkt, RecvType
  <2>2. /\ rst' \in {rst, "R_DATA"} /\ r_seq' \in Seqs /\ r_opkt' \in Packets
        /\ toS' \in Seq(Packets) /\ rexit' \in {"run", "FAILURE"}
    BY <1>6, <2>1, RAckType DEF RecvStates, RecvExits
  <2>3. disk' \in [Files -> Seq(Units)]
    BY <1>3, <1>5, <1>6, WriteTypes
  <2>4. r_pos' \in 0..(ObufLen + PktRest) /\ r_pos' < ObufLen
    BY <1>1, <1>6
  <2> QED BY <1>2, <1>4, <2>2, <2>3, <2>4 DEF RecvExits
<1>7. CASE /\ full
           /\ \E rest \in 0..PktRest : r_pos' = pos + 1 + rest
           /\ \E new \in WriteErrors(old, w) : disk' = [disk EXCEPT ![r_name] = new]
           /\ RRefuse
  <2>1. UNCHANGED <<rst, r_seq, r_opkt>> /\ toS' \in Seq(Packets) /\ rexit' = "FAILURE"
    BY <1>7, RRefuseType
  <2>2. disk' \in [Files -> Seq(Units)]
    BY <1>3, <1>5, <1>7, WriteTypes
  <2>3. r_pos' \in 0..(ObufLen + PktRest)
    BY <1>1, <1>7
  <2> QED BY <1>2, <1>4, <2>1, <2>2, <2>3 DEF RecvType, RecvExits
<1> QED BY <1>6, <1>7 DEF RDecode, obuf, w

\* A turn of the receiver's loop preserves the types.
LEMMA RRunType ==
    ASSUME RecvType, toS \in Seq(Packets), NEW p \in Packets, RRun(p)
    PROVE  RecvType' /\ toS' \in Seq(Packets)
<1>0. r_cancel' = r_cancel /\ rexit = "run" /\ r_pos \in 0..(ObufLen - 1) /\ ObufLen \in Nat
  BY RecvAssumption DEF RRun, RRunning, RecvType
<1>1. p.dat \in Units /\ p.dat[1] \in 0..NFiles /\ (p.typ = "F" => p.dat[1] \in Files)
  BY DEF Packets, Units
<1>2. RWanted(p) => r_rtr' \in [Slots -> 0..RtrMax] /\ r_used' = r_used
  <2>1. 0 \in 0..RtrMax
    BY ProtocolAssumption DEF RtrMax, Retry
  <2> QED BY <2>1 DEF RWanted, RecvType
<1>3. AckPkt(RCancelText) \in Packets /\ AckPkt("no") \in Packets /\ ParamPkt("Y", r_seq) \in Packets
  <2>1. RCancelText \in {"no", "X", "Z"}
    BY DEF RCancelText, RecvType
  <2> QED BY <2>1, PacketTypes, FilesAssumption DEF AckPkt, RecvType
<1>4. "run" \in RecvExits /\ "SUCCESS" \in RecvExits /\ "FAILURE" \in RecvExits
      /\ "R_FILE" \in RecvStates /\ "R_ATTR" \in RecvStates /\ "R_DATA" \in RecvStates
  BY DEF RecvExits, RecvStates
<1>5. CASE REcho(p)
  BY <1>0, <1>5 DEF REcho, RecvType, recvFile
<1>6. CASE RDamaged(p)
  <2>1. /\ UNCHANGED <<rst, r_seq>> /\ r_opkt' \in Packets /\ toS' \in Seq(Packets)
        /\ r_rtr' \in [Slots -> 0..RtrMax] /\ rexit' \in {rexit, "FAILURE"}
    BY <1>6, RNakType DEF RDamaged, Unreadable
  <2>2. r_used' \in [Slots -> BOOLEAN]
    BY <1>6 DEF RDamaged, RecvType
  <2> QED BY <1>0, <1>4, <1>6, <2>1, <2>2 DEF RDamaged, RecvType, recvFile
<1>7. CASE RError(p)
  BY <1>0, <1>4, <1>7 DEF RError, RecvType, recvFile
<1>8. CASE RStale(p)
  <2>1. CASE p.seq # Prev(r_seq)
    <3>1. /\ UNCHANGED <<rst, r_seq>> /\ r_opkt' \in Packets /\ toS' \in Seq(Packets)
          /\ r_rtr' \in [Slots -> 0..RtrMax] /\ rexit' \in {rexit, "FAILURE"}
      BY <1>8, <2>1, RNakType DEF RStale
    <3> QED BY <1>0, <1>4, <1>8, <3>1 DEF RStale, RecvType, recvFile
  <2>2. CASE p.seq = Prev(r_seq)
    <3>1. [r_rtr EXCEPT ![slotR] = Bump(@)] \in [Slots -> 0..RtrMax]
      BY BumpType DEF RecvType
    <3>2. r_rtr' \in [Slots -> 0..RtrMax]
      BY <1>8, <2>2, <3>1 DEF RStale
    <3>3. CASE RRefuse
      <4>1. UNCHANGED <<rst, r_seq, r_opkt>> /\ toS' \in Seq(Packets) /\ rexit' = "FAILURE"
        BY <3>3, RRefuseType
      <4> QED BY <1>0, <1>4, <1>8, <3>2, <4>1 DEF RStale, RecvType, recvFile
    <3>4. CASE /\ \E ok \in TxResults : /\ toS' = Sent(toS, r_opkt, ok)
                                         /\ rexit' = IF ok THEN rexit ELSE "FAILURE"
               /\ UNCHANGED <<rst, r_seq, r_opkt>>
      <4>1. toS' \in Seq(Packets) /\ rexit' \in {rexit, "FAILURE"}
        BY <3>4, SentType, TxBoolean DEF RecvType
      <4> QED BY <1>0, <1>4, <1>8, <3>2, <3>4, <4>1 DEF RStale, RecvType, recvFile
    <3> QED BY <1>8, <2>2, <3>3, <3>4 DEF RStale
  <2> QED BY <2>1, <2>2
<1>9. CASE RInitPkt(p)
  <2>1. /\ rst' \in {rst, "R_FILE"} /\ r_seq' \in Seqs /\ r_opkt' \in Packets
        /\ toS' \in Seq(Packets) /\ rexit' \in {"run", "FAILURE"}
    BY <1>3, <1>4, <1>9, RAckType DEF RInitPkt
  <2> QED BY <1>0, <1>2, <1>4, <1>9, <2>1 DEF RInitPkt, RecvType, recvFile
<1>10. CASE RFilePkt(p)
  <2>1. /\ rst' \in {rst, "R_ATTR"} /\ r_seq' \in Seqs /\ r_opkt' \in Packets
        /\ toS' \in Seq(Packets) /\ rexit' \in {"run", "FAILURE"}
    BY <1>3, <1>4, <1>10, RAckType DEF RFilePkt
  <2> QED BY <1>0, <1>1, <1>2, <1>4, <1>10, <2>1 DEF RFilePkt, RecvType
<1>11. CASE RBreak(p)
  <2>1. /\ rst' \in {rst, "R_FILE"} /\ r_seq' \in Seqs /\ r_opkt' \in Packets
        /\ toS' \in Seq(Packets) /\ rexit' \in {"SUCCESS", "FAILURE"}
    BY <1>3, <1>4, <1>11, RAckType DEF RBreak
  <2> QED BY <1>0, <1>2, <1>4, <1>11, <2>1 DEF RBreak, RecvType, recvFile
<1>12. CASE RAttrPkt(p)
  <2>1. Succ(r_seq) \in Seqs
    BY SuccValue DEF RecvType
  <2>2. r_opkt' \in Packets /\ r_seq' \in Seqs /\ toS' \in Seq(Packets)
    BY <1>3, <1>12, <2>1, SentType, TxBoolean DEF RAttrPkt, RecvType
  <2> QED BY <1>0, <1>2, <1>12, <2>2 DEF RAttrPkt, RecvType, GattrBinary
<1>13. CASE RFirstData(p)
  <2>1. CASE RDecode(p.dat, 0, Created)
    <3>1. Created \in Seq(Units) /\ 0 \in 0..(ObufLen - 1)
      BY <1>0, RecvAssumption DEF Created
    <3>2. /\ rst' \in {rst, "R_DATA"} /\ rexit' \in RecvExits /\ r_seq' \in Seqs
          /\ r_opkt' \in Packets /\ toS' \in Seq(Packets)
          /\ UNCHANGED <<r_binary, r_name, r_done>>
          /\ r_obuf' \in [1..ObufLen -> Units] /\ r_pos' \in 0..(ObufLen + PktRest)
          /\ rexit' = "run" => r_pos' < ObufLen
          /\ disk' \in [Files -> Seq(Units)]
      BY <1>1, <2>1, <3>1, RDecodeType
    <3> QED BY <1>0, <1>2, <1>13, <3>2 DEF RFirstData, RecvType, RecvStates
  <2>2. CASE RRefuse /\ UNCHANGED recvFile
    BY <1>0, <1>2, <1>4, <1>13, <2>2, RRefuseType DEF RFirstData, RecvType, recvFile
  <2> QED BY <1>13, <2>1, <2>2 DEF RFirstData
<1>14. CASE RDataPkt(p)
  <2>1. disk[r_name] \in Seq(Units)
    BY <1>14 DEF RDataPkt, RecvType
  <2> QED BY <1>0, <1>1, <1>2, <1>14, <2>1, RDecodeType DEF RDataPkt, RecvType
<1>15. CASE REofPkt(p)
  <2> DEFINE old == disk[r_name]
             w == IF r_pos > 0 THEN Written(r_obuf, r_pos) ELSE <<>>
  <2>1. r_name \in Files /\ old \in Seq(Units)
    BY <1>15 DEF REofPkt, RecvType
  <2>2. w \in Seq(Units)
    BY <1>0, WrittenType DEF RecvType
  <2>3. r_pos' = 0 /\ UNCHANGED <<r_binary, r_name, r_obuf>>
    BY <1>15 DEF REofPkt
  <2>4. PICK new \in {WriteOK(old, w)} \cup WriteErrors(old, w) :
          \/ /\ disk' = [disk EXCEPT ![r_name] = Closed(p.can, new)]
             /\ r_done' = r_done \cup {r_name}
             /\ RAck(AckPkt(RCancelText), "R_FILE", "run")
          \/ /\ disk' = [disk EXCEPT ![r_name] = new]
             /\ RRefuse
             /\ UNCHANGED r_done
    BY <1>15 DEF REofPkt
  <2> HIDE DEF old, w
  <2>5. new \in Seq(Units) /\ Closed(p.can, new) \in Seq(Units)
    BY <2>1, <2>2, <2>4, WriteTypes DEF Closed
  <2>6. disk' \in [Files -> Seq(Units)] /\ r_done' \subseteq Files
    BY <2>1, <2>4, <2>5 DEF RecvType
  <2>7. /\ rst' \in {rst, "R_FILE"} /\ r_seq' \in Seqs /\ r_opkt' \in Packets
        /\ toS' \in Seq(Packets) /\ rexit' \in {"run", "FAILURE"}
    BY <1>3, <1>4, <2>4, RAckType, RRefuseType DEF RecvType
  <2> QED BY <1>0, <1>2, <1>4, <1>15, <2>1, <2>3, <2>6, <2>7, RecvAssumption DEF REofPkt, RecvType
<1>16. CASE REmpty(p)
  <2>1. r_name \in Files /\ r_pos' = 0 /\ UNCHANGED <<r_binary, r_name, r_obuf>>
    BY <1>16 DEF REmpty, RecvType
  <2>2. disk' \in [Files -> Seq(Units)] /\ r_done' \subseteq Files
    <3>1. <<>> \in Seq(Units)
      OBVIOUS
    <3>2. [disk EXCEPT ![r_name] = Created] \in [Files -> Seq(Units)]
      BY <3>1 DEF RecvType, Created
    <3> QED BY <1>16, <2>1, <3>2 DEF REmpty, RecvType
  <2>3. /\ rst' \in {rst, "R_FILE"} /\ r_seq' \in Seqs /\ r_opkt' \in Packets
        /\ toS' \in Seq(Packets) /\ rexit' = "FAILURE"
    BY <1>3, <1>4, <1>16, RAckType, RRefuseType DEF REmpty, RecvType
  <2> QED BY <1>0, <1>2, <1>4, <1>16, <2>1, <2>2, <2>3, RecvAssumption DEF REmpty, RecvType
<1>17. CASE RUnexpected(p)
  BY <1>0, <1>2, <1>4, <1>17, RRefuseType DEF RUnexpected, RecvType, recvFile
<1> QED
  BY <1>5, <1>6, <1>7, <1>8, <1>9, <1>10, <1>11, <1>12, <1>13, <1>14, <1>15, <1>16, <1>17
  DEF RRun

\* The processes, the line and the control programs together.
LEMMA NextType ==
    ASSUME TypeOK, [Next]_vars
    PROVE  TypeOK'
<1> USE DEF TypeOK
<1>1. /\ ErrorPkt \in Packets /\ Null \in Packets /\ ParamPkt("S", 0) \in Packets
      /\ Bad \in Packets /\ Short \in Packets
  <2>1. 0 \in Seqs /\ 0 \in 0..NFiles /\ 0 \in Nat /\ "no" \in {"no", "X", "Z"}
    BY ProtocolAssumption, FilesAssumption DEF Seqs
  <2>2. ParamPkt("S", 0) \in Packets
    BY <2>1, PacketTypes
  <2> QED BY <2>2, FixedPackets
<1>2. ASSUME NEW line \in Seq(Packets), line # <<>>
      PROVE  Head(line) \in Packets /\ Tail(line) \in Seq(Packets)
  BY <1>2, HeadTailProperties
<1>3. ASSUME SendType, UNCHANGED <<sst, s_seq, s_opkt, s_used, s_rtr, s_list, s_file, s_pos>>,
             s_cancel' \in 0..2, sexit' \in SendExits
      PROVE  SendType'
  BY <1>3 DEF SendType
<1>4. ASSUME UNCHANGED <<rst, r_seq, r_opkt, r_used, r_rtr, recvFile>>,
             r_cancel' \in 0..2, rexit' \in {rexit, "quit", "FAILURE"}
      PROVE  RecvType'
  BY <1>4 DEF RecvType, recvFile, RecvExits
<1>5. CASE SendNext /\ UNCHANGED <<recvVars, faults>>
  <2>1. RecvType' /\ faults' \in 0..MaxFaults
    BY <1>5 DEF recvVars, RecvType, LineType
  <2>2. CASE SStart
    <3>1. toR' \in Seq(Packets) /\ toS' = toS
      BY <1>1, <2>2, SentType, TxBoolean DEF SStart, LineType
    <3>2. SendType'
      BY <1>1, <2>2 DEF SStart, SendType, SendStates, SendExits
    <3> QED BY <2>1, <3>1, <3>2 DEF LineType
  <2>3. CASE SReceive
    <3>1. Head(toS) \in Packets /\ toS' \in Seq(Packets)
      BY <1>2, <2>3 DEF SReceive, SRead, LineType
    <3> QED BY <2>1, <2>3, <3>1, SRunType DEF SReceive, LineType
  <2>4. CASE STimeout
    BY <1>1, <2>1, <2>4, SRunType DEF STimeout, STimer, LineType
  <2>5. CASE SNoSlot
    BY <1>3, <2>1, <2>5 DEF SNoSlot, SFails, sendStep, SendType, SendExits, LineType
  <2>6. CASE SCancel
    <3>1. (s_cancel' = 1 \/ s_cancel' = 2) /\ sexit' = sexit /\ UNCHANGED <<toR, toS>>
      BY <2>6, Zenon DEF SCancel
    <3>2. s_cancel' \in 0..2 /\ sexit' \in SendExits
      BY <3>1 DEF SendType
    <3> QED BY <1>3, <2>1, <2>6, <3>1, <3>2 DEF SCancel, LineType
  <2>7. CASE SAbort
    <3>1. toR' \in Seq(Packets) /\ toS' = toS
      BY <1>1, <2>7, SentType, TxBoolean DEF SAbort, LineType
    <3> QED BY <1>3, <2>1, <2>7, <3>1 DEF SAbort, SendType, SendExits, LineType
  <2> QED BY <1>5, <2>2, <2>3, <2>4, <2>5, <2>6, <2>7 DEF SendNext
<1>6. CASE RecvNext /\ UNCHANGED <<sendVars, faults>>
  <2>1. SendType' /\ faults' \in 0..MaxFaults
    BY <1>6 DEF sendVars, SendType, LineType
  <2>2. CASE RReceive
    <3>1. Head(toR) \in Packets /\ toR' \in Seq(Packets)
      BY <1>2, <2>2 DEF RReceive, RRead, LineType
    <3> QED BY <2>1, <2>2, <3>1, RRunType DEF RReceive, LineType
  <2>3. CASE RTimeout
    BY <1>1, <2>1, <2>3, RRunType DEF RTimeout, RTimer, LineType
  <2>4. CASE RNoSlot
    BY <1>4, <2>1, <2>4 DEF RNoSlot, RecvType, LineType
  <2>5. CASE RCancel
    <3>1. (r_cancel' = 1 \/ r_cancel' = 2) /\ rexit' = rexit /\ UNCHANGED <<toR, toS>>
      BY <2>5, Zenon DEF RCancel
    <3>2. r_cancel' \in 0..2
      BY <3>1
    <3> QED BY <1>4, <2>1, <2>5, <3>1, <3>2 DEF RCancel, LineType
  <2>6. CASE RAbort
    <3>1. toS' \in Seq(Packets) /\ toR' = toR
      BY <1>1, <2>6, SentType, TxBoolean DEF RAbort, LineType
    <3> QED BY <1>4, <2>1, <2>6, <3>1 DEF RAbort, RecvType, LineType
  <2> QED BY <1>6, <2>2, <2>3, <2>4, <2>5, <2>6 DEF RecvNext
<1>7. CASE (LineFault \/ Noise \/ Echo \/ Drain) /\ UNCHANGED <<sendVars, recvVars>>
  <2>1. SendType' /\ RecvType'
    BY <1>7 DEF sendVars, SendType, recvVars, RecvType
  <2>2. MaxFaults \in Nat
    BY EnvironmentAssumption
  <2>a. ASSUME NEW line \in Seq(Packets), NEW q \in Packets
        PROVE  Append(line, q) \in Seq(Packets)
    BY AppendProperties
  <2>3. CASE LineFault
    <3>1. ASSUME NEW line \in Seq(Packets), line # <<>>,
                 NEW kind \in {"damage", "short", "lose"}
          PROVE  Hit(line, kind) \in Seq(Packets)
      BY <1>1, <1>2, <3>1 DEF Hit
    <3>2. toR' \in Seq(Packets) /\ toS' \in Seq(Packets)
      BY <2>3, <3>1 DEF LineFault, LineType
    <3> QED BY <2>1, <2>2, <2>3, <3>2 DEF LineFault, LineType
  <2>4. CASE Noise
    <3>1. toR' \in Seq(Packets) /\ toS' \in Seq(Packets)
      BY <1>1, <2>4, <2>a DEF Noise, LineType
    <3> QED BY <2>1, <2>2, <2>4, <3>1 DEF Noise, LineType
  <2>5. CASE Echo
    <3>1. toR' \in Seq(Packets) /\ toS' \in Seq(Packets)
      BY <2>5, <2>a DEF Echo, LineType, SendType, RecvType
    <3> QED BY <2>1, <2>2, <2>5, <3>1 DEF Echo, LineType
  <2>6. CASE Drain
    BY <1>2, <2>1, <2>6 DEF Drain, LineType
  <2> QED BY <1>7, <2>3, <2>4, <2>5, <2>6
<1>8. CASE UNCHANGED vars
  BY <1>8 DEF vars, lineVars, sendVars, recvVars, LineType, SendType, RecvType
<1> QED BY <1>5, <1>6, <1>7, <1>8 DEF Next

\* Type correctness: whatever the line, the files, the window and the faults,
\* every variable keeps its type, and a receiver that goes on has room in obuf.
THEOREM TypeCorrect == Spec => []TypeOK
<1>1. Init => TypeOK
  <2>1. 0 \in Seqs /\ 0 \in 0..RtrMax /\ NoUnit \in Units /\ MaxFaults \in Nat
    BY ProtocolAssumption, FilesAssumption, EnvironmentAssumption
    DEF Seqs, RtrMax, Retry, NoUnit, Units
  <2>2. Init => LineType
    BY <2>1 DEF Init, LineType
  <2>3. Init => SendType
    BY <2>1, FixedPackets, FilesAssumption DEF Init, SInit, SendType, SendStates, SendExits
  <2>4. Init => RecvType
    <3>1. <<>> \in Seq(Units)
      OBVIOUS
    <3> QED BY <2>1, <3>1, FixedPackets, FilesAssumption, RecvAssumption
            DEF Init, RInit, RecvType, RecvStates, RecvExits
  <2> QED BY <2>2, <2>3, <2>4 DEF TypeOK
<1> QED BY <1>1, NextType, PTL DEF Spec

=============================================================================
