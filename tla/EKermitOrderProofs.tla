------------------------- MODULE EKermitOrderProofs -------------------------
(***************************************************************************)
(* The transfer is correct for every list of files, on top of the link:    *)
(* the two state machines keep in step, no file is touched again once it   *)
(* has been received, and in binary mode the files arrive in order and     *)
(* complete.  E-Kermit so implements FileTransfer.                         *)
(*                                                                         *)
(* The sender's packet s_opkt tells where the receiver is: before it when  *)
(* it has not been accepted, after it when it has (Phase).  Everything     *)
(* else is read off the sender's position: the files received (Received),  *)
(* the units of the current one (Counted) and the verdicts (Verdicts).     *)
(***************************************************************************)
EXTENDS EKermitLinkProofs

-----------------------------------------------------------------------------
(* The inductive invariant.                                                 *)

\* The sender's packet is the one of its state, at its place in the file.
SenderAt ==
    /\ s_opkt.can = "no"
    /\ sst = "R_WAIT" => s_opkt.typ = "none" /\ s_file = 0
    /\ sst = "S_INIT" => s_opkt.typ = "S" /\ s_file = 0
    /\ sst = "S_FILE" => s_opkt.typ = "F" /\ s_opkt.dat[1] = s_file /\ s_pos = 0
    /\ sst = "S_ATTR" => /\ s_opkt.typ = "A" /\ s_opkt.dat[2] = FileType(s_file)
                         /\ Attrs /\ s_pos = 0
    /\ sst = "S_DATA" => s_opkt.typ = "D" /\ s_opkt.dat = <<s_file, s_pos>> /\ s_pos > 0
    /\ sst = "S_EOF" => s_opkt.typ = "Z"
    /\ sst = "S_EOT" => s_opkt.typ = "B"
    /\ sst \in {"S_FILE", "S_ATTR", "S_DATA", "S_EOF"} =>
          s_file \in Files /\ s_pos <= FileLen[s_file]
    /\ s_list \in {s_file, NFiles}
    /\ sst \in {"S_FILE", "S_ATTR", "S_DATA"} => s_list = s_file

\* How many units of the current file the receiver has been given.
Got == IF Accepted \/ sst # "S_DATA" THEN s_pos ELSE s_pos - 1

\* Where the receiver is, seen from the sender's packet.
Phase ==
    rexit = "run" =>
        /\ sst = "R_WAIT" => rst = "R_WAIT"
        /\ ~Accepted /\ sst = "S_INIT" => rst = "R_WAIT"
        /\ ~Accepted /\ sst \in {"S_FILE", "S_EOT"} => rst = "R_FILE"
        /\ ~Accepted /\ sst = "S_ATTR" => rst = "R_ATTR"
        /\ ~Accepted /\ sst \in {"S_DATA", "S_EOF"} =>
              rst = IF Got = 0 THEN "R_ATTR" ELSE "R_DATA"
        /\ Accepted /\ sst \in {"S_INIT", "S_EOF"} => rst = "R_FILE"
        /\ Accepted /\ sst \in {"S_FILE", "S_ATTR"} => rst = "R_ATTR"
        /\ Accepted /\ sst = "S_DATA" => rst = "R_DATA"
        /\ Accepted => sst # "S_EOT"
        /\ rst \in {"R_ATTR", "R_DATA"} => r_name = s_file

\* How many files the receiver has closed.
Past ==
    IF sst = "S_EOT" \/ (sst = "S_EOF" /\ Accepted) \/ s_file = 0 THEN s_file ELSE s_file - 1

\* The files received are those before the sender's position.
Received == r_done = 1..Past

\* Success is reported by the receiver when it accepts the B packet, and by
\* the sender when it has the ACK to it.
Verdicts ==
    /\ rexit = "SUCCESS" <=> Accepted /\ sst = "S_EOT"
    /\ sexit = "SUCCESS" => Accepted /\ sst = "S_EOT"

Steps == SenderAt /\ Phase /\ Received /\ Verdicts

\* No file is ever announced as text.
BinaryOnly == ~Attrs \/ \A f \in Files : FileType(f) = 1

\* A file that is neither received nor being written is still empty.
Unopened ==
    rexit = "run" => \A f \in Files :
        f \notin r_done /\ (rst # "R_DATA" \/ f # r_name) => disk[f] = <<>>

\* Nothing the receiver has been given is missing.
Counted ==
    rexit = "run" /\ rst = "R_DATA" => Len(disk[r_name]) + r_pos = Got

\* The disk, as far as the receiver has got.
Contents == r_binary = TRUE /\ InOrder /\ Unopened /\ Counted

\* Nothing asks the sender to cancel if nobody has cancelled.
NoRequest ==
    r_cancel = 0 => /\ r_opkt.can = "no"
                    /\ \A i \in 1..Len(toS) : toS[i].can = "no"

\* Without a cancellation every file is taken from the list and sent to its end.
AllSent ==
    NoCancel => /\ s_list = s_file
                /\ sst = "S_EOF" => s_pos = FileLen[s_file]
                /\ sst = "S_EOT" => s_file = NFiles

\* Without a cancellation the files received have their full length.
FullLength == NoCancel => \A f \in r_done : Len(disk[f]) = FileLen[f]

\* What holds as long as nobody cancels.
Whole == NoRequest /\ AllSent /\ FullLength

-----------------------------------------------------------------------------
(* What a step of either side is, given that the link is correct.           *)

\* Nothing of the sender's position changes; it may report success.
SStays ==
    /\ UNCHANGED sendStep
    /\ sexit' # sexit => sexit = "run"
    /\ sexit' = "SUCCESS" => sexit = "SUCCESS" \/ (Accepted /\ sst = "S_EOT")

\* The packet the sender goes on to when the one before is acknowledged.
NextFile ==
    /\ sst \in {"S_INIT", "S_EOF"} /\ sst' = "S_FILE" /\ s_list < NFiles
    /\ s_opkt' = Pkt("F", Succ(s_seq), NameOf(s_list + 1), Bct)
    /\ s_list' = s_list + 1 /\ s_file' = s_list + 1 /\ s_pos' = 0

\* The list is done.
NoMoreFiles ==
    /\ sst \in {"S_INIT", "S_EOF"} /\ sst' = "S_EOT" /\ s_list >= NFiles
    /\ s_opkt' = Pkt("B", Succ(s_seq), NoUnit, Bct)
    /\ UNCHANGED <<s_list, s_file, s_pos>>

\* A packet announces whether the file is text.
Attributes ==
    /\ sst = "S_FILE" /\ sst' = "S_ATTR" /\ Attrs
    /\ s_opkt' = AttrPkt(s_file, Succ(s_seq))
    /\ UNCHANGED <<s_list, s_file, s_pos>>

\* There is more of the file.
NextUnit ==
    /\ SDataWanted /\ SMore /\ sst' = "S_DATA"
    /\ s_opkt' = Pkt("D", Succ(s_seq), <<s_file, s_pos + 1>>, Bct)
    /\ s_pos' = s_pos + 1
    /\ UNCHANGED <<s_list, s_file>>

\* The end of the file, or of what is sent of it after a cancellation.
EndOfFile ==
    /\ SDataWanted /\ sst' = "S_EOF"
    /\ s_opkt' = Pkt("Z", Succ(s_seq), NoUnit, Bct)
    /\ s_list' \in {s_list, NFiles}
    /\ \/ s_list' = s_list /\ ~SMore
       \/ s_cancel # 0
       \/ toS # <<>> /\ Head(toS).can \in {"X", "Z"}
    /\ UNCHANGED <<s_file, s_pos>>

\* The sender goes on.
SMoves ==
    /\ Accepted /\ ~(Accepted')
    /\ sexit' = sexit
    /\ NextFile \/ NoMoreFiles \/ Attributes \/ NextUnit \/ EndOfFile

\* Nothing the receiver has changes, unless it gives up.
RStays ==
    /\ UNCHANGED <<rst, r_seq, recvFile>>
    /\ rexit' \in {rexit, "FAILURE", "quit"} /\ (rexit' # rexit => rexit = "run")

\* The receiver takes the sender's packet.
RTakes ==
    /\ rexit = "run" /\ ~Accepted
    /\ \/ RInitPkt(s_opkt) \/ RFilePkt(s_opkt) \/ RBreak(s_opkt) \/ RAttrPkt(s_opkt)
       \/ RFirstData(s_opkt) \/ RDataPkt(s_opkt) \/ REofPkt(s_opkt) \/ REmpty(s_opkt)

\* The sender goes on only after an acceptance, and to a packet that has none.
LEMMA AdvanceFacts ==
    ASSUME TypeOK, Link, SAdvance, r_seq' = r_seq
    PROVE  Accepted /\ ~(Accepted')
<1>1. toS[1].typ = "Y" /\ toS[1].seq = s_seq /\ 1 \in 1..Len(toS)
  <2>1. Len(toS) \in Nat /\ Len(toS) > 0
    BY LenProperties, EmptySeq DEF TypeOK, LineType, SAdvance
  <2> QED BY <2>1 DEF SAdvance
<1>2. Accepted
  BY <1>1 DEF Link, AckOrder
<1>3. Succ(s_seq) \in Seqs /\ Succ(Succ(s_seq)) # Succ(s_seq)
  BY AcceptedOrNot, Neighbours
<1> QED BY <1>2, <1>3 DEF Accepted, SAdvance

\* A packet with the wanted number is the sender's current one.
LEMMA WantedIsCurrent ==
    ASSUME TypeOK, Link, NEW p, RGood(p), p.seq = r_seq, toR # <<>>, p = Head(toR)
    PROVE  p = s_opkt /\ ~Accepted
<1>1. RGood(toR[1]) /\ toR[1] = p /\ 1 \in 1..Len(toR)
  <2>1. Len(toR) \in Nat /\ Len(toR) > 0
    BY LenProperties, EmptySeq DEF TypeOK, LineType
  <2> QED BY <2>1
<1>2. p # s_opkt => p.seq = Prev(s_seq) /\ ~Accepted
  BY <1>1 DEF Link, DataOrder
<1>3. p = s_opkt
  BY <1>2, AcceptedOrNot
<1> QED BY <1>3, AcceptedOrNot DEF Link, Numbers

\* ack() succeeds when txd() does.
LEMMA RAckOk ==
    ASSUME "tx" \notin IOFaults, NEW y, NEW st, NEW x, RAck(y, st, x)
    PROVE  r_opkt' = y /\ r_seq' = Succ(r_seq) /\ rst' = st /\ rexit' = x
BY DEF RAck, TxResults

\* spkt() too.
LEMMA SNextOk ==
    ASSUME "tx" \notin IOFaults, NEW q, NEW st, SNext(q, st)
    PROVE  sst' = st /\ s_seq' = q.seq /\ s_opkt' = q /\ sexit' = sexit
BY DEF SNext, TxResults

\* A turn of the sender's loop.
LEMMA SRunMoves ==
    ASSUME "tx" \notin IOFaults, TypeOK, Link, r_seq' = r_seq, NEW p, SRun(p),
           \/ toS # <<>> /\ p = Head(toS) /\ toS' = Tail(toS)
           \/ p = Null /\ toS' = toS
    PROVE  SStays \/ SMoves
<1>1. ASSUME SExpected(p), p.typ = "Y"
      PROVE  toS # <<>> /\ p = Head(toS) /\ Accepted
  <2>1. toS # <<>> /\ p = Head(toS)
    BY <1>1 DEF Null, Pkt
  <2>2. Len(toS) \in Nat /\ Len(toS) > 0
    BY <2>1, LenProperties, EmptySeq DEF TypeOK, LineType
  <2>3. toS[1].typ = "Y" /\ toS[1].seq = s_seq /\ 1 \in 1..Len(toS)
    BY <1>1, <2>1, <2>2 DEF SExpected
  <2> QED BY <2>1, <2>3 DEF Link, AckOrder
<1>2. ASSUME s_seq' = Succ(s_seq), Accepted PROVE ~(Accepted')
  <2>1. Succ(s_seq) \in Seqs /\ Succ(Succ(s_seq)) # Succ(s_seq)
    BY AcceptedOrNot, Neighbours
  <2> QED BY <1>2, <2>1 DEF Accepted
<1>3. sexit = "run"
  BY DEF SRun, SRunning
<1>4. ASSUME NEW c, SResend(c) PROVE SStays
  BY <1>3, <1>4 DEF SResend, SStays
<1>5. ASSUME SFails PROVE SStays
  BY <1>3, <1>5 DEF SFails, SStays
<1>6. CASE SDamaged(p) \/ SNotAck(p)
  BY <1>4, <1>6 DEF SDamaged, SNotAck
<1>7. CASE SError(p) \/ SStale(p)
  BY <1>4, <1>5, <1>7 DEF SError, SStale
<1>8. CASE SCancelled(p)
  <2>1. Accepted /\ toS # <<>> /\ p = Head(toS) /\ SDataWanted
    BY <1>1, <1>8 DEF SCancelled, SCancelSeen, SDataWanted
  <2>2. /\ sst' = "S_EOF" /\ s_opkt' = Pkt("Z", Succ(s_seq), NoUnit, Bct) /\ sexit' = sexit
        /\ s_seq' = Pkt("Z", Succ(s_seq), NoUnit, Bct).seq
    BY <1>8, SNextOk DEF SCancelled
  <2>3. s_seq' = Succ(s_seq)
    BY <2>2 DEF Pkt
  <2>4. EndOfFile
    BY <1>8, <2>1, <2>2 DEF SCancelled, SCancelSeen, EndOfFile
  <2> QED BY <1>2, <2>1, <2>2, <2>3, <2>4 DEF SMoves
<1>9. CASE SNextFile(p)
  <2>1. Accepted
    BY <1>1, <1>9 DEF SNextFile, SAcked
  <2>2. CASE SFails
    BY <1>5, <2>2
  <2>3. CASE /\ s_list < NFiles
             /\ SNext(Pkt("F", Succ(s_seq), NameOf(s_list + 1), Bct), "S_FILE")
             /\ s_list' = s_list + 1 /\ s_file' = s_list + 1 /\ s_pos' = 0
    <3> DEFINE q == Pkt("F", Succ(s_seq), NameOf(s_list + 1), Bct)
    <3>1. sst' = "S_FILE" /\ s_seq' = q.seq /\ s_opkt' = q /\ sexit' = sexit
      BY <2>3, SNextOk
    <3>2. s_seq' = Succ(s_seq)
      BY <3>1 DEF Pkt
    <3>3. NextFile
      BY <1>9, <2>3, <3>1 DEF SNextFile, NextFile
    <3> QED BY <1>2, <2>1, <3>1, <3>2, <3>3 DEF SMoves
  <2>4. CASE /\ ~(s_list < NFiles)
             /\ SNext(Pkt("B", Succ(s_seq), NoUnit, Bct), "S_EOT")
             /\ UNCHANGED <<s_list, s_file, s_pos>>
    <3> DEFINE q == Pkt("B", Succ(s_seq), NoUnit, Bct)
    <3>1. sst' = "S_EOT" /\ s_seq' = q.seq /\ s_opkt' = q /\ sexit' = sexit
      BY <2>4, SNextOk
    <3>2. s_seq' = Succ(s_seq)
      BY <3>1 DEF Pkt
    <3>3. s_list >= NFiles
      BY <2>4, FilesAssumption DEF TypeOK, SendType
    <3>4. NoMoreFiles
      BY <1>9, <2>4, <3>1, <3>3 DEF SNextFile, NoMoreFiles
    <3> QED BY <1>2, <2>1, <3>1, <3>2, <3>4 DEF SMoves
  <2> QED BY <1>9, <2>2, <2>3, <2>4 DEF SNextFile
<1>10. CASE SFileAcked(p)
  <2>1. Accepted
    BY <1>1, <1>10 DEF SFileAcked, SAcked
  <2>2. /\ sst' = "S_ATTR" /\ s_opkt' = AttrPkt(s_file, Succ(s_seq)) /\ sexit' = sexit
        /\ s_seq' = AttrPkt(s_file, Succ(s_seq)).seq
    BY <1>10, SNextOk DEF SFileAcked
  <2>3. s_seq' = Succ(s_seq)
    BY <2>2 DEF AttrPkt, Pkt
  <2>4. Attributes
    BY <1>10, <2>2 DEF SFileAcked, Attributes
  <2> QED BY <1>2, <2>1, <2>2, <2>3, <2>4 DEF SMoves
<1>11. CASE SData(p)
  <2>1. Accepted
    BY <1>1, <1>11 DEF SData, SAcked
  <2>2. NextUnit /\ s_seq' = Succ(s_seq) /\ sexit' = sexit
    BY <1>11 DEF SData, NextUnit
  <2> QED BY <1>2, <2>1, <2>2 DEF SMoves
<1>12. CASE SEof(p)
  <2>1. Accepted
    BY <1>1, <1>12 DEF SEof, SAcked
  <2>2. /\ sst' = "S_EOF" /\ s_opkt' = Pkt("Z", Succ(s_seq), NoUnit, Bct) /\ sexit' = sexit
        /\ s_seq' = Pkt("Z", Succ(s_seq), NoUnit, Bct).seq
    BY <1>12, SNextOk DEF SEof
  <2>3. s_seq' = Succ(s_seq)
    BY <2>2 DEF Pkt
  <2>4. EndOfFile
    BY <1>12, <2>2 DEF SEof, EndOfFile
  <2> QED BY <1>2, <2>1, <2>2, <2>3, <2>4 DEF SMoves
<1>13. CASE SDone(p)
  BY <1>1, <1>3, <1>13 DEF SDone, SAcked, SStays
<1> QED
  BY <1>6, <1>7, <1>8, <1>9, <1>10, <1>11, <1>12, <1>13 DEF SRun

\* A turn of the receiver's loop.
LEMMA RRunTakes ==
    ASSUME TypeOK, Link, NEW p, RRun(p),
           \/ toR # <<>> /\ p = Head(toR) /\ toR' = Tail(toR)
           \/ p = Null /\ toR' = toR
    PROVE  RStays \/ RTakes
<1>1. rexit = "run"
  BY DEF RRun, RRunning
<1>2. ASSUME RWanted(p) PROVE p = s_opkt /\ ~Accepted
  <2>1. RGood(p) /\ p.seq = r_seq
    BY <1>2 DEF RWanted
  <2>2. toR # <<>> /\ p = Head(toR)
    BY <2>1 DEF RGood, Unreadable, Null, Pkt
  <2> QED BY <2>1, <2>2, WantedIsCurrent
<1>3. ASSUME NEW c, RNak(c), UNCHANGED recvFile PROVE RStays
  BY <1>1, <1>3 DEF RNak, RStays
<1>4. ASSUME RRefuse, UNCHANGED recvFile PROVE RStays
  BY <1>1, <1>4 DEF RRefuse, RStays
<1>5. CASE REcho(p) \/ RDamaged(p) \/ RError(p)
  BY <1>1, <1>3, <1>5 DEF REcho, RDamaged, RError, RStays
<1>6. CASE RStale(p)
  BY <1>1, <1>3, <1>4, <1>6 DEF RStale, RStays
<1>7. CASE RUnexpected(p)
  BY <1>4, <1>7 DEF RUnexpected
<1>8. CASE \/ RInitPkt(p) \/ RFilePkt(p) \/ RBreak(p) \/ RAttrPkt(p)
           \/ RFirstData(p) \/ RDataPkt(p) \/ REofPkt(p) \/ REmpty(p)
  <2>1. RWanted(p)
    BY <1>8 DEF RInitPkt, RFilePkt, RBreak, RAttrPkt, RFirstData, RDataPkt, REofPkt, REmpty
  <2>2. p = s_opkt /\ ~Accepted
    BY <1>2, <2>1
  <2> QED BY <1>1, <1>8, <2>2 DEF RTakes
<1> QED BY <1>5, <1>6, <1>7, <1>8 DEF RRun

\* Every step is one of these, a start of the sender, or one of the line.
LEMMA NextMoves ==
    ASSUME "tx" \notin IOFaults, TypeOK, Link, [Next]_vars
    PROVE  \/ SStays /\ s_cancel' = s_cancel /\ UNCHANGED recvVars
           \/ SStays /\ s_cancel' \in {1, 2} /\ sexit' = sexit /\ UNCHANGED recvVars
           \/ SMoves /\ s_cancel' = s_cancel /\ UNCHANGED recvVars
           \/ SStart /\ UNCHANGED recvVars
           \/ RStays /\ r_cancel' = r_cancel /\ UNCHANGED sendVars
           \/ RStays /\ r_cancel' \in {1, 2} /\ rexit' = rexit /\ UNCHANGED sendVars
           \/ RTakes /\ r_cancel' = r_cancel /\ UNCHANGED sendVars
<1>1. CASE SendNext /\ UNCHANGED <<recvVars, faults>>
  <2>1. r_seq' = r_seq /\ UNCHANGED recvVars
    BY <1>1 DEF recvVars
  <2>2. CASE SReceive
    <3>1. SStays \/ SMoves
      BY <2>1, <2>2, SRunMoves DEF SReceive, SRead
    <3> QED BY <2>1, <2>2, <3>1 DEF SReceive, SRun
  <2>3. CASE STimeout
    <3>1. SStays \/ SMoves
      BY <2>1, <2>3, SRunMoves DEF STimeout, STimer
    <3> QED BY <2>1, <2>3, <3>1 DEF STimeout, SRun
  <2>4. CASE SNoSlot \/ SAbort
    BY <2>1, <2>4 DEF SNoSlot, SAbort, SRunning, SFails, SStays, sendStep
  <2>5. CASE SCancel
    BY <2>1, <2>5 DEF SCancel, SRunning, SStays, sendStep
  <2> QED BY <1>1, <2>1, <2>2, <2>3, <2>4, <2>5 DEF SendNext
<1>2. CASE RecvNext /\ UNCHANGED <<sendVars, faults>>
  <2>1. UNCHANGED sendVars
    BY <1>2
  <2>2. CASE RReceive
    <3>1. RStays \/ RTakes
      BY <2>2, RRunTakes DEF RReceive, RRead
    <3> QED BY <2>1, <2>2, <3>1 DEF RReceive, RRun
  <2>3. CASE RTimeout
    <3>1. RStays \/ RTakes
      BY <2>3, RRunTakes DEF RTimeout, RTimer
    <3> QED BY <2>1, <2>3, <3>1 DEF RTimeout, RRun
  <2>4. CASE RNoSlot \/ RCancel \/ RAbort
    BY <2>1, <2>4 DEF RNoSlot, RCancel, RAbort, RRunning, RStays
  <2> QED BY <1>2, <2>2, <2>3, <2>4 DEF RecvNext
<1>3. CASE (LineFault \/ Noise \/ Echo \/ Drain) /\ UNCHANGED <<sendVars, recvVars>>
  BY <1>3 DEF sendVars, recvVars, recvFile, RStays
<1>4. CASE UNCHANGED vars
  BY <1>4 DEF vars, sendVars, recvVars, recvFile, RStays
<1> QED BY <1>1, <1>2, <1>3, <1>4 DEF Next

-----------------------------------------------------------------------------
(* The two state machines keep in step.                                     *)

\* The sender's next packet.
LEMMA SMovesSteps ==
    ASSUME TypeOK, Link, Steps, SMoves, UNCHANGED recvVars
    PROVE  Steps'
<1>1. /\ s_list \in 0..NFiles /\ s_file \in 0..NFiles /\ s_pos \in Nat /\ NFiles \in Nat
      /\ FileLen \in [Files -> Nat]
  BY FilesAssumption DEF TypeOK, SendType, Files
<1>2. Accepted /\ ~(Accepted') /\ sexit' = sexit
  BY DEF SMoves
<1>3. UNCHANGED <<rst, rexit, r_name, r_done>>
  BY DEF recvVars
<1>4. SenderAt'
  <2>1. CASE NextFile
    <3>1. s_list + 1 \in Files
      BY <1>1, <2>1 DEF NextFile, Files
    <3> QED BY <1>1, <2>1, <3>1 DEF NextFile, SenderAt, Pkt, NameOf
  <2>2. CASE NoMoreFiles
    BY <1>1, <2>2 DEF NoMoreFiles, SenderAt, Pkt, Steps
  <2>3. CASE Attributes
    BY <1>1, <2>3 DEF Attributes, SenderAt, Pkt, AttrPkt, Steps
  <2>4. CASE NextUnit
    BY <1>1, <2>4 DEF NextUnit, SDataWanted, SMore, SenderAt, Pkt, Steps
  <2>5. CASE EndOfFile
    BY <1>1, <2>5 DEF EndOfFile, SDataWanted, SenderAt, Pkt, Steps
  <2> QED BY <2>1, <2>2, <2>3, <2>4, <2>5 DEF SMoves
<1>5. Phase'
  <2>1. CASE NextFile \/ NoMoreFiles
    BY <1>2, <1>3, <2>1 DEF NextFile, NoMoreFiles, Phase, Steps
  <2>2. CASE Attributes
    BY <1>2, <1>3, <2>2 DEF Attributes, Phase, Steps
  <2>3. CASE NextUnit
    <3>1. sst' = "S_DATA" /\ Got' = s_pos /\ s_file' = s_file
      BY <1>1, <1>2, <2>3 DEF NextUnit, Got
    <3> QED BY <1>1, <1>2, <1>3, <2>3, <3>1 DEF NextUnit, SDataWanted, SenderAt, Phase, Steps
  <2>4. CASE EndOfFile
    <3>1. sst' = "S_EOF" /\ Got' = s_pos /\ s_file' = s_file
      BY <1>1, <1>2, <2>4 DEF EndOfFile, Got
    <3> QED BY <1>1, <1>2, <1>3, <2>4, <3>1 DEF EndOfFile, SDataWanted, SenderAt, Phase, Steps
  <2> QED BY <2>1, <2>2, <2>3, <2>4 DEF SMoves
<1>6. Past' = Past
  BY <1>1, <1>2 DEF SMoves, NextFile, NoMoreFiles, Attributes, NextUnit, EndOfFile, SDataWanted,
                    Past, SenderAt, Steps
<1>7. sst # "S_EOT"
  BY DEF SMoves, NextFile, NoMoreFiles, Attributes, NextUnit, EndOfFile, SDataWanted
<1>8. Received' /\ Verdicts'
  BY <1>2, <1>3, <1>6, <1>7 DEF Received, Verdicts, Steps
<1> QED BY <1>4, <1>5, <1>8 DEF Steps

\* What taking a packet does to the receiver's state and the files received.
LEMMA RTakesSteps ==
    ASSUME "tx" \notin IOFaults, TypeOK, Link, Steps, RTakes, UNCHANGED sendVars
    PROVE  Steps'
<1>1. /\ s_list \in 0..NFiles /\ s_file \in 0..NFiles /\ s_pos \in Nat /\ NFiles \in Nat
      /\ FileLen \in [Files -> Nat]
  BY FilesAssumption DEF TypeOK, SendType, Files
<1>2. UNCHANGED <<sst, s_seq, s_opkt, s_list, s_file, s_pos, sexit>> /\ SenderAt'
  BY DEF sendVars, Steps, SenderAt
<1>3. rexit = "run" /\ ~Accepted /\ r_seq = s_seq /\ sexit # "SUCCESS"
  BY AcceptedOrNot DEF RTakes, Steps, Verdicts
<1>4. r_seq' = Succ(r_seq) => Accepted'
  BY <1>2, <1>3 DEF Accepted
<1>5. ASSUME rexit' = "FAILURE", UNCHANGED <<r_seq, r_done>> PROVE Steps'
  BY <1>2, <1>3, <1>5 DEF Steps, Phase, Received, Past, Verdicts, Accepted
<1>7. CASE RInitPkt(s_opkt)
  <2>1. r_seq' = Succ(r_seq) /\ rst' = "R_FILE" /\ rexit' = "run" /\ r_done' = r_done
    BY <1>7, RAckOk DEF RInitPkt, recvFile
  <2>2. sst = "S_INIT"
    BY <1>3, <1>7 DEF RInitPkt, Steps, SenderAt, TypeOK, SendType, SendStates
  <2> QED BY <1>2, <1>3, <1>4, <2>1, <2>2 DEF Steps, Phase, Received, Past, Verdicts
<1>8. CASE RFilePkt(s_opkt)
  <2>1. /\ r_seq' = Succ(r_seq) /\ rst' = "R_ATTR" /\ rexit' = "run" /\ r_done' = r_done
        /\ r_name' = s_opkt.dat[1]
    BY <1>8, RAckOk DEF RFilePkt
  <2>2. sst = "S_FILE" /\ r_name' = s_file
    BY <1>3, <1>8, <2>1 DEF RFilePkt, Steps, SenderAt, TypeOK, SendType, SendStates
  <2> QED BY <1>2, <1>3, <1>4, <2>1, <2>2 DEF Steps, Phase, Received, Past, Verdicts
<1>9. CASE RBreak(s_opkt)
  <2>1. r_seq' = Succ(r_seq) /\ rst' = "R_FILE" /\ rexit' = "SUCCESS" /\ r_done' = r_done
    BY <1>9, RAckOk DEF RBreak, recvFile
  <2>2. sst = "S_EOT"
    BY <1>3, <1>9 DEF RBreak, Steps, SenderAt, TypeOK, SendType, SendStates
  <2> QED BY <1>2, <1>3, <1>4, <2>1, <2>2 DEF Steps, Phase, Received, Past, Verdicts
<1>10. CASE RAttrPkt(s_opkt)
  <2>1. r_seq' = Succ(r_seq) /\ rst' = rst /\ rexit' = "run" /\ r_done' = r_done /\ r_name' = r_name
    BY <1>3, <1>10 DEF RAttrPkt, TxResults
  <2>2. sst = "S_ATTR" /\ rst = "R_ATTR" /\ r_name = s_file
    BY <1>3, <1>10 DEF RAttrPkt, Steps, SenderAt, Phase, TypeOK, SendType, SendStates
  <2> QED BY <1>2, <1>3, <1>4, <2>1, <2>2 DEF Steps, Phase, Received, Past, Verdicts
<1>11. ASSUME NEW pos, NEW old, RDecode(s_opkt.dat, pos, old), s_opkt.typ = "D",
              rst \in {"R_ATTR", "R_DATA"}
       PROVE  Steps'
  <2>1. CASE RRefuse
    BY <1>5, <1>11, <2>1 DEF RDecode, RRefuse
  <2>2. CASE RAck(AckPkt(RCancelText), "R_DATA", "run")
    <3>1. /\ r_seq' = Succ(r_seq) /\ rst' = "R_DATA" /\ rexit' = "run" /\ r_done' = r_done
          /\ r_name' = r_name
      BY <1>11, <2>2, RAckOk DEF RDecode
    <3>2. sst = "S_DATA" /\ r_name = s_file
      BY <1>3, <1>11 DEF Steps, SenderAt, Phase, TypeOK, SendType, SendStates
    <3> QED BY <1>2, <1>3, <1>4, <3>1, <3>2 DEF Steps, Phase, Received, Past, Verdicts
  <2> QED BY <1>11, <2>1, <2>2 DEF RDecode
<1>12. CASE RFirstData(s_opkt)
  <2>1. CASE RRefuse /\ UNCHANGED recvFile
    BY <1>5, <2>1 DEF RRefuse, recvFile
  <2> QED BY <1>11, <1>12, <2>1 DEF RFirstData
<1>13. CASE RDataPkt(s_opkt)
  BY <1>11, <1>13 DEF RDataPkt
<1>14. ASSUME s_opkt.typ = "Z", rst \in {"R_ATTR", "R_DATA"}, r_done' = r_done \cup {r_name},
              r_seq' = Succ(r_seq), r_name' = r_name, rst' = "R_FILE", rexit' \in {"run", "FAILURE"}
       PROVE  Steps'
  <2>1. sst = "S_EOF" /\ r_name = s_file /\ s_file \in Files
    BY <1>3, <1>14 DEF Steps, SenderAt, Phase, TypeOK, SendType, SendStates
  <2>2. Past = s_file - 1 /\ Past' = s_file /\ s_file \in Nat /\ s_file > 0
    BY <1>1, <1>2, <1>3, <1>4, <1>14, <2>1 DEF Past, Files
  <2>3. 1..s_file = (1..(s_file - 1)) \cup {s_file}
    BY <2>2
  <2>4. Received'
    BY <1>14, <2>1, <2>2, <2>3 DEF Steps, Received
  <2> QED BY <1>2, <1>3, <1>4, <1>14, <2>1, <2>4 DEF Steps, Phase, Verdicts
<1>15. CASE REofPkt(s_opkt)
  <2>1. CASE RRefuse /\ UNCHANGED r_done
    BY <1>5, <2>1 DEF RRefuse
  <2>2. CASE r_done' = r_done \cup {r_name} /\ RAck(AckPkt(RCancelText), "R_FILE", "run")
    <3>1. r_seq' = Succ(r_seq) /\ rst' = "R_FILE" /\ rexit' = "run"
      BY <2>2, RAckOk
    <3> QED BY <1>14, <1>15, <2>2, <3>1 DEF REofPkt
  <2> QED BY <1>15, <2>1, <2>2 DEF REofPkt
<1>16. CASE REmpty(s_opkt)
  <2>1. CASE RRefuse /\ UNCHANGED r_done
    BY <1>5, <2>1 DEF RRefuse
  <2>2. CASE r_done' = r_done \cup {r_name} /\ RAck(AckPkt(RCancelText), "R_FILE", "FAILURE")
    <3>1. r_seq' = Succ(r_seq) /\ rst' = "R_FILE" /\ rexit' = "FAILURE"
      BY <2>2, RAckOk
    <3> QED BY <1>14, <1>16, <2>2, <3>1 DEF REmpty
  <2> QED BY <1>16, <2>1, <2>2 DEF REmpty
<1> QED BY <1>7, <1>8, <1>9, <1>10, <1>12, <1>13, <1>15, <1>16 DEF RTakes

\* All steps.
LEMMA NextSteps ==
    ASSUME "tx" \notin IOFaults, TypeOK, Link, Steps, [Next]_vars
    PROVE  Steps'
<1>1. CASE SStays /\ UNCHANGED recvVars
  BY <1>1 DEF SStays, sendStep, recvVars, Steps, SenderAt, Phase, Received, Past, Verdicts, Accepted, Got
<1>2. CASE SStart /\ UNCHANGED recvVars
  <2>1. /\ sst = "R_WAIT" /\ sst' = "S_INIT" /\ s_opkt' = ParamPkt("S", 0)
        /\ UNCHANGED <<s_seq, s_list, s_file, s_pos, sexit>>
    BY <1>2 DEF SStart, TxResults
  <2>2. UNCHANGED <<rst, rexit, r_seq, r_name, r_done>> /\ ~Accepted /\ ~(Accepted')
    <3>1. UNCHANGED <<rst, rexit, r_seq, r_name, r_done>>
      BY <1>2 DEF recvVars
    <3>2. s_seq = 0 /\ r_seq = 0 /\ Succ(s_seq) # s_seq
      BY <2>1, AcceptedOrNot DEF Link, Silent
    <3> QED BY <2>1, <3>1, <3>2 DEF Accepted
  <2> QED BY <2>1, <2>2 DEF Steps, SenderAt, Phase, Received, Past, Verdicts, ParamPkt, Pkt
<1>3. CASE RStays /\ UNCHANGED sendVars
  <2>1. UNCHANGED <<sst, s_seq, s_opkt, s_list, s_file, s_pos, sexit, rst, r_seq, r_name, r_done>>
    BY <1>3 DEF RStays, sendVars, recvFile
  <2>2. rexit' \in {rexit, "FAILURE", "quit"} /\ (rexit' # rexit => rexit = "run")
    BY <1>3 DEF RStays
  <2> QED BY <2>1, <2>2 DEF Steps, SenderAt, Phase, Received, Past, Verdicts, Accepted, Got
<1> QED BY <1>1, <1>2, <1>3, NextMoves, SMovesSteps, RTakesSteps

\* The state machines keep in step, whatever is cancelled and whatever fails on
\* either side but txd() itself.
LEMMA StepsKept == "tx" \notin IOFaults => (Spec => [](TypeOK /\ Link /\ Steps))
<1> SUFFICES ASSUME "tx" \notin IOFaults PROVE Spec => [](TypeOK /\ Link /\ Steps)
  OBVIOUS
<1>1. Init => Steps
  <2> SUFFICES ASSUME Init PROVE Steps
    OBVIOUS
  <2>1. r_seq = 0 /\ s_seq = 0 /\ Succ(0) # 0
    <3>1. 0 \in Seqs
      BY ProtocolAssumption DEF Seqs
    <3> QED BY <3>1, Neighbours DEF Init, SInit, RInit
  <2>2. ~Accepted
    BY <2>1 DEF Accepted
  <2> QED BY <2>2 DEF Init, SInit, RInit, NoPkt, Pkt, Steps, SenderAt, Phase, Received, Past, Verdicts
<1>2. TypeOK /\ Link /\ Steps /\ [Next]_vars => Steps'
  BY NextSteps
<1>3. Spec => []TypeOK
  BY TypeCorrect
<1>4. Spec => []Link
  BY LinkCorrect
<1> QED BY <1>1, <1>2, <1>3, <1>4, PTL DEF Spec

\* "Unexpected packet type" is never the answer to another E-Kermit: what can
\* still arrive with the number wanted is of a type the receiver's state takes,
\* for every file list, option and cancellation, and every fault of the line.
THEOREM KeepInStep == "tx" \notin IOFaults => (Spec => []InStep)
<1> SUFFICES ASSUME "tx" \notin IOFaults PROVE Spec => []InStep
  OBVIOUS
<1>1. TypeOK /\ Link /\ Steps => InStep
  <2> SUFFICES ASSUME TypeOK, Link, Steps, NEW i \in 1..Len(toR),
                      rexit = "run", RGood(toR[i]), toR[i].seq = r_seq
               PROVE  toR[i].typ \in Takes(rst)
    BY DEF InStep
  <2>1. toR[i] # s_opkt => toR[i].seq = Prev(s_seq) /\ ~Accepted
    BY DEF Link, DataOrder
  <2>2. toR[i] = s_opkt
    BY <2>1, AcceptedOrNot
  <2>3. ~Accepted
    BY <2>2, AcceptedOrNot DEF Link, Numbers
  <2>4. s_opkt.typ # "none"
    BY <2>2 DEF Link, Silent, Steps, SenderAt, TypeOK, SendType, SendStates
  <2> QED BY <2>2, <2>3, <2>4 DEF Steps, SenderAt, Phase, Takes, TypeOK, SendType, SendStates
<1> QED BY <1>1, StepsKept, PTL

\* A file that has been received is never opened, truncated or written again,
\* whatever the line repeats or delays.
THEOREM ReceivedStays == "tx" \notin IOFaults => (Spec => DoneStays)
<1> SUFFICES ASSUME "tx" \notin IOFaults PROVE Spec => DoneStays
  OBVIOUS
<1> DEFINE Stays == \A f \in r_done : f \in r_done' /\ disk'[f] = disk[f]
<1>1. ASSUME TypeOK, Link, Steps, [Next]_vars PROVE Stays
  <2>1. CASE UNCHANGED <<r_done, disk>>
    BY <2>1
  <2>2. CASE RTakes /\ UNCHANGED sendVars
    <3>1. CASE r_done' = r_done /\ disk' = disk
      BY <3>1
    <3>2. CASE ~(r_done' = r_done /\ disk' = disk)
      <4>1. rst \in {"R_ATTR", "R_DATA"} /\ s_opkt.typ \in {"D", "Z"}
        BY <2>2, <3>2 DEF RTakes, RInitPkt, RFilePkt, RBreak, RAttrPkt, RFirstData, RDataPkt,
                          REofPkt, REmpty, recvFile
      <4>2. sst \in {"S_DATA", "S_EOF"} /\ r_name = s_file /\ s_file \in Files /\ ~Accepted
        BY <1>1, <2>2, <4>1 DEF RTakes, Steps, SenderAt, Phase, TypeOK, SendType, SendStates
      <4>3. r_name \notin r_done
        BY <1>1, <4>2, FilesAssumption DEF Steps, Received, Past, Files
      <4>4. r_done' \in {r_done, r_done \cup {r_name}}
        BY <2>2 DEF RTakes, RInitPkt, RFilePkt, RBreak, RAttrPkt, RFirstData, RDataPkt,
                    REofPkt, REmpty, recvFile, RDecode
      <4>5. \E new : disk' = [disk EXCEPT ![r_name] = new]
        BY <2>2, <3>2, <4>1 DEF RTakes, RInitPkt, RFilePkt, RBreak, RAttrPkt, RFirstData, RDataPkt,
                    REofPkt, REmpty, recvFile, RDecode
      <4> QED BY <1>1, <4>3, <4>4, <4>5 DEF TypeOK, RecvType
    <3> QED BY <3>1, <3>2
  <2>3. UNCHANGED <<r_done, disk>> \/ (RTakes /\ UNCHANGED sendVars)
    BY <1>1, NextMoves DEF RStays, recvVars, recvFile
  <2> QED BY <2>1, <2>2, <2>3
<1>2. TypeOK /\ Link /\ Steps /\ [Next]_vars => [Stays]_vars
  BY <1>1
<1>3. Spec => [][Stays]_vars
  BY <1>2, StepsKept, PTL DEF Spec
<1> QED BY <1>3 DEF DoneStays

-----------------------------------------------------------------------------
(* Units in order.                                                          *)

\* A part of a buffer, taken from its beginning.
LEMMA BufferPart ==
    ASSUME NEW b \in [1..ObufLen -> Units], NEW n \in 0..ObufLen
    PROVE  /\ SubSeq(b, 1, n) \in Seq(Units) /\ Len(SubSeq(b, 1, n)) = n
           /\ \A i \in 1..n : SubSeq(b, 1, n)[i] = b[i]
<1>1. ObufLen \in Nat /\ \A i \in 1..n : b[i] \in Units
  BY RecvAssumption
<1> QED BY <1>1, SubSeqProperties

\* decode() puts the next unit behind those in the buffer.
LEMMA ConsecutiveNext ==
    ASSUME NEW b \in [1..ObufLen -> Units], NEW pos \in 0..(ObufLen - 1), NEW f \in Files,
           NEW k \in Nat, Consecutive(SubSeq(b, 1, pos), f, k)
    PROVE  /\ [b EXCEPT ![pos + 1] = <<f, k + (pos + 1)>>] \in [1..ObufLen -> Units]
           /\ Consecutive(SubSeq([b EXCEPT ![pos + 1] = <<f, k + (pos + 1)>>], 1, pos + 1), f, k)
<1> DEFINE u == <<f, k + (pos + 1)>>
           c == [b EXCEPT ![pos + 1] = u]
<1>1. ObufLen \in Nat /\ pos \in 0..ObufLen /\ pos + 1 \in 0..ObufLen /\ pos + 1 \in 1..ObufLen
  BY RecvAssumption
<1>2. u \in Units
  BY <1>1, FilesAssumption DEF Units, Files
<1>3. c \in [1..ObufLen -> Units] /\ c[pos + 1] = u /\ \A i \in 1..pos : c[i] = b[i]
  BY <1>1, <1>2
<1>4. \A i \in 1..pos : b[i] = <<f, k + i>>
  <2>1. Len(SubSeq(b, 1, pos)) = pos /\ \A i \in 1..pos : SubSeq(b, 1, pos)[i] = b[i]
    BY <1>1, BufferPart
  <2> QED BY <2>1 DEF Consecutive
<1> HIDE DEF c
<1>5. /\ Len(SubSeq(c, 1, pos + 1)) = pos + 1
      /\ \A i \in 1..(pos + 1) : SubSeq(c, 1, pos + 1)[i] = c[i]
  BY <1>1, <1>3, BufferPart
<1>6. ASSUME NEW i \in 1..(pos + 1) PROVE c[i] = <<f, k + i>>
  <2>1. CASE i = pos + 1
    BY <1>3, <2>1
  <2>2. CASE i # pos + 1
    <3>1. i \in 1..pos
      BY <1>1, <2>2
    <3> QED BY <1>3, <1>4, <3>1
  <2> QED BY <2>1, <2>2
<1>7. Consecutive(SubSeq(c, 1, pos + 1), f, k)
  BY <1>5, <1>6 DEF Consecutive
<1> QED BY <1>3, <1>7 DEF c

\* writefile() appends what continues the file.
LEMMA ConsecutiveConcat ==
    ASSUME NEW f, NEW old \in Seq(Units), Consecutive(old, f, 0),
           NEW w \in Seq(Units), Consecutive(w, f, Len(old))
    PROVE  /\ old \o w \in Seq(Units) /\ Len(old \o w) = Len(old) + Len(w)
           /\ Consecutive(old \o w, f, 0)
<1>1. Len(old) \in Nat /\ Len(w) \in Nat
  BY LenProperties
<1>2. /\ old \o w \in Seq(Units) /\ Len(old \o w) = Len(old) + Len(w)
      /\ \A i \in 1..(Len(old) + Len(w)) :
            (old \o w)[i] = IF i <= Len(old) THEN old[i] ELSE w[i - Len(old)]
  BY ConcatProperties
<1>3. \A i \in 1..(Len(old) + Len(w)) : i > Len(old) => i - Len(old) \in 1..Len(w)
  BY <1>1
<1>4. \A i \in 1..(Len(old) + Len(w)) : (old \o w)[i] = <<f, i>>
  <2> SUFFICES ASSUME NEW i \in 1..(Len(old) + Len(w)) PROVE (old \o w)[i] = <<f, i>>
    OBVIOUS
  <2>1. CASE i <= Len(old)
    <3>1. i \in 1..Len(old) /\ 0 + i = i
      BY <1>1, <2>1
    <3>2. old[i] = <<f, 0 + i>>
      BY <3>1 DEF Consecutive
    <3> QED BY <1>2, <2>1, <3>1, <3>2
  <2>2. CASE i > Len(old)
    <3>1. i - Len(old) \in 1..Len(w) /\ Len(old) + (i - Len(old)) = i /\ ~(i <= Len(old))
      BY <1>1, <2>2
    <3>2. w[i - Len(old)] = <<f, Len(old) + (i - Len(old))>>
      BY <3>1 DEF Consecutive
    <3> QED BY <1>2, <3>1, <3>2
  <2> QED BY <1>1, <2>1, <2>2
<1>5. \A i \in 1..(Len(old) + Len(w)) : i = 0 + i
  BY <1>1
<1> QED BY <1>2, <1>4, <1>5 DEF Consecutive

\* A write that fails halfway leaves the beginning of what it should write.
LEMMA ConsecutivePrefix ==
    ASSUME NEW f, NEW k, NEW w \in Seq(Units), Consecutive(w, f, k), NEW n \in 0..Len(w)
    PROVE  SubSeq(w, 1, n) \in Seq(Units) /\ Consecutive(SubSeq(w, 1, n), f, k)
<1>1. Len(w) \in Nat /\ \A i \in 1..n : w[i] \in Units /\ i \in 1..Len(w)
  BY LenProperties, ElementOfSeq
<1>2. /\ SubSeq(w, 1, n) \in Seq(Units) /\ Len(SubSeq(w, 1, n)) = n
      /\ \A i \in 1..n : SubSeq(w, 1, n)[i] = w[i]
  BY <1>1, SubSeqProperties
<1> QED BY <1>1, <1>2 DEF Consecutive

\* How much of a file is there says what is there.
LEMMA ConsecutiveUnique ==
    ASSUME NEW f, NEW a \in Seq(Units), Consecutive(a, f, 0),
           NEW b \in Seq(Units), Consecutive(b, f, 0), Len(a) = Len(b)
    PROVE  a = b
<1>1. \A i \in 1..Len(a) : a[i] = b[i]
  BY DEF Consecutive
<1> QED BY <1>1, SeqEqual

\* In binary mode writefile() writes as many units as it is told to.
LEMMA WrittenBinary ==
    ASSUME r_binary = TRUE, NEW b, NEW n
    PROVE  Written(b, n) = SubSeq(b, 1, n)
BY DEF Written

\* Every result of writing w leaves the beginning of the file.
LEMMA WriteConsecutive ==
    ASSUME NEW f, NEW old \in Seq(Units), Consecutive(old, f, 0),
           NEW w \in Seq(Units), Consecutive(w, f, Len(old)),
           NEW new \in {WriteOK(old, w)} \cup WriteErrors(old, w)
    PROVE  new \in Seq(Units) /\ Consecutive(new, f, 0)
<1>1. CASE new = WriteOK(old, w)
  BY <1>1, ConsecutiveConcat DEF WriteOK
<1>2. CASE new \in WriteErrors(old, w)
  <2>1. PICK n \in 0..(Len(w) - 1) : new = old \o SubSeq(w, 1, n)
    BY <1>2 DEF WriteErrors
  <2>2. n \in 0..Len(w)
    BY <2>1, LenProperties
  <2> QED BY <2>1, <2>2, ConsecutivePrefix, ConsecutiveConcat
<1> QED BY <1>1, <1>2

\* What decode() and the ACK or Error packet after it do to the current file.
LEMMA DecodeContents ==
    ASSUME "tx" \notin IOFaults, TypeOK, r_binary = TRUE, r_name \in Files,
           NEW pos \in 0..(ObufLen - 1), NEW old \in Seq(Units),
           Consecutive(old, r_name, 0), Consecutive(SubSeq(r_obuf, 1, pos), r_name, Len(old)),
           RDecode(<<r_name, Len(old) + (pos + 1)>>, pos, old)
    PROVE  /\ UNCHANGED <<r_binary, r_name, r_done>>
           /\ \E new \in Seq(Units) :
                /\ disk' = [disk EXCEPT ![r_name] = new]
                /\ Consecutive(new, r_name, 0)
                /\ \/ rexit' = "FAILURE" /\ "write" \in IOFaults
                   \/ /\ rexit' = "run" /\ rst' = "R_DATA" /\ r_seq' = Succ(r_seq)
                      /\ r_obuf' \in [1..ObufLen -> Units] /\ r_pos' \in 0..(ObufLen - 1)
                      /\ Consecutive(SubSeq(r_obuf', 1, r_pos'), r_name, Len(new))
                      /\ Len(new) + r_pos' = Len(old) + (pos + 1)
<1> DEFINE u == <<r_name, Len(old) + (pos + 1)>>
           obuf == [r_obuf EXCEPT ![pos + 1] = u]
           w == Written(obuf, ObufLen)
<1>1. ObufLen \in Nat /\ ObufLen > 0 /\ Len(old) \in Nat /\ r_obuf \in [1..ObufLen -> Units]
  BY RecvAssumption, LenProperties DEF TypeOK, RecvType
<1>2. obuf \in [1..ObufLen -> Units] /\ Consecutive(SubSeq(obuf, 1, pos + 1), r_name, Len(old))
  BY <1>1, ConsecutiveNext
<1>3. r_obuf' = obuf /\ UNCHANGED <<r_binary, r_name, r_done>>
  BY DEF RDecode
<1>4. \/ /\ r_pos' = IF pos + 1 = ObufLen THEN 0 ELSE pos + 1
         /\ disk' = [disk EXCEPT ![r_name] = IF pos + 1 = ObufLen THEN WriteOK(old, w) ELSE old]
         /\ RAck(AckPkt(RCancelText), "R_DATA", "run")
      \/ /\ pos + 1 = ObufLen
         /\ \E new \in WriteErrors(old, w) : disk' = [disk EXCEPT ![r_name] = new]
         /\ RRefuse
  BY DEF RDecode
<1> HIDE DEF obuf, u
<1>5. w = SubSeq(obuf, 1, ObufLen)
  BY WrittenBinary
<1>6. ASSUME pos + 1 = ObufLen
      PROVE  w \in Seq(Units) /\ Len(w) = ObufLen /\ Consecutive(w, r_name, Len(old))
  <2>1. ObufLen \in 0..ObufLen
    BY <1>1
  <2> QED BY <1>2, <1>5, <1>6, <2>1, BufferPart, ZenonT(30)
<1> HIDE DEF w
<1>7. CASE /\ pos + 1 = ObufLen
           /\ \E new \in WriteErrors(old, w) : disk' = [disk EXCEPT ![r_name] = new]
           /\ RRefuse
  <2>1. PICK new \in WriteErrors(old, w) : disk' = [disk EXCEPT ![r_name] = new]
    BY <1>7
  <2>2. new \in Seq(Units) /\ Consecutive(new, r_name, 0)
    BY <1>6, <1>7, <2>1, WriteConsecutive
  <2>3. rexit' = "FAILURE" /\ "write" \in IOFaults
    BY <1>7, <2>1 DEF RRefuse, WriteErrors
  <2> QED BY <1>3, <2>1, <2>2, <2>3
<1>8. CASE /\ pos + 1 = ObufLen
           /\ r_pos' = 0
           /\ disk' = [disk EXCEPT ![r_name] = WriteOK(old, w)]
           /\ RAck(AckPkt(RCancelText), "R_DATA", "run")
  <2> DEFINE new == old \o w
  <2>1. new \in Seq(Units) /\ Len(new) = Len(old) + ObufLen /\ Consecutive(new, r_name, 0)
    BY <1>6, <1>8, ConsecutiveConcat
  <2>2. rexit' = "run" /\ rst' = "R_DATA" /\ r_seq' = Succ(r_seq)
    BY <1>8, RAckOk
  <2>3. Consecutive(SubSeq(r_obuf', 1, 0), r_name, Len(new))
    <3>1. 0 \in 0..ObufLen
      BY <1>1
    <3>2. Len(SubSeq(obuf, 1, 0)) = 0
      BY <1>2, <3>1, BufferPart
    <3> QED BY <1>3, <3>2 DEF Consecutive
  <2>4. Len(new) + 0 = Len(old) + (pos + 1) /\ 0 \in 0..(ObufLen - 1)
    BY <1>1, <1>8, <2>1
  <2>5. disk' = [disk EXCEPT ![r_name] = new]
    BY <1>8 DEF WriteOK
  <2> HIDE DEF new
  <2> QED BY <1>2, <1>3, <1>8, <2>1, <2>2, <2>3, <2>4, <2>5
<1>9. CASE /\ pos + 1 # ObufLen
           /\ r_pos' = pos + 1
           /\ disk' = [disk EXCEPT ![r_name] = old]
           /\ RAck(AckPkt(RCancelText), "R_DATA", "run")
  <2>1. rexit' = "run" /\ rst' = "R_DATA" /\ r_seq' = Succ(r_seq)
    BY <1>9, RAckOk
  <2>2. pos + 1 \in 0..(ObufLen - 1)
    BY <1>1, <1>9
  <2> QED BY <1>2, <1>3, <1>9, <2>1, <2>2
<1> QED BY <1>4, <1>7, <1>8, <1>9

\* What is known of the file when a packet with data or its end is taken.
LEMMA AtFile ==
    ASSUME TypeOK, Link, Steps, RTakes, UNCHANGED sendVars, s_opkt.typ \in {"D", "Z"},
           rst \in {"R_ATTR", "R_DATA"}
    PROVE  /\ r_name = s_file /\ r_name \in Files /\ r_name \notin r_done
           /\ s_pos \in Nat /\ s_pos <= FileLen[r_name] /\ s_pos' = s_pos /\ FileLen[r_name] \in Nat
           /\ s_opkt.can = "no"
           /\ s_opkt.typ = "D" => /\ sst = "S_DATA" /\ s_opkt.dat = <<r_name, s_pos>>
                                  /\ s_pos > 0 /\ Got = s_pos - 1
           /\ s_opkt.typ = "Z" => sst = "S_EOF" /\ Got = s_pos
           /\ rst = "R_ATTR" => Got = 0
           /\ r_done = 1..(r_name - 1)
           /\ r_seq' = Succ(r_seq) => Got' = s_pos
<1>1. /\ rexit = "run" /\ ~Accepted /\ s_pos \in Nat
      /\ UNCHANGED <<sst, s_seq, s_opkt, s_file, s_pos>>
  BY DEF RTakes, TypeOK, SendType, sendVars
<1>2. /\ s_opkt.can = "no"
      /\ s_opkt.typ = "D" => sst = "S_DATA" /\ s_opkt.dat = <<s_file, s_pos>> /\ s_pos > 0
      /\ s_opkt.typ = "Z" => sst = "S_EOF"
      /\ s_file \in Files /\ s_pos <= FileLen[s_file]
  BY DEF Steps, SenderAt, TypeOK, SendType, SendStates
<1>3. r_name = s_file
  BY <1>1 DEF Steps, Phase
<1>4. s_file \in Nat /\ s_file > 0 /\ FileLen[s_file] \in Nat
  BY <1>2, FilesAssumption DEF Files
<1>5. r_done = 1..(r_name - 1) /\ r_name \notin r_done
  BY <1>1, <1>2, <1>3, <1>4 DEF Steps, Received, Past
<1>6. (s_opkt.typ = "D" => Got = s_pos - 1) /\ (s_opkt.typ = "Z" => Got = s_pos)
  BY <1>1, <1>2 DEF Got
<1>7. rst = "R_ATTR" => Got = 0
  BY <1>1, <1>2 DEF Steps, Phase
<1>8. r_seq' = Succ(r_seq) => Got' = s_pos
  <2>1. r_seq = s_seq
    BY <1>1, AcceptedOrNot
  <2> QED BY <1>1, <1>2, <2>1 DEF Got, Accepted
<1> QED BY <1>1, <1>2, <1>3, <1>4, <1>5, <1>6, <1>7, <1>8

\* One more unit.
LEMMA DataContents ==
    ASSUME "tx" \notin IOFaults, TypeOK, Link, Steps, Contents, RTakes, UNCHANGED sendVars,
           s_opkt.typ = "D", rst \in {"R_ATTR", "R_DATA"},
           NEW pos \in 0..(ObufLen - 1), NEW old \in Seq(Units), Len(old) + pos = Got,
           Consecutive(old, r_name, 0), Consecutive(SubSeq(r_obuf, 1, pos), r_name, Len(old)),
           RDecode(s_opkt.dat, pos, old)
    PROVE  Contents'
<1>1. r_name \in Files /\ r_binary = TRUE /\ Len(old) \in Nat /\ pos \in Nat /\ rexit = "run"
  BY AtFile, LenProperties, RecvAssumption DEF Contents, RTakes
<1>2. s_opkt.dat = <<r_name, Len(old) + (pos + 1)>> /\ Len(old) + (pos + 1) = s_pos
  BY <1>1, AtFile
<1>3. r_binary' = TRUE /\ r_name' = r_name /\ r_done' = r_done
  BY <1>1, <1>2, DecodeContents
<1>4. PICK new \in Seq(Units) :
        /\ disk' = [disk EXCEPT ![r_name] = new]
        /\ Consecutive(new, r_name, 0)
        /\ \/ rexit' = "FAILURE" /\ "write" \in IOFaults
           \/ /\ rexit' = "run" /\ rst' = "R_DATA" /\ r_seq' = Succ(r_seq)
              /\ r_obuf' \in [1..ObufLen -> Units] /\ r_pos' \in 0..(ObufLen - 1)
              /\ Consecutive(SubSeq(r_obuf', 1, r_pos'), r_name, Len(new))
              /\ Len(new) + r_pos' = Len(old) + (pos + 1)
  BY <1>1, <1>2, DecodeContents
<1>5. disk \in [Files -> Seq(Units)]
  BY DEF TypeOK, RecvType
<1>6. \A f \in Files : disk'[f] = IF f = r_name THEN new ELSE disk[f]
  BY <1>4, <1>5
<1>7. \A f \in Files : Consecutive(disk'[f], f, 0)
  BY <1>4, <1>6 DEF Contents, InOrder
<1>8. CASE rexit' = "FAILURE"
  BY <1>3, <1>7, <1>8 DEF Contents, InOrder, Unopened, Counted
<1>9. CASE /\ rexit' = "run" /\ rst' = "R_DATA" /\ r_seq' = Succ(r_seq)
           /\ Consecutive(SubSeq(r_obuf', 1, r_pos'), r_name, Len(new))
           /\ Len(new) + r_pos' = Len(old) + (pos + 1)
  <2>1. disk'[r_name'] = new
    BY <1>1, <1>3, <1>6
  <2>2. InOrder'
    BY <1>3, <1>7, <1>9, <2>1 DEF InOrder
  <2>3. Unopened'
    BY <1>1, <1>3, <1>6, <1>9 DEF Contents, Unopened
  <2>4. Counted'
    BY <1>2, <1>9, <2>1, AtFile DEF Counted
  <2> QED BY <1>3, <2>2, <2>3, <2>4 DEF Contents
<1> QED BY <1>4, <1>8, <1>9

\* The end of a file: what is written is the beginning of the file, and all the
\* receiver has been given if no write fails.
LEMMA EofContents ==
    ASSUME "tx" \notin IOFaults, TypeOK, Link, Steps, Contents, RTakes, UNCHANGED sendVars,
           REofPkt(s_opkt)
    PROVE  /\ UNCHANGED <<r_binary, r_name>> /\ r_pos' = 0
           /\ \E new \in Seq(Units) :
                /\ disk' = [disk EXCEPT ![r_name] = new]
                /\ Consecutive(new, r_name, 0)
                /\ "write" \notin IOFaults => Len(new) = s_pos
           /\ \/ /\ rexit' = "run" /\ rst' = "R_FILE" /\ r_seq' = Succ(r_seq)
                 /\ r_done' = r_done \cup {r_name}
              \/ rexit' = "FAILURE" /\ UNCHANGED <<rst, r_seq, r_done>>
<1> DEFINE old == disk[r_name]
           w == IF r_pos > 0 THEN Written(r_obuf, r_pos) ELSE <<>>
<1>1. rst = "R_DATA" /\ s_opkt.typ = "Z" /\ rexit = "run"
  BY DEF REofPkt, RTakes
<1>2. r_name \in Files /\ s_opkt.can = "no" /\ Got = s_pos
  BY <1>1, AtFile
<1>3. old \in Seq(Units) /\ Len(old) \in Nat /\ Consecutive(old, r_name, 0)
  BY <1>2, LenProperties DEF TypeOK, RecvType, Contents, InOrder
<1>4. /\ r_obuf \in [1..ObufLen -> Units] /\ r_pos \in 0..ObufLen /\ r_pos \in Nat
      /\ Len(old) + r_pos = s_pos
      /\ Consecutive(SubSeq(r_obuf, 1, r_pos), r_name, Len(old))
  BY <1>1, <1>2, RecvAssumption DEF TypeOK, RecvType, Contents, InOrder, Counted
<1>5. w \in Seq(Units) /\ Len(w) = r_pos /\ Consecutive(w, r_name, Len(old))
  <2>1. CASE r_pos > 0
    <3>1. w = SubSeq(r_obuf, 1, r_pos)
      BY <2>1, WrittenBinary DEF Contents
    <3> HIDE DEF w
    <3> QED BY <1>4, <3>1, BufferPart
  <2>2. CASE r_pos = 0
    <3>1. w = <<>>
      BY <2>2
    <3> HIDE DEF w
    <3>2. w \in Seq(Units) /\ Len(w) = 0
      BY <3>1
    <3> QED BY <2>2, <3>2 DEF Consecutive
  <2> QED BY <1>4, <2>1, <2>2
<1>6. PICK new \in {WriteOK(old, w)} \cup WriteErrors(old, w) :
        \/ /\ disk' = [disk EXCEPT ![r_name] = Closed(s_opkt.can, new)]
           /\ r_done' = r_done \cup {r_name}
           /\ RAck(AckPkt(RCancelText), "R_FILE", "run")
        \/ /\ disk' = [disk EXCEPT ![r_name] = new]
           /\ RRefuse
           /\ UNCHANGED r_done
  BY DEF REofPkt
<1> HIDE DEF old, w
<1>7. new \in Seq(Units) /\ Consecutive(new, r_name, 0)
  BY <1>3, <1>5, <1>6, WriteConsecutive
<1>8. "write" \notin IOFaults => Len(new) = s_pos
  <2>1. "write" \notin IOFaults => new = old \o w
    BY <1>6 DEF WriteOK, WriteErrors
  <2>2. Len(old \o w) = Len(old) + Len(w)
    BY <1>3, <1>5, ConsecutiveConcat
  <2> QED BY <1>4, <1>5, <2>1, <2>2
<1>9. Closed(s_opkt.can, new) = new
  BY <1>2 DEF Closed
<1>10. UNCHANGED <<r_binary, r_name>> /\ r_pos' = 0
  BY DEF REofPkt
<1>11. \/ /\ rexit' = "run" /\ rst' = "R_FILE" /\ r_seq' = Succ(r_seq)
          /\ r_done' = r_done \cup {r_name}
       \/ rexit' = "FAILURE" /\ UNCHANGED <<rst, r_seq, r_done>>
  BY <1>6, RAckOk DEF RRefuse
<1> QED BY <1>6, <1>7, <1>8, <1>9, <1>10, <1>11

\* A taken packet.
LEMMA RTakesContents ==
    ASSUME "tx" \notin IOFaults, BinaryOnly, TypeOK, Link, Steps, Contents, RTakes,
           UNCHANGED sendVars
    PROVE  Contents'
<1>1. rexit = "run" /\ r_binary = TRUE /\ disk \in [Files -> Seq(Units)]
  BY DEF RTakes, Contents, TypeOK, RecvType
<1>2. ASSUME UNCHANGED recvFile, rst # "R_DATA", rexit' = "FAILURE" \/ rst' # "R_DATA"
      PROVE  Contents'
  BY <1>1, <1>2 DEF recvFile, Contents, InOrder, Unopened, Counted
<1>3. CASE RInitPkt(s_opkt) \/ RBreak(s_opkt)
  <2>1. rst' = "R_FILE" /\ rst # "R_DATA" /\ UNCHANGED recvFile
    BY <1>3, RAckOk DEF RInitPkt, RBreak
  <2> QED BY <1>2, <2>1
<1>4. CASE RFilePkt(s_opkt)
  <2>1. rst' = "R_ATTR" /\ rst # "R_DATA" /\ UNCHANGED <<r_binary, disk, r_done>>
    BY <1>4, RAckOk DEF RFilePkt
  <2> QED BY <1>1, <2>1 DEF Contents, InOrder, Unopened, Counted
<1>5. CASE RAttrPkt(s_opkt)
  <2>1. rst' = "R_ATTR" /\ rst = "R_ATTR" /\ UNCHANGED <<disk, r_done>> /\ s_opkt.typ = "A"
    BY <1>5 DEF RAttrPkt
  <2>2. sst = "S_ATTR"
    BY <2>1 DEF Steps, SenderAt, TypeOK, SendType, SendStates
  <2>3. s_opkt.dat[2] = FileType(s_file) /\ Attrs /\ s_file \in Files
    BY <2>2 DEF Steps, SenderAt
  <2>4. s_opkt.dat[2] = 1
    BY <2>3 DEF BinaryOnly
  <2>5. r_binary' = TRUE
    BY <1>5, <2>4, Zenon DEF RAttrPkt, GattrBinary
  <2> QED BY <1>1, <2>1, <2>5 DEF Contents, InOrder, Unopened, Counted
<1>6. CASE RFirstData(s_opkt)
  <2>1. rst = "R_ATTR" /\ s_opkt.typ = "D"
    BY <1>6 DEF RFirstData
  <2>2. CASE RRefuse /\ UNCHANGED recvFile
    BY <1>2, <2>1, <2>2 DEF RRefuse
  <2>3. CASE RDecode(s_opkt.dat, 0, Created)
    <3>1. /\ Created \in Seq(Units) /\ Len(Created) = 0 /\ Consecutive(Created, r_name, 0)
          /\ 0 \in 0..(ObufLen - 1) /\ 0 \in 0..ObufLen
      BY RecvAssumption DEF Created, Consecutive
    <3>2. Consecutive(SubSeq(r_obuf, 1, 0), r_name, Len(Created))
      <4>1. Len(SubSeq(r_obuf, 1, 0)) = 0
        BY <3>1, BufferPart DEF TypeOK, RecvType
      <4> QED BY <4>1 DEF Consecutive
    <3>3. Len(Created) + 0 = Got
      BY <2>1, <3>1, AtFile
    <3> QED BY <2>1, <2>3, <3>1, <3>2, <3>3, DataContents
  <2> QED BY <1>6, <2>2, <2>3 DEF RFirstData
<1>7. CASE RDataPkt(s_opkt)
  <2>1. rst = "R_DATA" /\ s_opkt.typ = "D" /\ RDecode(s_opkt.dat, r_pos, disk[r_name])
    BY <1>7 DEF RDataPkt
  <2>2. r_name \in Files
    BY <2>1, AtFile
  <2>3. r_pos \in 0..(ObufLen - 1) /\ disk[r_name] \in Seq(Units)
    BY <1>1, <2>2, RecvAssumption DEF TypeOK, RecvType
  <2>4. /\ Len(disk[r_name]) + r_pos = Got
        /\ Consecutive(disk[r_name], r_name, 0)
        /\ Consecutive(SubSeq(r_obuf, 1, r_pos), r_name, Len(disk[r_name]))
    BY <1>1, <2>1, <2>2 DEF Contents, InOrder, Counted
  <2> QED BY <2>1, <2>3, <2>4, DataContents
<1>8. CASE REofPkt(s_opkt)
  <2>1. rst = "R_DATA" /\ s_opkt.typ = "Z"
    BY <1>8 DEF REofPkt
  <2>2. PICK new \in Seq(Units) : disk' = [disk EXCEPT ![r_name] = new] /\ Consecutive(new, r_name, 0)
    BY <1>8, EofContents
  <2>3. /\ r_binary' = TRUE /\ r_name' = r_name
        /\ \/ rexit' = "run" /\ rst' = "R_FILE" /\ r_done' = r_done \cup {r_name}
           \/ rexit' = "FAILURE"
    BY <1>1, <1>8, EofContents
  <2>4. \A f \in Files : disk'[f] = IF f = r_name THEN new ELSE disk[f]
    BY <1>1, <2>2
  <2>5. InOrder' /\ Counted'
    BY <2>2, <2>3, <2>4 DEF Contents, InOrder, Counted
  <2>6. Unopened'
    BY <1>1, <2>1, <2>3, <2>4 DEF Contents, Unopened
  <2> QED BY <2>3, <2>5, <2>6 DEF Contents
<1>9. CASE REmpty(s_opkt)
  <2>1. rexit' = "FAILURE" /\ r_binary' = r_binary
    BY <1>9, RAckOk DEF REmpty, RRefuse
  <2>2. \A f \in Files : disk'[f] \in {disk[f], <<>>}
    BY <1>1, <1>9 DEF REmpty, Created
  <2>3. \A f \in Files : Consecutive(disk'[f], f, 0)
    BY <2>2 DEF Contents, InOrder, Consecutive
  <2> QED BY <1>1, <2>1, <2>3 DEF Contents, InOrder, Unopened, Counted
<1> QED BY <1>3, <1>4, <1>5, <1>6, <1>7, <1>8, <1>9 DEF RTakes

\* All steps.
LEMMA NextContents ==
    ASSUME "tx" \notin IOFaults, BinaryOnly, TypeOK, Link, Steps, Contents, [Next]_vars
    PROVE  Contents'
<1>1. ASSUME UNCHANGED recvVars, Got' = Got \/ rexit # "run" \/ rst # "R_DATA" PROVE Contents'
  BY <1>1 DEF recvVars, Contents, InOrder, Unopened, Counted
<1>2. CASE SStays /\ UNCHANGED recvVars
  <2>1. Got' = Got
    BY <1>2 DEF SStays, sendStep, recvVars, Got, Accepted
  <2> QED BY <1>1, <1>2, <2>1
<1>3. CASE SMoves /\ UNCHANGED recvVars
  <2>1. CASE NextUnit \/ EndOfFile \/ Attributes \/ NoMoreFiles
    <3>1. Got' = Got
      BY <1>3, <2>1 DEF SMoves, NextUnit, EndOfFile, Attributes, NoMoreFiles, Got, TypeOK, SendType
    <3> QED BY <1>1, <1>3, <3>1
  <2>2. CASE NextFile
    <3>1. rexit # "run" \/ rst # "R_DATA"
      BY <1>3, <2>2 DEF SMoves, NextFile, Steps, Phase
    <3> QED BY <1>1, <1>3, <3>1
  <2> QED BY <1>3, <2>1, <2>2 DEF SMoves
<1>4. CASE SStart /\ UNCHANGED recvVars
  <2>1. rexit # "run" \/ rst # "R_DATA"
    BY <1>4 DEF SStart, Steps, Phase
  <2> QED BY <1>1, <1>4, <2>1
<1>5. CASE RStays /\ UNCHANGED sendVars
  <2>1. Got' = Got /\ UNCHANGED <<rst, recvFile>> /\ rexit' \in {rexit, "FAILURE", "quit"}
    BY <1>5 DEF RStays, sendVars, Got, Accepted
  <2> QED BY <2>1 DEF recvFile, Contents, InOrder, Unopened, Counted
<1>6. CASE RTakes /\ UNCHANGED sendVars
  BY <1>6, RTakesContents
<1> QED BY <1>2, <1>3, <1>4, <1>5, <1>6, NextMoves

\* The files arrive in order, for every list of files that are not announced as
\* text, every size of obuf, every cancellation, and whatever fails but txd().
LEMMA ContentsKept ==
    "tx" \notin IOFaults /\ BinaryOnly => (Spec => [](TypeOK /\ Link /\ Steps /\ Contents))
<1> SUFFICES ASSUME "tx" \notin IOFaults, BinaryOnly
             PROVE  Spec => [](TypeOK /\ Link /\ Steps /\ Contents)
  OBVIOUS
<1>1. Init => Contents
  BY DEF Init, RInit, Contents, InOrder, Unopened, Counted, Consecutive
<1>2. TypeOK /\ Link /\ Steps /\ Contents /\ [Next]_vars => Contents'
  BY NextContents
<1>3. Spec => [](TypeOK /\ Link /\ Steps)
  BY StepsKept
<1> QED BY <1>1, <1>2, <1>3, PTL DEF Spec

\* What is on the receiver's disk is the beginning of the file: decode(),
\* writefile() and the link lose, repeat, swap and misplace nothing as long as
\* no file is announced as text, also when a write fails halfway.
THEOREM ArrivesInOrder == "tx" \notin IOFaults /\ BinaryOnly => (Spec => []InOrder)
<1> SUFFICES ASSUME "tx" \notin IOFaults, BinaryOnly PROVE Spec => []InOrder
  OBVIOUS
<1>1. Contents => InOrder
  BY DEF Contents
<1>2. Spec => [](TypeOK /\ Link /\ Steps /\ Contents)
  BY ContentsKept
<1> QED BY <1>1, <1>2, PTL

-----------------------------------------------------------------------------
(* Nothing is missing if nobody cancels and no write fails.                 *)

\* A packet that asks for nothing, or none, is added to the line; the oldest
\* one is taken off it or spoiled.
LEMMA PlainLine ==
    ASSUME NEW line \in Seq(Packets), NEW q, q.can = "no",
           \A i \in 1..Len(line) : line[i].can = "no",
           NEW new,
           \/ new \in {line, Append(line, q)}
           \/ line # <<>> /\ new \in {Tail(line), [line EXCEPT ![1] = q]}
    PROVE  \A i \in 1..Len(new) : new[i].can = "no"
<1>1. Len(line) \in Nat
  BY LenProperties
<1>2. CASE new = Append(line, q)
  <2>1. Len(new) = Len(line) + 1 /\ \A i \in 1..Len(new) : new[i] = IF i = Len(line) + 1 THEN q ELSE line[i]
    BY <1>1, <1>2, AppendProperties
  <2> QED BY <1>1, <2>1
<1>3. CASE line # <<>> /\ new = Tail(line)
  <2>1. /\ Len(new) = Len(line) - 1
        /\ \A i \in 1..Len(new) : i + 1 \in 1..Len(line) /\ new[i] = line[i + 1]
    BY <1>1, <1>3, HeadTailProperties
  <2> QED BY <2>1
<1>4. CASE line # <<>> /\ new = [line EXCEPT ![1] = q]
  <2>1. Len(new) = Len(line) /\ \A i \in 1..Len(line) : new[i] = IF i = 1 THEN q ELSE line[i]
    BY <1>4, LenProperties
  <2> QED BY <2>1
<1> QED BY <1>2, <1>3, <1>4

\* The answers of a receiver that does not cancel ask for nothing.
LEMMA RRunPlain ==
    ASSUME NEW p, RRun(p), r_cancel = 0, r_opkt.can = "no"
    PROVE  /\ r_opkt'.can = "no"
           /\ \E q : q.can = "no" /\ toS' \in {toS, Append(toS, q)}
<1>1. ASSUME NEW q, q.can = "no", NEW ok, toS' = Sent(toS, q, ok)
      PROVE  \E y : y.can = "no" /\ toS' \in {toS, Append(toS, y)}
  BY <1>1 DEF Sent
<1>2. ErrorPkt.can = "no" /\ AckPkt("no").can = "no" /\ ParamPkt("Y", r_seq).can = "no"
      /\ Pkt("N", r_seq, NoUnit, Bct).can = "no"
  BY DEF ErrorPkt, AckPkt, ParamPkt, Pkt
<1>3. AckPkt(RCancelText).can = "no"
  BY <1>2 DEF RCancelText
<1>4. ASSUME toS' = toS PROVE \E y : y.can = "no" /\ toS' \in {toS, Append(toS, y)}
  BY <1>2, <1>4
<1>5. ASSUME NEW c, RNak(c)
      PROVE  r_opkt'.can = "no" /\ \E y : y.can = "no" /\ toS' \in {toS, Append(toS, y)}
  BY <1>1, <1>2, <1>5 DEF RNak
<1>6. ASSUME RRefuse
      PROVE  r_opkt'.can = "no" /\ \E y : y.can = "no" /\ toS' \in {toS, Append(toS, y)}
  BY <1>1, <1>2, <1>6 DEF RRefuse
<1>7. ASSUME NEW y, y.can = "no", NEW st, NEW x, RAck(y, st, x)
      PROVE  r_opkt'.can = "no" /\ \E z : z.can = "no" /\ toS' \in {toS, Append(toS, z)}
  BY <1>1, <1>7 DEF RAck
<1>8. CASE REcho(p) \/ RError(p)
  BY <1>4, <1>8 DEF REcho, RError
<1>9. CASE RDamaged(p)
  BY <1>5, <1>9 DEF RDamaged
<1>10. CASE RStale(p)
  BY <1>1, <1>5, <1>6, <1>10 DEF RStale
<1>11. CASE RInitPkt(p) \/ RFilePkt(p) \/ RBreak(p)
  BY <1>2, <1>7, <1>11 DEF RInitPkt, RFilePkt, RBreak
<1>12. CASE RAttrPkt(p)
  BY <1>1, <1>2, <1>12 DEF RAttrPkt
<1>13. CASE RFirstData(p) \/ RDataPkt(p)
  BY <1>3, <1>6, <1>7, <1>13 DEF RFirstData, RDataPkt, RDecode
<1>14. CASE REofPkt(p) \/ REmpty(p)
  BY <1>3, <1>6, <1>7, <1>14 DEF REofPkt, REmpty
<1>15. CASE RUnexpected(p)
  BY <1>6, <1>15 DEF RUnexpected
<1> QED BY <1>8, <1>9, <1>10, <1>11, <1>12, <1>13, <1>14, <1>15 DEF RRun

\* So the sender sees no request if the receiver did not make one.
LEMMA NextNoRequest ==
    ASSUME TypeOK, SenderAt, NoRequest, [Next]_vars
    PROVE  NoRequest'
<1> SUFFICES ASSUME r_cancel' = 0
             PROVE  r_opkt'.can = "no" /\ \A i \in 1..Len(toS') : toS'[i].can = "no"
  BY DEF NoRequest
<1>1. toS \in Seq(Packets) /\ s_opkt.can = "no" /\ Bad.can = "no" /\ Short.can = "no" /\ ErrorPkt.can = "no"
  BY DEF TypeOK, LineType, SenderAt, Bad, Short, ErrorPkt, Pkt
<1>2. ASSUME NEW q, q.can = "no", r_cancel = 0,
             toS' \in {toS, Append(toS, q)} \/ (toS # <<>> /\ toS' \in {Tail(toS), [toS EXCEPT ![1] = q]})
      PROVE  \A i \in 1..Len(toS') : toS'[i].can = "no"
  BY <1>1, <1>2, PlainLine DEF NoRequest
<1>3. ASSUME r_cancel = 0, r_opkt' = r_opkt PROVE r_opkt'.can = "no"
  BY <1>3 DEF NoRequest
<1>4. CASE SendNext /\ UNCHANGED <<recvVars, faults>>
  <2>1. r_cancel = 0 /\ r_opkt' = r_opkt
    BY <1>4 DEF recvVars
  <2>2. toS' = toS \/ (toS # <<>> /\ toS' = Tail(toS))
    BY <1>4 DEF SendNext, SStart, SReceive, SRead, STimeout, STimer, SNoSlot, SCancel, SAbort
  <2> QED BY <1>1, <1>2, <1>3, <2>1, <2>2
<1>5. CASE RecvNext /\ UNCHANGED <<sendVars, faults>>
  <2>1. CASE RReceive \/ RTimeout
    <3>1. PICK p : RRun(p)
      BY <2>1 DEF RReceive, RTimeout
    <3>2. r_cancel = 0 /\ r_opkt.can = "no"
      BY <3>1 DEF RRun, NoRequest
    <3> QED BY <1>2, <3>1, <3>2, RRunPlain
  <2>2. CASE RNoSlot \/ RAbort
    <3>1. r_cancel = 0 /\ r_opkt' = r_opkt /\ toS' \in {toS, Append(toS, ErrorPkt)}
      BY <2>2 DEF RNoSlot, RAbort, Sent
    <3> QED BY <1>1, <1>2, <1>3, <3>1
  <2>3. CASE RCancel
    BY <2>3 DEF RCancel
  <2> QED BY <1>5, <2>1, <2>2, <2>3 DEF RecvNext
<1>6. CASE (LineFault \/ Noise \/ Echo \/ Drain) /\ UNCHANGED <<sendVars, recvVars>>
  <2>1. r_cancel = 0 /\ r_opkt' = r_opkt
    BY <1>6 DEF recvVars
  <2>2. CASE LineFault
    <3>1. PICK q \in {Bad, Short} :
            toS' = toS \/ (toS # <<>> /\ toS' \in {Tail(toS), [toS EXCEPT ![1] = q]})
      BY <2>2 DEF LineFault, Hit
    <3> QED BY <1>1, <1>2, <1>3, <2>1, <3>1
  <2>3. CASE Noise
    BY <1>1, <1>2, <1>3, <2>1, <2>3 DEF Noise
  <2>4. CASE Echo
    BY <1>1, <1>2, <1>3, <2>1, <2>4 DEF Echo
  <2>5. CASE Drain
    BY <1>1, <1>2, <1>3, <2>1, <2>5 DEF Drain
  <2> QED BY <1>6, <2>2, <2>3, <2>4, <2>5
<1>7. CASE UNCHANGED vars
  BY <1>7 DEF vars, lineVars, recvVars, NoRequest
<1> QED BY <1>4, <1>5, <1>6, <1>7 DEF Next

\* The sender reaches the end of every file it was not told to cancel.
LEMMA NextAllSent ==
    ASSUME "tx" \notin IOFaults, TypeOK, Link, Steps, NoRequest, AllSent, [Next]_vars
    PROVE  AllSent'
<1>1. /\ s_list \in 0..NFiles /\ s_file \in 0..NFiles /\ s_pos \in Nat /\ NFiles \in Nat
      /\ FileLen \in [Files -> Nat]
  BY FilesAssumption DEF TypeOK, SendType, Files
<1>2. CASE SStays /\ s_cancel' \in {s_cancel, 1, 2} /\ UNCHANGED recvVars
  BY <1>2 DEF SStays, sendStep, recvVars, AllSent, NoCancel
<1>3. CASE SMoves /\ s_cancel' = s_cancel /\ UNCHANGED recvVars
  <2> SUFFICES ASSUME NoCancel PROVE AllSent'
    BY <1>3 DEF AllSent, NoCancel, recvVars
  <2>1. CASE NextFile \/ NoMoreFiles
    BY <1>1, <2>1 DEF NextFile, NoMoreFiles, AllSent
  <2>2. CASE Attributes \/ NextUnit
    BY <2>2 DEF Attributes, NextUnit, AllSent
  <2>3. CASE EndOfFile
    <3>1. toS # <<>> => Head(toS) = toS[1] /\ 1 \in 1..Len(toS)
      BY LenProperties, EmptySeq DEF TypeOK, LineType
    <3>2. toS # <<>> => Head(toS).can = "no"
      BY <3>1 DEF NoRequest, NoCancel
    <3> QED BY <1>1, <2>3, <3>2 DEF EndOfFile, SMore, SDataWanted, AllSent, NoCancel, Steps, SenderAt
  <2> QED BY <1>3, <2>1, <2>2, <2>3 DEF SMoves
<1>4. CASE SStart /\ UNCHANGED recvVars
  BY <1>4 DEF SStart, recvVars, AllSent, NoCancel, TxResults
<1>5. CASE (RStays \/ RTakes) /\ (r_cancel' = 0 => r_cancel = 0) /\ UNCHANGED sendVars
  BY <1>5 DEF sendVars, AllSent, NoCancel
<1> QED BY <1>2, <1>3, <1>4, <1>5, NextMoves

\* A file that is closed has its full length.
LEMMA NextFullLength ==
    ASSUME "tx" \notin IOFaults, "write" \notin IOFaults, TypeOK, Link, Steps, Contents,
           AllSent, FullLength, [Next]_vars
    PROVE  FullLength'
<1> SUFFICES ASSUME NoCancel' PROVE \A f \in r_done' : Len(disk'[f]) = FileLen[f]
  BY DEF FullLength
<1>1. CASE UNCHANGED <<r_done, disk>> /\ NoCancel
  BY <1>1 DEF FullLength
<1>2. CASE RTakes /\ r_cancel' = r_cancel /\ UNCHANGED sendVars
  <2>1. NoCancel /\ disk \in [Files -> Seq(Units)] /\ r_done \subseteq Files
    BY <1>2 DEF NoCancel, sendVars, TypeOK, RecvType
  <2>2. CASE REofPkt(s_opkt) \/ REmpty(s_opkt)
    <3>1. s_opkt.typ = "Z" /\ rst \in {"R_ATTR", "R_DATA"}
      BY <2>2 DEF REofPkt, REmpty
    <3>2. r_name \in Files /\ r_name \notin r_done /\ s_pos = FileLen[r_name] /\ Got = s_pos
      BY <1>2, <2>1, <3>1, AtFile DEF AllSent
    <3>3. CASE REofPkt(s_opkt)
      <4>1. PICK new \in Seq(Units) : disk' = [disk EXCEPT ![r_name] = new] /\ Len(new) = s_pos
        BY <1>2, <3>3, EofContents
      <4>2. r_done' \in {r_done, r_done \cup {r_name}}
        BY <1>2, <3>3, EofContents
      <4> QED BY <2>1, <3>2, <4>1, <4>2 DEF FullLength
    <3>4. CASE REmpty(s_opkt)
      <4>1. FileLen[r_name] = 0
        BY <1>2, <3>1, <3>2, <3>4, AtFile DEF REmpty
      <4>2. disk' \in {disk, [disk EXCEPT ![r_name] = <<>>]} /\ r_done' \in {r_done, r_done \cup {r_name}}
            /\ (r_done' # r_done => disk' = [disk EXCEPT ![r_name] = <<>>])
        BY <3>4 DEF REmpty, Created
      <4> QED BY <2>1, <3>2, <4>1, <4>2, SMTT(30) DEF FullLength
    <3> QED BY <2>2, <3>3, <3>4
  <2>3. CASE RFirstData(s_opkt) \/ RDataPkt(s_opkt)
    <3>1. r_name \in Files /\ r_name \notin r_done
      BY <1>2, <2>3, AtFile DEF RFirstData, RDataPkt
    <3>2. r_done' = r_done /\ (disk' = disk \/ \E new : disk' = [disk EXCEPT ![r_name] = new])
      BY <2>3 DEF RFirstData, RDataPkt, RDecode, recvFile
    <3> QED BY <2>1, <3>1, <3>2 DEF FullLength
  <2>4. CASE RInitPkt(s_opkt) \/ RFilePkt(s_opkt) \/ RBreak(s_opkt) \/ RAttrPkt(s_opkt)
    BY <1>1, <2>1, <2>4 DEF RInitPkt, RFilePkt, RBreak, RAttrPkt, recvFile
  <2> QED BY <1>2, <2>2, <2>3, <2>4 DEF RTakes
<1>3. CASE RStays /\ (r_cancel' = 0 => r_cancel = 0) /\ UNCHANGED sendVars
  BY <1>1, <1>3 DEF RStays, recvFile, sendVars, NoCancel
<1>4. CASE SStays /\ s_cancel' \in {s_cancel, 1, 2} /\ UNCHANGED recvVars
  BY <1>1, <1>4 DEF recvVars, NoCancel
<1>5. CASE (SMoves \/ SStart) /\ s_cancel' = s_cancel /\ UNCHANGED recvVars
  BY <1>1, <1>5 DEF recvVars, NoCancel
<1> QED BY <1>2, <1>3, <1>4, <1>5, NextMoves DEF SStart

\* What holds when neither txd() nor a write fails and nothing is announced as text.
Faithful == "tx" \notin IOFaults /\ "write" \notin IOFaults /\ BinaryOnly

Correct == TypeOK /\ Link /\ Steps /\ Contents /\ Whole

LEMMA CorrectKept == Faithful => (Spec => []Correct)
<1> SUFFICES ASSUME Faithful PROVE Spec => []Correct
  OBVIOUS
<1> DEFINE I == TypeOK /\ Link /\ Steps /\ Contents
<1>1. Init => Whole
  BY FilesAssumption DEF Init, SInit, RInit, NoPkt, Pkt, Whole, NoRequest, AllSent, FullLength
<1>2. I /\ Whole /\ [Next]_vars => Whole'
  BY NextNoRequest, NextAllSent, NextFullLength DEF Faithful, Whole, Steps
<1>3. Spec => []I
  BY ContentsKept DEF Faithful
<1>4. I /\ Whole <=> Correct
  BY DEF Correct
<1> HIDE DEF I
<1> QED BY <1>1, <1>2, <1>3, <1>4, PTL DEF Spec

\* A file in order and of full length is complete.
LEMMA FullIsComplete ==
    ASSUME TypeOK, Contents, NEW f \in Files, Len(disk[f]) = FileLen[f]
    PROVE  Complete(f)
<1>1. disk[f] \in Seq(Units) /\ FileLen[f] \in Nat /\ Consecutive(disk[f], f, 0)
  BY FilesAssumption DEF TypeOK, RecvType, Contents, InOrder, Files
<1>2. disk[f] = [i \in 1..FileLen[f] |-> disk[f][i]]
  BY <1>1
<1>3. \A i \in 1..FileLen[f] : disk[f][i] = <<f, i>>
  <2>1. \A i \in 1..FileLen[f] : 0 + i = i
    BY <1>1
  <2> QED BY <1>1, <2>1 DEF Consecutive
<1> QED BY <1>2, <1>3 DEF Complete

\* If nobody cancels, a file the receiver has closed is complete.
THEOREM ClosedIsComplete == Faithful => (Spec => []DoneComplete)
<1> SUFFICES ASSUME Faithful PROVE Spec => []DoneComplete
  OBVIOUS
<1>1. Correct => DoneComplete
  BY FullIsComplete DEF Correct, Whole, FullLength, DoneComplete, TypeOK, RecvType
<1> QED BY <1>1, CorrectKept, PTL

\* If nobody cancels, a sender that reports success has had every file received
\* completely by a receiver that reports success too.
THEOREM SuccessIsAgreed == Faithful => (Spec => []Agreement)
<1> SUFFICES ASSUME Faithful PROVE Spec => []Agreement
  OBVIOUS
<1>1. Correct => Agreement
  <2> SUFFICES ASSUME Correct, sexit = "SUCCESS", NoCancel
               PROVE  rexit = "SUCCESS" /\ \A f \in Files : f \in r_done /\ Complete(f)
    BY DEF Agreement
  <2>1. rexit = "SUCCESS" /\ sst = "S_EOT" /\ s_file = NFiles
    BY DEF Correct, Steps, Verdicts, Whole, AllSent
  <2>2. r_done = Files
    BY <2>1 DEF Correct, Steps, Received, Past, Files
  <2> QED BY <2>1, <2>2, FullIsComplete DEF Correct, Whole, FullLength
<1> QED BY <1>1, CorrectKept, PTL

-----------------------------------------------------------------------------
(* E-Kermit implements FileTransfer.                                        *)

\* What the receiver has of the file it is about to add to or to close: the
\* units it has been given, in order.  Nothing of it is there before the first.
LEMMA OutNow ==
    ASSUME Correct, RTakes, UNCHANGED sendVars, s_opkt.typ \in {"D", "Z"},
           rst \in {"R_ATTR", "R_DATA"}
    PROVE  /\ Out[r_name] \in Seq(Units) /\ Consecutive(Out[r_name], r_name, 0)
           /\ Len(Out[r_name]) = Got
           /\ \A f \in Files : f # r_name => Out[f] = disk[f]
<1>1. r_name \in Files /\ r_name \notin r_done /\ rexit = "run" /\ (rst = "R_ATTR" => Got = 0)
  BY AtFile DEF Correct, RTakes
<1>2. \A f \in Files : f # r_name => Out[f] = disk[f]
  BY DEF Out
<1>3. CASE rst = "R_ATTR"
  <2>1. Out[r_name] = disk[r_name]
    BY <1>1, <1>3 DEF Out
  <2>2. disk[r_name] = <<>>
    BY <1>1, <1>3 DEF Correct, Contents, Unopened
  <2>3. <<>> \in Seq(Units) /\ Len(<<>>) = 0 /\ Consecutive(<<>>, r_name, 0)
    BY DEF Consecutive
  <2> QED BY <1>1, <1>2, <1>3, <2>1, <2>2, <2>3
<1>4. CASE rst = "R_DATA"
  <2> DEFINE old == disk[r_name]
             w == SubSeq(r_obuf, 1, r_pos)
  <2>1. Out[r_name] = old \o w
    BY <1>1, <1>4 DEF Out
  <2>2. old \in Seq(Units) /\ Consecutive(old, r_name, 0)
    BY <1>1 DEF Correct, TypeOK, RecvType, Contents, InOrder
  <2>3. w \in Seq(Units) /\ Len(w) = r_pos /\ Consecutive(w, r_name, Len(old))
    <3>1. r_obuf \in [1..ObufLen -> Units] /\ r_pos \in 0..ObufLen
      BY <1>1, RecvAssumption DEF Correct, TypeOK, RecvType
    <3>2. Consecutive(w, r_name, Len(old))
      BY <1>1, <1>4 DEF Correct, Contents, InOrder
    <3> QED BY <3>1, <3>2, BufferPart
  <2>4. Len(old) + r_pos = Got
    BY <1>1, <1>4 DEF Correct, Contents, Counted
  <2> HIDE DEF old, w
  <2>5. old \o w \in Seq(Units) /\ Len(old \o w) = Len(old) + Len(w) /\ Consecutive(old \o w, r_name, 0)
    BY <2>2, <2>3, ConsecutiveConcat
  <2> QED BY <1>2, <2>1, <2>3, <2>4, <2>5
<1> QED BY <1>3, <1>4

\* A D packet delivers a unit, unless the file cannot be opened.
LEMMA DataRefines ==
    ASSUME Faithful, Correct, Correct', RTakes, r_cancel' = r_cancel, UNCHANGED sendVars,
           RFirstData(s_opkt) \/ RDataPkt(s_opkt)
    PROVE  Transfer!Next
<1>1. s_opkt.typ = "D" /\ rst \in {"R_ATTR", "R_DATA"} /\ rexit = "run"
  BY DEF RFirstData, RDataPkt, RTakes
<1>2. sexit' = sexit /\ NoCancel' = NoCancel
  BY DEF sendVars, NoCancel
<1>3. /\ r_name = s_file /\ r_name \in Files /\ r_done = 1..(r_name - 1)
      /\ s_pos \in Nat /\ s_pos > 0 /\ Got = s_pos - 1 /\ s_pos <= FileLen[r_name] /\ FileLen[r_name] \in Nat
      /\ r_seq' = Succ(r_seq) => Got' = s_pos
      /\ s_opkt.dat = <<r_name, s_pos>>
  BY <1>1, AtFile DEF Correct
<1>4. CASE RRefuse /\ UNCHANGED recvFile
  <2>1. Out' = Out /\ r_done' = r_done /\ rexit' = "FAILURE"
    BY <1>4 DEF RRefuse, recvFile, Out
  <2>2. Transfer!Fail
    BY <1>1, <1>2, <2>1 DEF Transfer!Fail, Transfer!Failures
  <2> QED BY <2>2 DEF Transfer!Next
<1>5. ASSUME NEW pos, NEW old, RDecode(s_opkt.dat, pos, old)
      PROVE  Transfer!Next
  <2>1. /\ r_name' = r_name /\ r_done' = r_done
        /\ \E new : disk' = [disk EXCEPT ![r_name] = new]
    BY <1>5 DEF RDecode
  <2>2. rexit' = "run" /\ rst' = "R_DATA" /\ r_seq' = Succ(r_seq)
    <3>1. RAck(AckPkt(RCancelText), "R_DATA", "run")
      BY <1>5 DEF RDecode, WriteErrors, Faithful
    <3> QED BY <3>1, RAckOk DEF Faithful
  <2> DEFINE old1 == disk'[r_name]
             w1 == SubSeq(r_obuf', 1, r_pos')
  <2>3. Out'[r_name] = old1 \o w1 /\ \A f \in Files : f # r_name => Out'[f] = disk'[f]
    BY <1>3, <2>1, <2>2 DEF Out
  <2>4. old1 \in Seq(Units) /\ Consecutive(old1, r_name, 0)
    BY <1>3 DEF Correct, TypeOK, RecvType, Contents, InOrder
  <2>5. w1 \in Seq(Units) /\ Len(w1) = r_pos' /\ Consecutive(w1, r_name, Len(old1))
    <3>1. r_obuf' \in [1..ObufLen -> Units] /\ r_pos' \in 0..ObufLen
      BY <2>2, RecvAssumption DEF Correct, TypeOK, RecvType
    <3>2. Consecutive(w1, r_name, Len(old1))
      BY <2>1, <2>2 DEF Correct, Contents, InOrder
    <3> QED BY <3>1, <3>2, BufferPart
  <2>6. Len(old1) + r_pos' = s_pos
    BY <1>3, <2>1, <2>2 DEF Correct, Contents, Counted
  <2> HIDE DEF old1, w1
  <2>7. Out'[r_name] \in Seq(Units) /\ Len(Out'[r_name]) = s_pos /\ Consecutive(Out'[r_name], r_name, 0)
    <3>1. /\ old1 \o w1 \in Seq(Units) /\ Len(old1 \o w1) = Len(old1) + Len(w1)
          /\ Consecutive(old1 \o w1, r_name, 0)
      BY <2>4, <2>5, ConsecutiveConcat
    <3> QED BY <2>3, <2>5, <2>6, <3>1
  <2>8. /\ Out[r_name] \in Seq(Units) /\ Consecutive(Out[r_name], r_name, 0)
        /\ Len(Out[r_name]) = s_pos - 1 /\ \A f \in Files : f # r_name => Out[f] = disk[f]
    BY <1>1, <1>3, OutNow
  <2> DEFINE u == <<r_name, Len(Out[r_name]) + 1>>
             a == Append(Out[r_name], u)
  <2>9. a = Out'[r_name]
    <3>1. u = <<r_name, s_pos>> /\ u \in Units
      BY <1>3, <2>8, FilesAssumption DEF Units, Files
    <3>2. /\ a \in Seq(Units) /\ Len(a) = s_pos
          /\ \A i \in 1..s_pos : a[i] = IF i = s_pos THEN u ELSE Out[r_name][i]
      BY <1>3, <2>8, <3>1, AppendProperties
    <3> HIDE DEF a, u
    <3>3. ASSUME NEW i \in 1..s_pos PROVE a[i] = <<r_name, 0 + i>>
      <4>1. CASE i = s_pos
        BY <1>3, <3>1, <3>2, <4>1
      <4>2. CASE i # s_pos
        <5>1. i \in 1..Len(Out[r_name])
          BY <1>3, <2>8, <4>2
        <5> QED BY <2>8, <3>2, <4>2, <5>1 DEF Consecutive
      <4> QED BY <4>1, <4>2
    <3>4. Consecutive(a, r_name, 0)
      BY <3>2, <3>3 DEF Consecutive
    <3> QED BY <2>7, <3>2, <3>4, ConsecutiveUnique
  <2>10. \A f \in Files : f # r_name => Out'[f] = Out[f]
    BY <2>1, <2>3, <2>8 DEF Correct, TypeOK, RecvType
  <2>11. Out' = [Out EXCEPT ![r_name] = a]
    <3>1. Out = [f \in Files |-> Out[f]] /\ Out' = [f \in Files |-> Out'[f]]
      BY DEF Out
    <3> HIDE DEF a
    <3> QED BY <2>9, <2>10, <3>1
  <2>12. Transfer!Deliver(r_name)
    BY <1>1, <1>2, <1>3, <2>1, <2>2, <2>8, <2>11 DEF Transfer!Deliver, Transfer!Current
  <2> QED BY <1>3, <2>12 DEF Transfer!Next, Transfer!Files, Files
<1> QED BY <1>4, <1>5 DEF RFirstData, RDataPkt

\* A Z packet ends a file.
LEMMA EofRefines ==
    ASSUME Faithful, Correct, Correct', RTakes, r_cancel' = r_cancel, UNCHANGED sendVars,
           REofPkt(s_opkt) \/ REmpty(s_opkt)
    PROVE  Transfer!Next
<1>1. s_opkt.typ = "Z" /\ rst \in {"R_ATTR", "R_DATA"} /\ rexit = "run"
  BY DEF REofPkt, REmpty, RTakes
<1>2. sexit' = sexit /\ NoCancel' = NoCancel
  BY DEF sendVars, NoCancel
<1>3. r_name \in Files /\ r_done = 1..(r_name - 1) /\ Got = s_pos /\ sst = "S_EOF" /\ r_name = s_file
      /\ r_name \notin r_done
  BY <1>1, AtFile DEF Correct
<1>4. /\ Out[r_name] \in Seq(Units) /\ Consecutive(Out[r_name], r_name, 0)
      /\ Len(Out[r_name]) = s_pos /\ \A f \in Files : f # r_name => Out[f] = disk[f]
  BY <1>1, <1>3, OutNow
<1>5. disk \in [Files -> Seq(Units)] /\ r_name' = r_name
  BY DEF Correct, TypeOK, RecvType, REofPkt, REmpty
<1>6. Out' = Out
  <2>1. Out = [f \in Files |-> Out[f]] /\ Out' = [f \in Files |-> Out'[f]]
    BY DEF Out
  <2>2. CASE REofPkt(s_opkt)
    <3>1. PICK new \in Seq(Units) :
            disk' = [disk EXCEPT ![r_name] = new] /\ Consecutive(new, r_name, 0) /\ Len(new) = s_pos
      BY <2>2, EofContents DEF Correct, Faithful
    <3>2. new = Out[r_name]
      BY <1>4, <3>1, ConsecutiveUnique
    <3>3. \A f \in Files : disk'[f] = IF f = r_name THEN new ELSE disk[f]
      BY <1>5, <3>1
    <3>4. r_pos' = 0 /\ (rst' = "R_FILE" \/ rst' = rst)
      BY <2>2, EofContents DEF Correct, Faithful
    <3>5. Out'[r_name] = new
      <4>1. SubSeq(r_obuf', 1, 0) = <<>>
        BY SubSeqEmpty
      <4>2. new \o <<>> = new
        BY <3>1, ConcatEmptySeq
      <4>3. Out'[r_name] = IF rst' = "R_DATA" THEN disk'[r_name] \o SubSeq(r_obuf', 1, r_pos')
                                              ELSE disk'[r_name]
        BY <1>3, <1>5 DEF Out
      <4> QED BY <1>3, <3>3, <3>4, <4>1, <4>2, <4>3
    <3>6. \A f \in Files : f # r_name => Out'[f] = disk'[f]
      BY <1>5 DEF Out
    <3> QED BY <1>4, <2>1, <3>2, <3>3, <3>5, <3>6
  <2>3. CASE REmpty(s_opkt)
    <3>1. disk[r_name] = <<>> /\ rst # "R_DATA"
      BY <1>1, <1>3, <2>3 DEF Correct, Contents, Unopened, REmpty
    <3>2. disk' = disk
      BY <1>3, <1>5, <2>3, <3>1 DEF REmpty, Created
    <3>3. rst' # "R_DATA"
      BY <2>3, <3>1, RAckOk DEF REmpty, RRefuse, Faithful
    <3> QED BY <3>1, <3>2, <3>3 DEF Out
  <2> QED BY <2>2, <2>3
<1>7. NoCancel => Len(Out[r_name]) = FileLen[r_name]
  BY <1>3, <1>4 DEF Correct, Whole, AllSent
<1>8. CASE r_done' = r_done \cup {r_name} /\ rexit' \in {"run", "FAILURE"}
  <2>1. Transfer!Finish(r_name)
    BY <1>1, <1>2, <1>3, <1>6, <1>7, <1>8 DEF Transfer!Finish, Transfer!Current
  <2> QED BY <1>3, <2>1 DEF Transfer!Next, Transfer!Files, Files
<1>9. CASE r_done' = r_done /\ rexit' = "FAILURE"
  <2>1. Transfer!Fail
    BY <1>1, <1>2, <1>6, <1>9 DEF Transfer!Fail, Transfer!Failures
  <2> QED BY <2>1 DEF Transfer!Next
<1>10. \/ r_done' = r_done \cup {r_name} /\ rexit' \in {"run", "FAILURE"}
       \/ r_done' = r_done /\ rexit' = "FAILURE"
  <2>1. CASE REofPkt(s_opkt)
    BY <2>1, EofContents DEF Correct, Faithful
  <2>2. CASE REmpty(s_opkt)
    BY <2>2, RAckOk DEF REmpty, RRefuse, Faithful
  <2> QED BY <2>1, <2>2
<1> QED BY <1>8, <1>9, <1>10

\* Every step is a step of the transfer, or invisible.
LEMMA NextRefines ==
    ASSUME Faithful, Correct, Correct', [Next]_vars
    PROVE  Transfer!Next \/ UNCHANGED Transfer!vars
<1>1. ASSUME UNCHANGED recvVars PROVE Out' = Out /\ r_done' = r_done /\ rexit' = rexit /\ r_cancel' = r_cancel
  BY <1>1 DEF recvVars, Out
<1>2. ASSUME Out' = Out, r_done' = r_done, rexit' = rexit, sexit' = sexit, NoCancel' = NoCancel
      PROVE  UNCHANGED Transfer!vars
  BY <1>2 DEF Transfer!vars
<1>3. ASSUME Out' = Out, r_done' = r_done, rexit' = rexit, sexit' = sexit, ~(NoCancel')
      PROVE  Transfer!Next
  <2>1. Transfer!Cancel
    BY <1>3 DEF Transfer!Cancel
  <2> QED BY <2>1 DEF Transfer!Next
<1>4. CASE SStays /\ s_cancel' = s_cancel /\ UNCHANGED recvVars
  <2>1. NoCancel' = NoCancel
    BY <1>1, <1>4 DEF NoCancel
  <2>2. CASE sexit' = sexit
    BY <1>1, <1>2, <1>4, <2>1, <2>2
  <2>3. CASE sexit' # sexit
    <3>1. sexit = "run" /\ sexit' \in SendExits
      BY <1>4, <2>3 DEF SStays, Correct, TypeOK, SendType
    <3>2. CASE sexit' = "SUCCESS"
      <4>1. rexit = "SUCCESS"
        BY <1>4, <3>1, <3>2 DEF SStays, Correct, Steps, Verdicts
      <4>2. Transfer!SenderSucceeds
        BY <1>1, <1>4, <2>1, <3>1, <3>2, <4>1 DEF Transfer!SenderSucceeds
      <4> QED BY <4>2 DEF Transfer!Next
    <3>3. CASE sexit' # "SUCCESS"
      <4>1. Transfer!Fail
        BY <1>1, <1>4, <2>1, <2>3, <3>1, <3>3 DEF Transfer!Fail, Transfer!Failures, SendExits
      <4> QED BY <4>1 DEF Transfer!Next
    <3> QED BY <3>2, <3>3
  <2> QED BY <2>2, <2>3
<1>5. CASE SStays /\ s_cancel' \in {1, 2} /\ sexit' = sexit /\ UNCHANGED recvVars
  <2>1. ~(NoCancel')
    BY <1>5 DEF NoCancel
  <2> QED BY <1>1, <1>3, <1>5, <2>1
<1>6. CASE (SMoves \/ SStart) /\ s_cancel' = s_cancel /\ UNCHANGED recvVars
  <2>1. sexit' = sexit
    BY <1>6 DEF SMoves, SStart, TxResults, Faithful
  <2>2. NoCancel' = NoCancel
    BY <1>1, <1>6 DEF NoCancel
  <2> QED BY <1>1, <1>2, <1>6, <2>1, <2>2
<1>7. CASE RStays /\ UNCHANGED sendVars /\ (r_cancel' = r_cancel \/ (r_cancel' \in {1, 2} /\ rexit' = rexit))
  <2>1. Out' = Out /\ r_done' = r_done /\ sexit' = sexit
    BY <1>7 DEF RStays, recvFile, sendVars, Out
  <2>2. CASE rexit' = rexit /\ r_cancel' = r_cancel
    <3>1. NoCancel' = NoCancel
      BY <1>7, <2>2 DEF NoCancel, sendVars
    <3> QED BY <1>2, <2>1, <2>2, <3>1
  <2>3. CASE rexit' = rexit /\ r_cancel' \in {1, 2}
    <3>1. ~(NoCancel')
      BY <2>3 DEF NoCancel
    <3> QED BY <1>3, <2>1, <2>3, <3>1
  <2>4. CASE rexit' # rexit /\ r_cancel' = r_cancel
    <3>1. NoCancel' = NoCancel
      BY <1>7, <2>4 DEF NoCancel, sendVars
    <3>2. Transfer!Fail
      BY <1>7, <2>1, <2>4, <3>1 DEF RStays, Transfer!Fail, Transfer!Failures
    <3> QED BY <3>2 DEF Transfer!Next
  <2> QED BY <1>7, <2>2, <2>3, <2>4
<1>8. CASE RTakes /\ r_cancel' = r_cancel /\ UNCHANGED sendVars
  <2>1. sexit' = sexit /\ NoCancel' = NoCancel /\ rexit = "run"
    BY <1>8 DEF sendVars, NoCancel, RTakes
  <2>2. CASE RFirstData(s_opkt) \/ RDataPkt(s_opkt)
    BY <1>8, <2>2, DataRefines
  <2>3. CASE REofPkt(s_opkt) \/ REmpty(s_opkt)
    BY <1>8, <2>3, EofRefines
  <2>4. CASE RInitPkt(s_opkt) \/ RFilePkt(s_opkt) \/ RAttrPkt(s_opkt)
    <3>1. /\ rst # "R_DATA" /\ rst' # "R_DATA" /\ rexit' = rexit
          /\ disk' = disk /\ r_done' = r_done
      BY <2>1, <2>4, RAckOk DEF RInitPkt, RFilePkt, RAttrPkt, recvFile, Faithful
    <3>2. Out' = Out
      BY <3>1 DEF Out
    <3> QED BY <1>2, <2>1, <3>1, <3>2
  <2>5. CASE RBreak(s_opkt)
    <3>1. /\ rst # "R_DATA" /\ rst' # "R_DATA" /\ rexit' = "SUCCESS"
          /\ disk' = disk /\ r_done' = r_done
      BY <2>1, <2>5, RAckOk DEF RBreak, recvFile, Faithful
    <3>2. Out' = Out
      BY <3>1 DEF Out
    <3>3. sst = "S_EOT"
      BY <2>5 DEF RBreak, Correct, Steps, SenderAt, TypeOK, SendType, SendStates
    <3>4. NoCancel => r_done = 1..NFiles
      BY <3>3 DEF Correct, Whole, AllSent, Steps, Received, Past
    <3>5. Transfer!ReceiverSucceeds
      BY <2>1, <3>1, <3>2, <3>4 DEF Transfer!ReceiverSucceeds, Transfer!Files
    <3> QED BY <3>5 DEF Transfer!Next
  <2> QED BY <1>8, <2>2, <2>3, <2>4, <2>5 DEF RTakes
<1> QED BY <1>4, <1>5, <1>6, <1>7, <1>8, NextMoves DEF Correct, Faithful, SStart

\* E-Kermit implements the transfer its users see, whatever the line does and
\* whoever cancels, as long as txd() and writefile() do not fail and no file is
\* announced as text.
THEOREM TransferImplemented == Faithful => (Spec => ImplementsTransfer)
<1> SUFFICES ASSUME Faithful PROVE Spec => ImplementsTransfer
  OBVIOUS
<1>1. Init => Transfer!Init
  <2> SUFFICES ASSUME Init PROVE Transfer!Init
    OBVIOUS
  <2>1. Out = [f \in Files |-> <<>>]
    BY DEF Init, RInit, Out
  <2>2. NoCancel
    BY DEF Init, SInit, RInit, NoCancel
  <2> QED BY <2>1, <2>2 DEF Init, SInit, RInit, Transfer!Init, Transfer!Files, Files
<1>2. Correct /\ Correct' /\ [Next]_vars => [Transfer!Next]_(Transfer!vars)
  BY NextRefines
<1>3. Spec => []Correct
  BY CorrectKept
<1> QED BY <1>1, <1>2, <1>3, PTL DEF Spec, ImplementsTransfer, Transfer!Spec

=============================================================================
