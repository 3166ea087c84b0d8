---------------------------- MODULE ZmodemProofs ----------------------------
(***************************************************************************)
(* For every number of files, blocks, faults, timeouts, aborted sessions   *)
(* and tries: what zmrx has written carries the date that lets the next    *)
(* session resume it, and is never thrown away then; it is the beginning   *)
(* of the file zmtx sends, and all of it when zmtx says so.                *)
(*                                                                         *)
(* The first half rests on what each program does by itself (IInv).  The   *)
(* second relates the two and the line between them (WInv): which items    *)
(* may be on the line at which point, in which order, and what each of     *)
(* them stands behind.                                                     *)
(***************************************************************************)
EXTENDS Zmodem, SequenceTheorems, TLAPS

\* What is on the line: a subpacket that is not damaged is about a file.
GoodItems == {m \in Items : m.typ \in {"ZCRCG", "ZCRCW"} => m.blk[1] \in Files}

Lines == toR \in Seq(GoodItems) /\ toS \in Seq(GoodItems)

\* zmtx and its place in the list of files.
SendShape ==
    /\ spc \in SendPlaces /\ stries \in 0..MaxTries
    /\ sfile \in 1..(NFiles + 1) /\ spos \in Nat /\ sbase \in Nat
    /\ sent \in [Files -> {"no", "sent", "skipped", "unopened"}]
    /\ spc \in {"zfile", "stream", "poll", "ack", "zeof"} => sfile \in Files

\* zmrx: it has a file open while it receives data, and only then.
RecvShape ==
    /\ rpc \in RecvPlaces /\ rtries \in 0..MaxTries
    /\ rfile \in 0..NFiles /\ rfp \in {"null", "open", "closed"} /\ mangled \in BOOLEAN
    /\ disc \in [Files -> Seq((0..NFiles) \X Nat)] /\ mtime \in [Files -> Dates]
    /\ rfp = "open" <=> rpc \in {"zdata", "data", "zeof"}
    /\ rfp = "open" => rfile \in Files

UserShape ==
    /\ faults \in 0..scene.faults /\ slow \in 0..scene.slow
    /\ scene \in Scenarios /\ aborts \in 0..scene.aborts /\ session \in 1..MaxSessions

\* A file zmrx has written to carries zmtx's date, or is the one that is open.
Dated ==
    \A f \in Files : \/ disc[f] \in {<<>>, Old(f)} \/ mtime[f] = "same"
                     \/ rfp = "open" /\ rfile = f

IInv == Lines /\ SendShape /\ RecvShape /\ UserShape /\ Dated

-----------------------------------------------------------------------------
(* Lines.                                                                   *)

LEMMA SeqFacts ==
    ASSUME NEW S, NEW line \in Seq(S)
    PROVE  /\ Len(line) \in Nat
           /\ line # <<>> => Head(line) \in S /\ Tail(line) \in Seq(S)
           /\ \A more \in Seq(S) : line \o more \in Seq(S)
           /\ \A k \in Nat \ {0} : SubSeq(line, k, Len(line)) \in Seq(S)
<1>1. ASSUME NEW k \in Nat \ {0} PROVE SubSeq(line, k, Len(line)) \in Seq(S)
  <2>1. Len(line) \in Int /\ k \in Int /\ \A i \in k..Len(line) : line[i] \in S
    BY LenProperties, ElementOfSeq
  <2>. QED BY <2>1, SubSeqProperties
<1>. QED BY <1>1, LenProperties, HeadTailProperties, ConcatProperties

LEMMA GoodHeader ==
    ASSUME NEW t \in HeaderTypes \cup {"bad", "noise", "OO"}, NEW n \in Nat
    PROVE  Header(t, n) \in GoodItems /\ <<Header(t, n)>> \in Seq(GoodItems)
<1>1. Header(t, n) \in GoodItems
  BY ZmAssumption DEF Header, GoodItems, Items, HeaderTypes, SubpacketTypes
<1>. QED BY <1>1

LEMMA GoodSubpacket ==
    ASSUME NEW t \in {"ZCRCG", "ZCRCW"}, NEW f \in Files, NEW n \in Nat
    PROVE  Subpacket(t, <<f, n>>) \in GoodItems /\ <<Subpacket(t, <<f, n>>)>> \in Seq(GoodItems)
<1>1. Subpacket(t, <<f, n>>) \in GoodItems
  BY ZmAssumption DEF Subpacket, GoodItems, Items, SubpacketTypes, Files
<1>. QED BY <1>1

LEMMA GoodTrash == Trash \in GoodItems /\ <<Trash>> \in Seq(GoodItems)
<1>1. Trash \in GoodItems
  BY ZmAssumption DEF Trash, Subpacket, GoodItems, Items, SubpacketTypes
<1>. QED BY <1>1

LEMMA Hit ==
    ASSUME NEW line \in Seq(GoodItems), line # <<>>, NEW new \in Hits(line)
    PROVE  new \in Seq(GoodItems)
<1>1. Tail(line) \in Seq(GoodItems) /\ SubSeq(line, 3, Len(line)) \in Seq(GoodItems)
  BY SeqFacts
<1>2. \A x, y \in Seq(GoodItems) : x \o y \in Seq(GoodItems)
  BY SeqFacts
<1>3. <<Header("bad", 0)>> \in Seq(GoodItems) /\ <<Header("noise", 0)>> \in Seq(GoodItems)
  BY GoodHeader
<1>4. CASE IsSubpacket(Head(line))
  BY <1>1, <1>2, <1>4, GoodTrash DEF Hits
<1>5. CASE ~IsSubpacket(Head(line))
  <2>1. PICK r \in {"bad", "noise"} : new = <<Header(r, 0)>> \o Tail(line)
    BY <1>5 DEF Hits
  <2>. QED BY <1>1, <1>2, <1>3, <2>1
<1>. QED BY <1>4, <1>5

LEMMA Purging ==
    ASSUME NEW line \in Seq(GoodItems), NEW peer, NEW new \in Purged(line, peer)
    PROVE  new \in Seq(GoodItems)
<1>1. Len(line) \in Nat /\ \A k \in 0..Len(line) : SubSeq(line, k + 1, Len(line)) \in Seq(GoodItems)
  BY SeqFacts
<1>2. CASE peer = "absent"
  BY <1>2 DEF Purged
<1>3. CASE peer # "absent"
  <2>1. PICK k \in 0..Len(line) : new = SubSeq(line, k + 1, Len(line))
    BY <1>3 DEF Purged
  <2>. QED BY <1>1, <2>1
<1>. QED BY <1>2, <1>3

\* The timer only counts.
LEMMA Timer ==
    ASSUME UserShape, NEW in, NEW out, NEW peer, TimesOut(in, out, peer)
    PROVE  slow' \in 0..scene.slow
<1>1. scene.slow \in Nat
  BY ZmAssumption DEF UserShape
<1>. QED BY <1>1 DEF TimesOut, UserShape

-----------------------------------------------------------------------------
(* zmtx.                                                                    *)

\* zmtx sends a header, or offers its file.
LEMMA Sending ==
    ASSUME Lines, SendShape
    PROVE  /\ \A t \in HeaderTypes \cup {"OO"}, n \in Nat :
                 SReply(<<Header(t, n)>>) => toR' \in Seq(GoodItems)
           /\ sfile \in Files /\ SReply(<<Header("ZFILE", 0), Subpacket("ZCRCW", <<sfile, 0>>)>>)
                 => toR' \in Seq(GoodItems)
           /\ \A t \in {"ZCRCG", "ZCRCW"}, n \in Nat :
                 sfile \in Files /\ SReply(<<Subpacket(t, <<sfile, n>>)>>) => toR' \in Seq(GoodItems)
<1>1. \A more \in Seq(GoodItems) : toR \o more \in Seq(GoodItems)
  BY SeqFacts DEF Lines
<1>2. ASSUME NEW t \in HeaderTypes \cup {"OO"}, NEW n \in Nat, SReply(<<Header(t, n)>>)
      PROVE  toR' \in Seq(GoodItems)
  BY <1>1, <1>2, GoodHeader DEF SReply
<1>3. ASSUME sfile \in Files, SReply(<<Header("ZFILE", 0), Subpacket("ZCRCW", <<sfile, 0>>)>>)
      PROVE  toR' \in Seq(GoodItems)
  <2>1. Header("ZFILE", 0) \in GoodItems /\ Subpacket("ZCRCW", <<sfile, 0>>) \in GoodItems
    BY <1>3, GoodHeader, GoodSubpacket DEF HeaderTypes
  <2>2. <<Header("ZFILE", 0), Subpacket("ZCRCW", <<sfile, 0>>)>> \in Seq(GoodItems)
    BY <2>1
  <2>. QED BY <1>1, <1>3, <2>2 DEF SReply
<1>4. ASSUME NEW t \in {"ZCRCG", "ZCRCW"}, NEW n \in Nat, sfile \in Files,
             SReply(<<Subpacket(t, <<sfile, n>>)>>)
      PROVE  toR' \in Seq(GoodItems)
  BY <1>1, <1>4, GoodSubpacket DEF SReply
<1>. QED BY <1>2, <1>3, <1>4

\* A header zmtx hears.
LEMMA SHearing ==
    ASSUME Lines, SHears
    PROVE  toS' \in Seq(GoodItems) /\ Head(toS).pos \in Nat /\ Head(toS).typ \in HeaderTypes
<1>1. Head(toS) \in GoodItems /\ toS' \in Seq(GoodItems)
  BY SeqFacts DEF Lines, SHears
<1>. QED BY <1>1 DEF GoodItems, Items, SHears, IsHeader

\* send_from(), the end of file frame, and what restarts them.
LEMMA Restarting ==
    ASSUME Lines, SendShape, sfile \in Files,
           \/ \E n \in Nat : SSendFrom(n)
           \/ SSendEof
    PROVE  /\ toR' \in Seq(GoodItems) /\ spc' \in {"stream", "zeof"} /\ spos' \in Nat /\ sbase' \in Nat
           /\ UNCHANGED <<sfile, sent>>
<1>1. ASSUME NEW n \in Nat, SSendFrom(n)
      PROVE  /\ toR' \in Seq(GoodItems) /\ spc' = "stream" /\ spos' \in Nat /\ sbase' \in Nat
             /\ UNCHANGED <<sfile, sent>>
  BY <1>1, Sending DEF SSendFrom, HeaderTypes
<1>2. ASSUME SSendEof
      PROVE  /\ toR' \in Seq(GoodItems) /\ spc' = "zeof" /\ spos' \in Nat /\ sbase' \in Nat
             /\ UNCHANGED <<sfile, sent>>
  <2>1. Size[sfile] \in Nat
    BY ZmAssumption DEF Files
  <2>. QED BY <1>2, <2>1, Sending DEF SSendEof, HeaderTypes, SendShape
<1>. QED BY <1>1, <1>2

LEMMA SendKeeps ==
    ASSUME Lines, SendShape, UserShape, NEW peer, SendNext(peer), scene' = scene
    PROVE  Lines' /\ SendShape' /\ slow' \in 0..scene.slow
<1>. USE DEF Lines, SendShape
<1>. slow \in 0..scene.slow
  BY DEF UserShape
<1>. MaxTries \in Nat \ {0} /\ NFiles \in Nat
  BY ZmAssumption
<1>1. CASE SStart(peer)
  <2>1. toS' \in Seq(GoodItems)
    BY <1>1, Purging DEF SStart
  <2>2. toR' \in Seq(GoodItems)
    BY <1>1, Sending DEF SStart, HeaderTypes
  <2>. QED BY <1>1, <2>1, <2>2 DEF SStart, SendPlaces
<1>2. CASE SContact(peer)
  <2>1. SInvite => /\ toR' \in Seq(GoodItems) /\ spc' \in {"contact", "exit"} /\ stries' \in 0..MaxTries
    BY <1>2, Sending DEF SInvite, SContact, HeaderTypes
  <2>2. toS' \in Seq(GoodItems) /\ slow' \in 0..scene.slow
    BY <1>2, SHearing, Timer DEF SContact
  <2>. QED BY <1>2, <2>1, <2>2 DEF SContact, SendPlaces
<1>3. CASE SOpen
  <2>1. scene.unopenable \subseteq Files
    BY ZmAssumption DEF UserShape, Files
  <2>2. toR' \in Seq(GoodItems)
    BY <1>3, Sending DEF SOpen, HeaderTypes
  <2>. QED BY <1>3, <2>1, <2>2, SMTT(30) DEF SOpen, SendPlaces, Files
<1>4. CASE SOffered(peer)
  <2>1. SOfferAgain => toR' \in Seq(GoodItems) /\ UNCHANGED <<spc, sfile, spos, sbase, sent>>
    BY <1>4, Sending DEF SOfferAgain, SOffered
  <2>2. toS' \in Seq(GoodItems) /\ slow' \in 0..scene.slow
    BY <1>4, SHearing, Timer DEF SOffered
  <2>3. sfile \in Files /\ spc = "zfile" /\ stries' = stries
    BY <1>4 DEF SOffered
  <2>4. SHears => \A n \in {Head(toS).pos} : SSendFrom(n) =>
              /\ toR' \in Seq(GoodItems) /\ spc' \in {"stream", "zeof"} /\ spos' \in Nat /\ sbase' \in Nat
              /\ UNCHANGED <<sfile, sent>>
    BY <2>3, SHearing, Restarting
  <2>5. \/ SOfferAgain
        \/ SHears /\ SSendFrom(Head(toS).pos)
        \/ UNCHANGED <<toR, spc, sfile, spos, sbase, sent>>
        \/ /\ spc' = "open" /\ sfile' \in {sfile + 1, NFiles + 1}
           /\ sent' = [sent EXCEPT ![sfile] = "skipped"] /\ UNCHANGED <<toR, spos, sbase>>
    BY <1>4 DEF SOffered
  <2>6. toR' \in Seq(GoodItems)
    BY <2>1, <2>4, <2>5
  <2>7. /\ spc' \in SendPlaces /\ sfile' \in 1..(NFiles + 1) /\ spos' \in Nat /\ sbase' \in Nat
        /\ spc' # "open" => sfile' \in Files
        /\ sent' = sent \/ sent' = [sent EXCEPT ![sfile] = "skipped"]
    BY <2>1, <2>3, <2>4, <2>5, SMTT(30) DEF SendPlaces, Files
  <2>8. sent' \in [Files -> {"no", "sent", "skipped", "unopened"}]
    BY <2>7
  <2>. QED BY <2>2, <2>3, <2>6, <2>7, <2>8
<1>5. CASE SBlock
  <2>1. sfile \in Files /\ Size[sfile] \in Nat
    BY <1>5, ZmAssumption DEF SBlock, Files
  <2>2. CASE spos < Size[sfile]
    <3>. DEFINE t == IF spos + 1 = Size[sfile] THEN "ZCRCW" ELSE "ZCRCG"
    <3>1. SReply(<<Subpacket(t, <<sfile, spos + 1>>)>>)
      BY <1>5, <2>2 DEF SBlock
    <3>2. t \in {"ZCRCG", "ZCRCW"} /\ spos + 1 \in Nat
      OBVIOUS
    <3>3. toR' \in Seq(GoodItems)
      <4>. HIDE DEF t
      <4>. QED BY <2>1, <3>1, <3>2, Sending
    <3>. QED BY <1>5, <2>1, <2>2, <3>3 DEF SBlock, SendPlaces
  <2>3. CASE ~(spos < Size[sfile])
    BY <1>5, <2>1, <2>3, Restarting DEF SBlock, SendPlaces
  <2>. QED BY <2>2, <2>3
<1>6. ASSUME NEW h, SRestart(h), h.pos \in Nat, sfile \in Files
      PROVE  /\ toR' \in Seq(GoodItems) /\ spc' \in {"stream", "zeof"} /\ spos' \in Nat /\ sbase' \in Nat
             /\ UNCHANGED <<sfile, sent>>
  BY <1>6, Restarting DEF SRestart
<1>7. CASE SPoll
  BY <1>6, <1>7, SHearing DEF SPoll, SendPlaces
<1>8. CASE SAck
  BY <1>6, <1>8, SHearing DEF SAck, SendPlaces
<1>9. CASE SEof(peer)
  <2>1. toS' \in Seq(GoodItems) /\ slow' \in 0..scene.slow /\ sfile \in Files /\ spc = "zeof"
    BY <1>9, SHearing, Timer DEF SEof
  <2>2. \/ SSendEof
        \/ /\ spc' = "open" /\ sfile' = sfile + 1 /\ sent' = [sent EXCEPT ![sfile] = "sent"]
           /\ UNCHANGED <<toR, spos, sbase>>
    BY <1>9 DEF SEof
  <2>3. stries' = stries
    BY <1>9 DEF SEof
  <2>. QED BY <2>1, <2>2, <2>3, Restarting, SMTT(30) DEF SendPlaces, Files
<1>10. CASE SFin(peer)
  <2>1. toS' \in Seq(GoodItems) /\ slow' \in 0..scene.slow
    BY <1>10, SHearing, Timer DEF SFin
  <2>2. toR' \in Seq(GoodItems)
    BY <1>10, Sending DEF SFin
  <2>. QED BY <1>10, <2>1, <2>2 DEF SFin, SendPlaces
<1>11. CASE SDrop
  <2>1. toS' \in Seq(GoodItems)
    BY <1>11, SeqFacts DEF SDrop
  <2>. QED BY <1>11, <2>1 DEF SDrop, sendVars
<1>. QED BY <1>1, <1>2, <1>3, <1>4, <1>5, <1>7, <1>8, <1>9, <1>10, <1>11 DEF SendNext

-----------------------------------------------------------------------------
(* zmrx.                                                                    *)

Blocks == (0..NFiles) \X Nat

\* A file with zmtx's date is only added to.
Added == \A f \in Files : mtime[f] = "same" => IsPrefix(disc[f], disc'[f])

LEMMA Extending ==
    ASSUME NEW s \in Seq(Blocks), NEW e \in Blocks
    PROVE  IsPrefix(s, s) /\ IsPrefix(s, Append(s, e)) /\ Append(s, e) \in Seq(Blocks)
<1>1. Append(s, e) \in Seq(Blocks) /\ Len(Append(s, e)) = Len(s) + 1 /\ Len(s) \in Nat
  OBVIOUS
<1>2. SubSeq(s, 1, Len(s)) = s
  BY SubSeqFull
<1>3. SubSeq(Append(s, e), 1, Len(s)) = s
  OBVIOUS
<1>. QED BY <1>1, <1>2, <1>3 DEF IsPrefix

\* What zmrx hears, and what it takes for a subpacket.
LEMMA RHearing ==
    ASSUME Lines, toR # <<>>, toR' = Tail(toR)
    PROVE  /\ toR' \in Seq(GoodItems) /\ Head(toR) \in GoodItems /\ Head(toR).blk \in Blocks
           /\ IsSubpacket(Head(toR)) /\ Head(toR).typ # "trash" => Head(toR).blk[1] \in Files
<1>1. toR' \in Seq(GoodItems) /\ Head(toR) \in GoodItems
  BY SeqFacts DEF Lines
<1>. QED BY <1>1 DEF GoodItems, Items, IsSubpacket, SubpacketTypes, Blocks

\* What zmrx says.
LEMMA Replying ==
    ASSUME Lines
    PROVE  /\ \A items \in Seq(GoodItems) : RReply(items) => toS' \in Seq(GoodItems)
           /\ ZRInit \in Seq(GoodItems)
           /\ \A x, y \in Seq(GoodItems) : x \o y \in Seq(GoodItems)
           /\ \A t \in HeaderTypes, n \in Nat : <<Header(t, n)>> \in Seq(GoodItems)
<1>1. \A x, y \in Seq(GoodItems) : x \o y \in Seq(GoodItems)
  BY SeqFacts
<1>2. \A t \in HeaderTypes, n \in Nat : <<Header(t, n)>> \in Seq(GoodItems)
  BY GoodHeader
<1>3. ZRInit \in Seq(GoodItems)
  BY <1>2 DEF ZRInit, HeaderTypes
<1>. QED BY <1>1, <1>2, <1>3 DEF RReply, Lines

\* zmrx ends: the open file gets its date.
LEMMA Ending ==
    ASSUME RecvShape, Dated, Cleanup, UNCHANGED <<rtries, rfile, mangled, disc>>
    PROVE  RecvShape' /\ Dated' /\ Added
<1>1. rpc' = "exit" /\ rfp' = "null" /\ mtime' \in [Files -> Dates]
      /\ \A f \in Files : mtime'[f] = mtime[f] \/ mtime'[f] = "same"
  BY DEF Cleanup, RecvShape, Dates
<1>2. rfp = "open" => mtime'[rfile] = "same"
  BY DEF Cleanup, RecvShape
<1>3. RecvShape'
  BY <1>1 DEF RecvShape, RecvPlaces
<1>4. Dated'
  BY <1>1, <1>2 DEF Dated, RecvShape, Old
<1>5. Added
  <2>1. \A f \in Files : disc[f] \in Seq(Blocks)
    BY DEF RecvShape, Blocks
  <2>2. <<0, 0>> \in Blocks
    BY ZmAssumption DEF Blocks
  <2>. QED BY <2>1, <2>2, Extending DEF Added
<1>. QED BY <1>3, <1>4, <1>5

\* Nothing is written, no date changes, and the file stays open or closed.
LEMMA Leaving ==
    ASSUME RecvShape, Dated, UNCHANGED <<disc, mtime>>,
           rpc' \in RecvPlaces, rtries' \in 0..MaxTries, mangled' \in BOOLEAN,
           rfile' \in 0..NFiles, rfp' \in {"null", "open", "closed"},
           rfp' = "open" <=> rpc' \in {"zdata", "data", "zeof"},
           rfp' = "open" => rfp = "open" /\ rfile' = rfile,
           rfp = "open" => rfp' = "open"
    PROVE  RecvShape' /\ Dated' /\ Added
<1>1. RecvShape'
  BY DEF RecvShape
<1>2. Dated'
  BY DEF Dated, Old
<1>3. Added
  <2>1. \A f \in Files : disc[f] \in Seq(Blocks)
    BY DEF RecvShape, Blocks
  <2>2. <<0, 0>> \in Blocks
    BY ZmAssumption DEF Blocks
  <2>. QED BY <2>1, <2>2, Extending DEF Added
<1>. QED BY <1>1, <1>2, <1>3

\* The while loop of receive_file() asks for the rest.
LEMMA Asking ==
    ASSUME Lines, NEW f \in Files, NEW blocks \in Seq(Blocks), NEW items \in Seq(GoodItems),
           RAskFor(f, blocks, items)
    PROVE  toS' \in Seq(GoodItems) /\ rpc' \in {"zdata", "zeof"}
<1>1. Len(blocks) \in Nat
  OBVIOUS
<1>2. <<Header("ZRPOS", Len(blocks))>> \in Seq(GoodItems)
  BY <1>1, Replying DEF HeaderTypes
<1>3. items \o <<Header("ZRPOS", Len(blocks))>> \in Seq(GoodItems)
  BY <1>2, Replying
<1>. QED BY <1>3, Replying DEF RAskFor

\* receive_file() gives up.
LEMMA GivingUp ==
    ASSUME Lines, NEW items \in Seq(GoodItems), RGivesUp(items)
    PROVE  toS' \in Seq(GoodItems) /\ rpc' = "idle" /\ UNCHANGED <<disc, mtime>>
<1>1. items \o ZRInit \in Seq(GoodItems)
  BY Replying
<1>. QED BY <1>1, Replying DEF RGivesUp

\* The switch of main().
LEMMA Dispatching ==
    ASSUME Lines, RecvShape, NEW t, RDispatch(t)
    PROVE  toS' \in Seq(GoodItems) /\ rpc' \in {"info", "idle"} /\ mangled' \in BOOLEAN
<1>1. <<Header("ZCOMPL", 0)>> \o ZRInit \in Seq(GoodItems)
  BY Replying DEF HeaderTypes
<1>. QED BY <1>1, Replying DEF RDispatch, Lines, RecvShape

\* A file is opened: a new one is empty, one with zmtx's date is left as it is.
LEMMA Opening ==
    ASSUME Lines, RecvShape, Dated, rfp # "open", NEW f \in Files, NEW ack \in Seq(GoodItems),
           rtries' = rtries, mangled' = FALSE, rfile' = f, ROpens(f, ack)
    PROVE  RecvShape' /\ Dated' /\ Added /\ toS' \in Seq(GoodItems)
<1>. f \in 0..NFiles
  BY ZmAssumption DEF Files
<1>1. CASE f \in scene.readonly
  <2>1. ack \o <<Header("ZSKIP", 0)>> \in Seq(GoodItems)
    BY Replying DEF HeaderTypes
  <2>2. RGivesUp(ack \o <<Header("ZSKIP", 0)>>) /\ rfp' = "null"
    BY <1>1 DEF ROpens
  <2>3. toS' \in Seq(GoodItems) /\ rpc' = "idle" /\ UNCHANGED <<disc, mtime>>
    BY <2>1, <2>2, GivingUp
  <2>. QED BY <2>2, <2>3, Leaving DEF RecvShape, RecvPlaces
<1>2. CASE f \notin scene.readonly
  <2>1. /\ rfp' = "open"
        /\ disc' = [disc EXCEPT ![f] = IF mtime[f] = "same" THEN disc[f] ELSE <<>>]
        /\ mtime' = [mtime EXCEPT ![f] = IF mtime[f] = "same" THEN mtime[f] ELSE "newer"]
        /\ RAskFor(f, disc'[f], ack)
    BY <1>2 DEF ROpens
  <2>2. disc \in [Files -> Seq(Blocks)] /\ mtime \in [Files -> Dates] /\ <<>> \in Seq(Blocks)
    BY DEF RecvShape, Blocks
  <2>3. disc' \in [Files -> Seq(Blocks)] /\ mtime' \in [Files -> Dates]
    BY <2>1, <2>2 DEF Dates
  <2>4. disc'[f] \in Seq(Blocks)
    BY <2>3
  <2>5. toS' \in Seq(GoodItems) /\ rpc' \in {"zdata", "zeof"}
    BY <2>1, <2>4, Asking
  <2>6. RecvShape'
    BY <2>1, <2>3, <2>5 DEF RecvShape, RecvPlaces, Blocks
  <2>7. \A g \in Files \ {f} : disc'[g] = disc[g] /\ mtime'[g] = mtime[g]
    BY <2>1, <2>2
  <2>8. Dated'
    BY <2>1, <2>7 DEF Dated, Old
  <2>9. Added
    <3>1. \A g \in Files : mtime[g] = "same" => disc'[g] = disc[g]
      BY <2>1, <2>2
    <3>2. <<0, 0>> \in Blocks
      BY ZmAssumption DEF Blocks
    <3>. QED BY <2>2, <3>1, <3>2, Extending DEF Added
  <2>. QED BY <2>5, <2>6, <2>8, <2>9
<1>. QED BY <1>1, <1>2

\* A block is written to the open file.
LEMMA Writing ==
    ASSUME RecvShape, Dated, rfp = "open", NEW b \in Blocks,
           disc' = [disc EXCEPT ![rfile] = Append(disc[rfile], b)],
           mtime' = [mtime EXCEPT ![rfile] = "newer"],
           rpc' \in {"zdata", "data", "zeof"}, mangled' = FALSE,
           UNCHANGED <<rtries, rfile, rfp>>
    PROVE  RecvShape' /\ Dated' /\ Added
<1>1. rfile \in Files /\ disc \in [Files -> Seq(Blocks)] /\ mtime \in [Files -> Dates]
  BY DEF RecvShape, Blocks
<1>2. disc[rfile] \in Seq(Blocks)
  BY <1>1
<1>3. Append(disc[rfile], b) \in Seq(Blocks)
  BY <1>2, Extending
<1>4. disc' \in [Files -> Seq(Blocks)] /\ mtime' \in [Files -> Dates]
  BY <1>1, <1>3 DEF Dates
<1>5. \A g \in Files \ {rfile} : disc'[g] = disc[g] /\ mtime'[g] = mtime[g]
  BY <1>1
<1>6. RecvShape'
  BY <1>4 DEF RecvShape, RecvPlaces, Blocks
<1>7. Dated'
  BY <1>5 DEF Dated, Old
<1>8. Added
  <2>1. disc'[rfile] = Append(disc[rfile], b)
    BY <1>1
  <2>. QED BY <1>1, <1>5, <2>1, Extending DEF Added
<1>. QED BY <1>6, <1>7, <1>8

LEMMA RecvKeeps ==
    ASSUME Lines, RecvShape, Dated, UserShape, NEW peer, RecvNext(peer), scene' = scene
    PROVE  Lines' /\ RecvShape' /\ Dated' /\ Added /\ slow' \in 0..scene.slow
<1>. DEFINE Goal == Lines' /\ RecvShape' /\ Dated' /\ Added /\ slow' \in 0..scene.slow
<1>. slow \in 0..scene.slow
  BY DEF UserShape
<1>. MaxTries \in Nat \ {0} /\ NFiles \in Nat
  BY ZmAssumption
<1>. toR \in Seq(GoodItems) /\ toS \in Seq(GoodItems)
  BY DEF Lines
<1>1. CASE RStart(peer)
  <2>1. toR' \in Seq(GoodItems)
    BY <1>1, Purging DEF RStart
  <2>2. toS' \in Seq(GoodItems)
    BY <1>1, Replying DEF RStart
  <2>3. RecvShape' /\ Dated' /\ Added
    BY <1>1, Leaving DEF RStart, RecvShape, RecvPlaces
  <2>4. slow' = slow
    BY <1>1 DEF RStart
  <2>. QED BY <2>1, <2>2, <2>3, <2>4 DEF Lines
<1>2. CASE RContact(peer)
  <2>1. rpc = "contact" /\ rfp # "open" /\ UNCHANGED <<rfile, disc>>
    BY <1>2 DEF RContact, RecvShape
  <2>2. toR' \in Seq(GoodItems) /\ slow' \in 0..scene.slow
    BY <1>2, RHearing, Timer DEF RContact, RHears
  <2>3. \/ RInvite
        \/ \E t : RDispatch(t) /\ UNCHANGED <<rtries, rfp, mtime>>
    BY <1>2 DEF RContact
  <2>4. ASSUME NEW t, RDispatch(t), UNCHANGED <<rtries, rfp, mtime>>
        PROVE  RecvShape' /\ Dated' /\ Added /\ toS' \in Seq(GoodItems)
    <3>1. toS' \in Seq(GoodItems) /\ rpc' \in {"info", "idle"} /\ mangled' \in BOOLEAN
      BY <2>4, Dispatching
    <3>. QED BY <2>1, <2>4, <3>1, Leaving DEF RecvShape, RecvPlaces
  <2>5. CASE rtries >= MaxTries /\ Cleanup /\ UNCHANGED <<toS, rtries, mangled>>
    BY <2>1, <2>2, <2>5, Ending DEF Lines
  <2>6. CASE /\ rtries < MaxTries
             /\ RReply(ZRInit) /\ rtries' = rtries + 1 /\ UNCHANGED <<rpc, rfp, mangled, mtime>>
    <3>1. toS' \in Seq(GoodItems)
      BY <2>6, Replying
    <3>2. rtries' \in 0..MaxTries
      BY <2>6 DEF RecvShape
    <3>3. RecvShape' /\ Dated' /\ Added
      BY <2>1, <2>6, <3>2, Leaving DEF RecvShape
    <3>. QED BY <2>2, <3>1, <3>3 DEF Lines
  <2>7. RInvite => Goal
    BY <2>5, <2>6 DEF RInvite, RecvShape
  <2>. QED BY <2>2, <2>3, <2>4, <2>7 DEF Lines
<1>3. CASE RIdle(peer)
  <2>1. rpc = "idle" /\ rfp # "open" /\ UNCHANGED <<rtries, rfile, rfp, disc, mtime>>
    BY <1>3 DEF RIdle, RecvShape
  <2>2. toR' \in Seq(GoodItems) /\ slow' \in 0..scene.slow
    BY <1>3, RHearing, Timer DEF RIdle, RHears
  <2>3. <<Header("ZFIN", 0)>> \in Seq(GoodItems)
    BY Replying DEF HeaderTypes
  <2>4. toS' \in Seq(GoodItems) /\ rpc' \in {"oo", "info", "idle"} /\ mangled' \in BOOLEAN
    <3>1. \/ rpc' = "oo" /\ RReply(<<Header("ZFIN", 0)>>) /\ UNCHANGED mangled
          \/ \E t : RDispatch(t)
          \/ RReply(ZRInit) /\ UNCHANGED <<rpc, mangled>>
      BY <1>3 DEF RIdle
    <3>. QED BY <2>1, <2>3, <3>1, Replying, Dispatching DEF RecvShape
  <2>5. RecvShape' /\ Dated' /\ Added
    BY <2>1, <2>4, Leaving DEF RecvShape, RecvPlaces
  <2>. QED BY <2>2, <2>4, <2>5 DEF Lines
<1>4. CASE ROverAndOut(peer)
  <2>1. rpc = "oo" /\ rfp # "open" /\ UNCHANGED <<toS, rtries, rfile, mangled, disc>>
    BY <1>4 DEF ROverAndOut, RecvShape
  <2>2. toR' \in Seq(GoodItems) /\ slow' \in 0..scene.slow
    BY <1>4, RHearing, Timer DEF ROverAndOut
  <2>3. Cleanup \/ UNCHANGED <<rpc, rfp, mtime>>
    BY <1>4 DEF ROverAndOut
  <2>4. CASE UNCHANGED <<rpc, rfp, mtime>>
    BY <2>1, <2>2, <2>4, Leaving DEF Lines, RecvShape
  <2>5. CASE Cleanup
    BY <2>1, <2>2, <2>5, Ending DEF Lines
  <2>. QED BY <2>3, <2>4, <2>5
<1>5. CASE RInfo(peer)
  <2>. DEFINE f == Head(toR).blk[1]
              ack == <<Header("ZACK", 0)>>
  <2>1. rpc = "info" /\ rfp # "open" /\ rtries' = rtries
    BY <1>5 DEF RInfo, RecvShape
  <2>2. /\ ack \in Seq(GoodItems) /\ <<Header("ZNAK", 0)>> \in Seq(GoodItems)
        /\ ack \o <<Header("ZSKIP", 0)>> \in Seq(GoodItems) /\ <<>> \in Seq(GoodItems)
    BY Replying DEF HeaderTypes
  <2>3. toR' \in Seq(GoodItems) /\ slow' \in 0..scene.slow
    BY <1>5, RHearing, Timer DEF RInfo
  <2>4. CASE RGivesUp(<<>>) /\ UNCHANGED <<rfile, rfp, mangled>>
    <3>1. toS' \in Seq(GoodItems) /\ rpc' = "idle" /\ UNCHANGED <<disc, mtime>>
      BY <2>2, <2>4, GivingUp
    <3>2. RecvShape' /\ Dated' /\ Added
      BY <2>1, <2>4, <3>1, Leaving DEF RecvShape, RecvPlaces
    <3>. QED BY <2>3, <3>1, <3>2 DEF Lines
  <2>5. CASE RGivesUp(<<Header("ZNAK", 0)>>) /\ UNCHANGED <<rfile, rfp>> /\ mangled' = FALSE
    <3>1. toS' \in Seq(GoodItems) /\ rpc' = "idle" /\ UNCHANGED <<disc, mtime>>
      BY <2>2, <2>5, GivingUp
    <3>2. RecvShape' /\ Dated' /\ Added
      BY <2>1, <2>5, <3>1, Leaving DEF RecvShape, RecvPlaces
    <3>. QED BY <2>3, <3>1, <3>2 DEF Lines
  <2>6. CASE /\ f \in Files /\ rfile' = f /\ mangled' = FALSE
             /\ RGivesUp(ack \o <<Header("ZSKIP", 0)>>) /\ rfp' = "closed"
    <3>1. toS' \in Seq(GoodItems) /\ rpc' = "idle" /\ UNCHANGED <<disc, mtime>>
      BY <2>2, <2>6, GivingUp
    <3>2. rfile' \in 0..NFiles
      BY <2>6 DEF Files
    <3>3. RecvShape' /\ Dated' /\ Added
      BY <2>1, <2>6, <3>1, <3>2, Leaving DEF RecvShape, RecvPlaces
    <3>. QED BY <2>3, <3>1, <3>3 DEF Lines
  <2>7. CASE f \in Files /\ rfile' = f /\ mangled' = FALSE /\ ROpens(f, ack)
    <3>. HIDE DEF f, ack
    <3>1. RecvShape' /\ Dated' /\ Added /\ toS' \in Seq(GoodItems)
      BY <2>1, <2>2, <2>7, Opening
    <3>. QED BY <2>3, <3>1 DEF Lines
  <2>8. \/ RGivesUp(<<>>) /\ UNCHANGED <<rfile, rfp, mangled>>
        \/ RGivesUp(<<Header("ZNAK", 0)>>) /\ UNCHANGED <<rfile, rfp>> /\ mangled' = FALSE
        \/ /\ f \in Files /\ rfile' = f /\ mangled' = FALSE
           /\ RGivesUp(ack \o <<Header("ZSKIP", 0)>>) /\ rfp' = "closed"
        \/ f \in Files /\ rfile' = f /\ mangled' = FALSE /\ ROpens(f, ack)
    BY <1>5, RHearing DEF RInfo
  <2>. QED BY <2>4, <2>5, <2>6, <2>7, <2>8
<1>6. rfp = "open" => rfile \in Files /\ disc[rfile] \in Seq(Blocks) /\ <<>> \in Seq(GoodItems)
  BY EmptySeq DEF RecvShape, Blocks
<1>7. CASE RData(peer)
  <2>1. rpc = "zdata" /\ rfp = "open" /\ UNCHANGED <<rtries, rfile, rfp, disc, mtime>>
    BY <1>7 DEF RData, RecvShape
  <2>2. toR' \in Seq(GoodItems) /\ slow' \in 0..scene.slow
    BY <1>7, RHearing, Timer DEF RData, RHears
  <2>3. \/ toS' = toS /\ rpc' = "data" /\ mangled' = FALSE
        \/ UNCHANGED <<toS, rpc, mangled>>
        \/ RAskFor(rfile, disc[rfile], <<>>) /\ UNCHANGED mangled
    BY <1>7 DEF RData
  <2>4. RAskFor(rfile, disc[rfile], <<>>) => toS' \in Seq(GoodItems) /\ rpc' \in {"zdata", "zeof"}
    BY <1>6, <2>1, Asking
  <2>5. toS' \in Seq(GoodItems) /\ rpc' \in {"zdata", "data", "zeof"} /\ mangled' \in BOOLEAN
    BY <2>1, <2>3, <2>4 DEF RecvShape
  <2>6. RecvShape' /\ Dated' /\ Added
    BY <2>1, <2>5, Leaving DEF RecvShape, RecvPlaces
  <2>. QED BY <2>2, <2>5, <2>6 DEF Lines
<1>8. CASE RSubpacket(peer)
  <2>. DEFINE m == Head(toR)
  <2>1. rpc = "data" /\ rfp = "open" /\ UNCHANGED <<rtries, rfile, rfp>>
    BY <1>8 DEF RSubpacket, RecvShape
  <2>2. toR' \in Seq(GoodItems) /\ slow' \in 0..scene.slow
    BY <1>8, RHearing, Timer DEF RSubpacket
  <2>3. CASE /\ RAskFor(rfile, disc[rfile], <<>>) /\ UNCHANGED <<disc, mtime>>
             /\ mangled' \in {FALSE, mangled}
    <3>1. toS' \in Seq(GoodItems) /\ rpc' \in {"zdata", "zeof"}
      BY <1>6, <2>1, <2>3, Asking
    <3>2. RecvShape' /\ Dated' /\ Added
      BY <2>1, <2>3, <3>1, Leaving DEF RecvShape, RecvPlaces
    <3>. QED BY <2>2, <3>1, <3>2 DEF Lines
  <2>4. CASE /\ m.blk \in Blocks /\ mangled' = FALSE
             /\ disc' = [disc EXCEPT ![rfile] = Append(disc[rfile], m.blk)]
             /\ mtime' = [mtime EXCEPT ![rfile] = "newer"]
             /\ \/ UNCHANGED <<toS, rpc>>
                \/ RAskFor(rfile, Append(disc[rfile], m.blk), <<Header("ZACK", 0)>>)
    <3>. HIDE DEF m
    <3>1. Append(disc[rfile], m.blk) \in Seq(Blocks) /\ <<Header("ZACK", 0)>> \in Seq(GoodItems)
      BY <1>6, <2>1, <2>4, Extending, Replying DEF HeaderTypes
    <3>2. toS' \in Seq(GoodItems) /\ rpc' \in {"zdata", "data", "zeof"}
      BY <1>6, <2>1, <2>4, <3>1, Asking
    <3>3. RecvShape' /\ Dated' /\ Added
      BY <2>1, <2>4, <3>2, Writing
    <3>. QED BY <2>2, <3>2, <3>3 DEF Lines
  <2>5. toR # <<>> /\ toR' = Tail(toR) => m.blk \in Blocks
    BY RHearing
  <2>. QED BY <1>8, <2>3, <2>4, <2>5 DEF RSubpacket
<1>9. CASE RSwallow
  <2>1. toR' \in Seq(GoodItems) /\ UNCHANGED <<toS, slow>>
    BY <1>9, RHearing DEF RSwallow
  <2>2. RecvShape' /\ Dated' /\ Added
    BY <1>9, Leaving DEF RSwallow, RecvShape
  <2>. QED BY <2>1, <2>2 DEF Lines
<1>10. CASE REof
  <2>1. /\ rpc = "zeof" /\ rfp = "open" /\ rfile \in Files
        /\ UNCHANGED <<slow, rtries, rfile, mangled, disc>>
    BY <1>10 DEF REof, RecvShape
  <2>2. toR' \in Seq(GoodItems)
    BY <1>10, RHearing DEF REof
  <2>3. CASE /\ rpc' = "idle" /\ RReply(ZRInit)
             /\ rfp' = "null" /\ mtime' = [mtime EXCEPT ![rfile] = "same"]
    <3>1. toS' \in Seq(GoodItems)
      BY <2>3, Replying
    <3>2. RecvShape'
      BY <2>1, <2>3 DEF RecvShape, RecvPlaces, Dates
    <3>3. Dated'
      BY <2>1, <2>3 DEF Dated, RecvShape, Old
    <3>4. Added
      <4>1. <<0, 0>> \in Blocks /\ \A g \in Files : disc[g] \in Seq(Blocks)
        BY DEF RecvShape, Blocks
      <4>. QED BY <2>1, <4>1, Extending DEF Added
    <3>. QED BY <2>1, <2>2, <3>1, <3>2, <3>3, <3>4 DEF Lines
  <2>4. CASE /\ toS' = toS \/ RReply(<<Header("ZNAK", 0)>>)
             /\ UNCHANGED <<rpc, rfp, mtime>>
    <3>1. <<Header("ZNAK", 0)>> \in Seq(GoodItems)
      BY Replying DEF HeaderTypes
    <3>2. toS' \in Seq(GoodItems)
      BY <2>4, <3>1, Replying
    <3>3. RecvShape' /\ Dated' /\ Added
      BY <2>1, <2>4, Leaving DEF RecvShape
    <3>. QED BY <2>1, <2>2, <3>2, <3>3 DEF Lines
  <2>. QED BY <1>10, <2>3, <2>4 DEF REof
<1>11. CASE RDrop
  <2>1. toR' \in Seq(GoodItems) /\ UNCHANGED <<toS, slow, recvVars>>
    BY <1>11, RHearing DEF RDrop
  <2>2. RecvShape' /\ Dated' /\ Added
    BY <2>1, Leaving DEF recvVars, RecvShape
  <2>. QED BY <2>1, <2>2 DEF Lines
<1>. QED BY <1>1, <1>2, <1>3, <1>4, <1>5, <1>7, <1>8, <1>9, <1>10, <1>11 DEF RecvNext

-----------------------------------------------------------------------------
(* The session.                                                             *)

LEMMA NextKeeps ==
    ASSUME IInv, Next
    PROVE  IInv' /\ Added
<1>. USE DEF IInv
<1>1. CASE SendStep
  <2>1. SendNext(RStands) /\ UNCHANGED <<faults, recvVars, userVars>>
    BY <1>1 DEF SendStep
  <2>2. Lines' /\ SendShape' /\ slow' \in 0..scene.slow
    BY <2>1, SendKeeps DEF userVars
  <2>3. RecvShape' /\ Dated' /\ Added
    BY <2>1, Leaving DEF recvVars, RecvShape
  <2>. QED BY <2>1, <2>2, <2>3 DEF UserShape, userVars
<1>2. CASE RecvStep
  <2>1. RecvNext(SStands) /\ UNCHANGED <<faults, sendVars, userVars>>
    BY <1>2 DEF RecvStep
  <2>2. Lines' /\ RecvShape' /\ Dated' /\ Added /\ slow' \in 0..scene.slow
    BY <2>1, RecvKeeps DEF userVars
  <2>3. SendShape'
    BY <2>1 DEF SendShape, sendVars
  <2>. QED BY <2>1, <2>2, <2>3 DEF UserShape, userVars
<1>3. CASE (LineFault \/ Drain) /\ UNCHANGED <<sendVars, recvVars, userVars>>
  <2>1. Lines'
    BY <1>3, Hit, SeqFacts DEF LineFault, Drain, Lines
  <2>2. faults' \in 0..scene.faults /\ slow' = slow
    <3>1. scene.faults \in Nat
      BY ZmAssumption DEF UserShape
    <3>. QED BY <1>3, <3>1 DEF LineFault, Drain, UserShape
  <2>3. SendShape'
    BY <1>3 DEF SendShape, sendVars
  <2>4. RecvShape' /\ Dated' /\ Added
    BY <1>3, Leaving DEF recvVars, RecvShape
  <2>. QED BY <1>3, <2>1, <2>2, <2>3, <2>4 DEF UserShape, userVars
<1>4. CASE Abort
  <2>1. RecvShape' /\ Dated' /\ Added
    BY <1>4, Ending DEF Abort
  <2>2. Lines' /\ SendShape'
    BY <1>4 DEF Abort, lineVars, Lines, SendShape, SendPlaces
  <2>3. aborts' \in 0..scene.aborts
    <3>1. scene.aborts \in Nat
      BY ZmAssumption DEF UserShape
    <3>. QED BY <1>4, <3>1 DEF Abort, UserShape
  <2>. QED BY <1>4, <2>1, <2>2, <2>3 DEF UserShape, Abort, lineVars
<1>5. CASE Again
  <2>1. rpc = "exit" /\ rfp # "open"
    BY <1>5 DEF Again, BothExit, RecvShape
  <2>2. RecvShape' /\ Dated' /\ Added
    <3>1. /\ rpc' = "start" /\ rtries' = 0 /\ rfile' = 0 /\ rfp' = "null" /\ mangled' = FALSE
          /\ UNCHANGED <<disc, mtime>>
      BY <1>5 DEF Again
    <3>2. 0 \in 0..MaxTries /\ 0 \in 0..NFiles
      BY ZmAssumption
    <3>. QED BY <2>1, <3>1, <3>2, Leaving DEF RecvPlaces
  <2>3. Lines' /\ SendShape'
    BY <1>5, EmptySeq, ZmAssumption DEF Again, Lines, SendShape, SendPlaces
  <2>4. session' \in 1..MaxSessions
    BY <1>5, SessionsAssumption DEF Again, UserShape
  <2>. QED BY <1>5, <2>2, <2>3, <2>4 DEF UserShape, Again
<1>. QED BY <1>1, <1>2, <1>3, <1>4, <1>5 DEF Next

LEMMA StutterKeeps ==
    ASSUME IInv, UNCHANGED vars
    PROVE  IInv' /\ Added
<1>1. RecvShape' /\ Dated' /\ Added
  BY Leaving DEF IInv, RecvShape, vars, recvVars
<1>. QED BY <1>1 DEF IInv, vars, lineVars, sendVars, recvVars, userVars, Lines, SendShape, UserShape

LEMMA InitHolds == Init => IInv
<1>. SUFFICES ASSUME Init PROVE IInv
  OBVIOUS
<1>. USE DEF Init
<1>1. /\ scene.faults \in Nat /\ scene.slow \in Nat /\ scene.aborts \in Nat
      /\ MaxTries \in Nat /\ NFiles \in Nat /\ MaxSessions \in Nat \ {0}
  BY ZmAssumption, SessionsAssumption
<1>2. Lines
  BY EmptySeq DEF Lines
<1>3. SendShape
  BY <1>1 DEF SInit, SendShape, SendPlaces
<1>4. \A f \in Files : Old(f) \in Seq(Blocks) /\ <<>> \in Seq(Blocks)
  BY <1>1 DEF Old, Blocks, Files
<1>5. disc \in [Files -> Seq(Blocks)]
  BY <1>4
<1>6. RecvShape
  <2>1. mtime \in [Files -> Dates]
    BY DEF Dates
  <2>2. rpc = "start" /\ rtries = 0 /\ rfile = 0 /\ rfp = "null"
    BY DEF RInit
  <2>3. mangled \in BOOLEAN
    BY DEF RInit
  <2>. HIDE DEF Init
  <2>. QED BY <1>1, <1>5, <2>1, <2>2, <2>3 DEF RecvShape, RecvPlaces, Blocks
<1>7. UserShape
  BY <1>1 DEF UserShape
<1>8. Dated
  BY DEF Dated, Old
<1>. QED BY <1>2, <1>3, <1>6, <1>7, <1>8 DEF IInv

LEMMA Invariance == Spec => []IInv
<1>1. IInv /\ [Next]_vars => IInv'
  BY NextKeeps, StutterKeeps
<1>. QED BY <1>1, InitHolds, PTL DEF Spec

\* All variables keep their types, and what travels is well formed.
THEOREM TypesKept == Spec => []TypeOK
<1>1. IInv => TypeOK
  <2>1. GoodItems \subseteq Items
    BY DEF GoodItems
  <2>. QED BY <2>1, SeqMonotonic DEF IInv, TypeOK, Lines, SendShape, RecvShape, UserShape
<1>. QED BY <1>1, Invariance, PTL

\* When both programs have ended, aborted or not, every file zmrx wrote to
\* carries zmtx's date: cleanup() and receive_file() between them miss none.
THEOREM InterruptedIsResumable == Spec => []Resumable
<1>1. IInv => Resumable
  BY DEF IInv, Resumable, BothExit, RecvShape, Dated
<1>. QED BY <1>1, Invariance, PTL

\* No step of any session shortens or changes a file that carries that date.
THEOREM ReceivedIsKept == Spec => NothingLost
<1>1. IInv /\ [Next]_vars => [Added]_vars
  BY NextKeeps
<1>. QED BY <1>1, Invariance, PTL DEF Spec, NothingLost, Added

-----------------------------------------------------------------------------
(* What is on the line, and in which order.  A fault, a purge or a program  *)
(* that takes an item leaves fewer items and some ruined ones, in the order *)
(* they were in.                                                            *)

Ruins == {"bad", "noise", "trash"}

Of(types) == {m \in Items : m.typ \in types}

\* All but these types, and but what is ruined.
Unlike(types) == {m \in Items : m.typ \notin types \cup Ruins}

\* The subpackets with a file's name and those with its blocks.
Infos == {m \in Items : m.typ \in {"ZCRCG", "ZCRCW"} /\ m.blk[2] = 0}
Datas == {m \in Items : m.typ \in {"ZCRCG", "ZCRCW"} /\ m.blk[2] # 0}

Without(line, B) == \A i \in 1..Len(line) : line[i] \notin B

\* Nothing of B is behind something of A.
Behind(line, A, B) == \A i, j \in 1..Len(line) : i < j /\ line[i] \in A => line[j] \notin B

\* What new has of line.
Less(new, line) ==
    /\ \A i \in 1..Len(new) : new[i].typ \in Ruins \/ \E p \in 1..Len(line) : line[p] = new[i]
    /\ \A i, j \in 1..Len(new) :
          i < j => \/ new[i].typ \in Ruins \/ new[j].typ \in Ruins
                   \/ \E p, q \in 1..Len(line) : p < q /\ line[p] = new[i] /\ line[q] = new[j]

\* No item of B is ruined.
Sound(B) == \A m \in B : m.typ \notin Ruins

LEMMA SoundSets ==
    /\ \A types : types \cap Ruins = {} => Sound(Of(types))
    /\ \A types : Sound(Unlike(types))
    /\ Sound(Infos) /\ Sound(Datas)
    /\ \A B, C : Sound(B) /\ C \subseteq B => Sound(C)
<1>1. Sound(Infos) /\ Sound(Datas)
  BY DEF Sound, Infos, Datas, Ruins
<1>2. \A types : types \cap Ruins = {} => Sound(Of(types))
  BY DEF Sound, Of
<1>. QED BY <1>1, <1>2 DEF Sound, Unlike

LEMMA LessWithout ==
    ASSUME NEW new, NEW line, Less(new, line), NEW B, Sound(B), Without(line, B)
    PROVE  Without(new, B)
BY DEF Less, Without, Sound

LEMMA LessBehind ==
    ASSUME NEW new, NEW line, Less(new, line), NEW A, NEW B, Sound(A), Sound(B), Behind(line, A, B)
    PROVE  Behind(new, A, B)
<1>. SUFFICES ASSUME NEW i \in 1..Len(new), NEW j \in 1..Len(new), i < j, new[i] \in A, new[j] \in B
              PROVE  FALSE
  BY DEF Behind
<1>1. new[i].typ \notin Ruins /\ new[j].typ \notin Ruins
  BY DEF Sound
<1>2. PICK p \in 1..Len(line), q \in 1..Len(line) : p < q /\ line[p] = new[i] /\ line[q] = new[j]
  BY <1>1 DEF Less
<1>. QED BY <1>2 DEF Behind

LEMMA LessSame == ASSUME NEW line PROVE Less(line, line)
BY DEF Less

\* The items from the k-th on.
LEMMA LessRest ==
    ASSUME NEW line \in Seq(GoodItems), NEW k \in Nat \ {0}
    PROVE  Less(SubSeq(line, k, Len(line)), line)
<1>. DEFINE new == SubSeq(line, k, Len(line))
<1>1. Len(line) \in Nat /\ Len(line) \in Int /\ k \in Int /\ \A i \in k..Len(line) : line[i] \in GoodItems
  BY LenProperties, ElementOfSeq
<1>2. /\ Len(new) = IF k <= Len(line) THEN Len(line) - k + 1 ELSE 0
      /\ \A i \in 1..(Len(line) - k + 1) : new[i] = line[k + i - 1]
  BY <1>1, SubSeqProperties
<1>3. \A i \in 1..Len(new) : new[i] = line[k + i - 1] /\ k + i - 1 \in 1..Len(line)
  BY <1>1, <1>2
<1>4. \A i, j \in 1..Len(new) : i < j => k + i - 1 < k + j - 1
  BY <1>1, <1>2
<1>. HIDE DEF new
<1>. QED BY <1>3, <1>4, SMTT(30) DEF Less

LEMMA LessTail ==
    ASSUME NEW line \in Seq(GoodItems), line # <<>>
    PROVE  Less(Tail(line), line)
<1>1. Tail(line) = SubSeq(line, 2, Len(line))
  BY TailIsSubSeq
<1>2. 2 \in Nat \ {0}
  OBVIOUS
<1>3. Less(SubSeq(line, 2, Len(line)), line)
  BY <1>2, LessRest
<1>. QED BY <1>1, <1>3, Zenon

LEMMA LessPurged ==
    ASSUME NEW line \in Seq(GoodItems), NEW peer, NEW new \in Purged(line, peer)
    PROVE  Less(new, line)
<1>1. CASE new = <<>>
  BY <1>1 DEF Less
<1>2. CASE new # <<>>
  <2>1. PICK k \in 0..Len(line) : new = SubSeq(line, k + 1, Len(line))
    BY <1>2 DEF Purged
  <2>2. k + 1 \in Nat \ {0}
    BY LenProperties
  <2>. QED BY <2>1, <2>2, LessRest
<1>. QED BY <1>1, <1>2

\* A ruined item in front of fewer.
LEMMA LessRuined ==
    ASSUME NEW line \in Seq(GoodItems), NEW rest \in Seq(GoodItems), Less(rest, line),
           NEW m \in GoodItems, m.typ \in Ruins
    PROVE  Less(<<m>> \o rest, line)
<1>. DEFINE new == <<m>> \o rest
<1>1. <<m>> \in Seq(GoodItems) /\ Len(<<m>>) = 1 /\ <<m>>[1] = m /\ Len(rest) \in Nat
  BY LenProperties
<1>2. /\ Len(new) = Len(<<m>>) + Len(rest)
      /\ \A i \in 1..(Len(<<m>>) + Len(rest)) :
            new[i] = IF i <= Len(<<m>>) THEN <<m>>[i] ELSE rest[i - Len(<<m>>)]
  BY <1>1, ConcatProperties
<1>3. Len(new) = 1 + Len(rest) /\ new[1] = m
  BY <1>1, <1>2
<1>4. \A i \in 2..Len(new) : new[i] = rest[i - 1] /\ i - 1 \in 1..Len(rest)
  BY <1>1, <1>2
<1>. HIDE DEF new
<1>5. \A i \in 1..Len(new) : i = 1 \/ i \in 2..Len(new)
  BY <1>1, <1>3
<1>6. \A i, j \in 1..Len(new) : i < j => j \in 2..Len(new) /\ (i # 1 => i - 1 < j - 1)
  BY <1>1, <1>3
<1>7. ASSUME NEW i \in 1..Len(new), new[i].typ \notin Ruins PROVE \E p \in 1..Len(line) : line[p] = new[i]
  <2>1. i # 1
    BY <1>3, <1>7
  <2>. DEFINE a == i - 1
  <2>2. new[i] = rest[a] /\ a \in 1..Len(rest)
    BY <1>4, <1>5, <2>1
  <2>. HIDE DEF a
  <2>. QED BY <1>7, <2>2 DEF Less
<1>8. ASSUME NEW i \in 1..Len(new), NEW j \in 1..Len(new), i < j,
             new[i].typ \notin Ruins, new[j].typ \notin Ruins
      PROVE  \E p, q \in 1..Len(line) : p < q /\ line[p] = new[i] /\ line[q] = new[j]
  <2>1. i # 1
    BY <1>3, <1>8
  <2>2. new[i] = rest[i - 1] /\ i - 1 \in 1..Len(rest) /\ new[j] = rest[j - 1] /\ j - 1 \in 1..Len(rest)
    BY <1>4, <1>5, <1>6, <1>8, <2>1
  <2>3. i - 1 < j - 1
    BY <1>6, <1>8, <2>1
  <2>. DEFINE a == i - 1
              b == j - 1
  <2>4. a \in 1..Len(rest) /\ b \in 1..Len(rest) /\ a < b /\ new[i] = rest[a] /\ new[j] = rest[b]
    BY <2>2, <2>3
  <2>. HIDE DEF a, b
  <2>. QED BY <1>8, <2>4 DEF Less
<1>9. Less(new, line)
  <2>1. \A i \in 1..Len(new) : new[i].typ \in Ruins \/ \E p \in 1..Len(line) : line[p] = new[i]
    BY <1>7
  <2>2. \A i, j \in 1..Len(new) :
           i < j => \/ new[i].typ \in Ruins \/ new[j].typ \in Ruins
                    \/ \E p, q \in 1..Len(line) : p < q /\ line[p] = new[i] /\ line[q] = new[j]
    BY <1>8
  <2>. QED BY <2>1, <2>2, Zenon DEF Less
<1>. QED BY <1>9 DEF new

LEMMA LessHit ==
    ASSUME NEW line \in Seq(GoodItems), line # <<>>, NEW new \in Hits(line)
    PROVE  Less(new, line)
<1>1. Tail(line) \in Seq(GoodItems) /\ SubSeq(line, 3, Len(line)) \in Seq(GoodItems)
  BY SeqFacts
<1>2. Less(Tail(line), line) /\ Less(SubSeq(line, 3, Len(line)), line)
  BY LessTail, LessRest
<1>3. Trash \in GoodItems /\ Trash.typ \in Ruins
  BY GoodTrash DEF Trash, Subpacket, Ruins
<1>4. ASSUME NEW r \in {"bad", "noise"} PROVE Header(r, 0) \in GoodItems /\ Header(r, 0).typ \in Ruins
  BY GoodHeader DEF Header, Ruins
<1>5. CASE IsSubpacket(Head(line))
  BY <1>1, <1>2, <1>3, <1>5, LessRuined DEF Hits
<1>6. CASE ~IsSubpacket(Head(line))
  <2>1. PICK r \in {"bad", "noise"} : new = <<Header(r, 0)>> \o Tail(line)
    BY <1>6 DEF Hits
  <2>. QED BY <1>1, <1>2, <1>4, <2>1, LessRuined
<1>. QED BY <1>5, <1>6

\* One item more.
LEMMA More ==
    ASSUME NEW line \in Seq(GoodItems), NEW m \in GoodItems
    PROVE  /\ line \o <<m>> \in Seq(GoodItems) /\ line \o <<m>> # <<>>
           /\ Len(line \o <<m>>) = Len(line) + 1 /\ Len(line) \in Nat
           /\ (line \o <<m>>)[Len(line) + 1] = m
           /\ \A i \in 1..Len(line) : (line \o <<m>>)[i] = line[i]
<1>1. <<m>> \in Seq(GoodItems) /\ Len(<<m>>) = 1 /\ <<m>>[1] = m /\ Len(line) \in Nat
  BY LenProperties
<1>2. /\ line \o <<m>> \in Seq(GoodItems)
      /\ Len(line \o <<m>>) = Len(line) + Len(<<m>>)
      /\ \A i \in 1..(Len(line) + Len(<<m>>)) :
            (line \o <<m>>)[i] = IF i <= Len(line) THEN line[i] ELSE <<m>>[i - Len(line)]
  BY <1>1, ConcatProperties
<1>. DEFINE new == line \o <<m>>
<1>3. new \in Seq(GoodItems) /\ Len(new) = Len(line) + 1
  BY <1>1, <1>2
<1>4. \A i \in 1..Len(line) : new[i] = line[i]
  BY <1>1, <1>2
<1>5. new[Len(line) + 1] = m
  BY <1>1, <1>2
<1>. HIDE DEF new
<1>6. new # <<>>
  BY <1>1, <1>3
<1>. QED BY <1>1, <1>3, <1>4, <1>5, <1>6 DEF new

LEMMA MoreWithout ==
    ASSUME NEW line \in Seq(GoodItems), NEW m \in GoodItems, NEW B, Without(line, B), m \notin B
    PROVE  Without(line \o <<m>>, B)
<1>. DEFINE new == line \o <<m>>
<1>1. /\ Len(new) = Len(line) + 1 /\ Len(line) \in Nat /\ new[Len(line) + 1] = m
      /\ \A i \in 1..Len(line) : new[i] = line[i]
  BY More
<1>. HIDE DEF new
<1>2. Without(new, B)
  BY <1>1 DEF Without
<1>. QED BY <1>2 DEF new

LEMMA MoreBehind ==
    ASSUME NEW line \in Seq(GoodItems), NEW m \in GoodItems, NEW A, NEW B, Behind(line, A, B),
           m \notin B \/ Without(line, A)
    PROVE  Behind(line \o <<m>>, A, B)
<1>. DEFINE new == line \o <<m>>
<1>1. /\ Len(new) = Len(line) + 1 /\ Len(line) \in Nat /\ new[Len(line) + 1] = m
      /\ \A i \in 1..Len(line) : new[i] = line[i]
  BY More
<1>. HIDE DEF new
<1>2. \A i, j \in 1..Len(new) : i < j => i \in 1..Len(line) /\ (j \in 1..Len(line) \/ j = Len(line) + 1)
  BY <1>1
<1>3. Behind(new, A, B)
  BY <1>1, <1>2 DEF Without, Behind
<1>. QED BY <1>3 DEF new

\* Two items are one, and another.
LEMMA Two ==
    ASSUME NEW line \in Seq(GoodItems), NEW m \in GoodItems, NEW n \in GoodItems
    PROVE  line \o <<m, n>> = (line \o <<m>>) \o <<n>> /\ <<m>> \o <<n>> = <<m, n>>
<1>1. <<m>> \o <<n>> = <<m, n>>
  <2>1. <<m>> \o <<n>> \in Seq(GoodItems) /\ <<m, n>> \in Seq(GoodItems) /\ Len(<<m, n>>) = 2
    BY ConcatProperties
  <2>2. Len(<<m>> \o <<n>>) = 2 /\ (<<m>> \o <<n>>)[1] = m /\ (<<m>> \o <<n>>)[2] = n
    BY <2>1
  <2>3. \A i \in 1..Len(<<m>> \o <<n>>) : (<<m>> \o <<n>>)[i] = <<m, n>>[i]
    BY <2>2
  <2>. QED BY <2>1, <2>2, <2>3, SeqEqual
<1>2. <<m>> \in Seq(GoodItems) /\ <<n>> \in Seq(GoodItems)
  OBVIOUS
<1>3. (line \o <<m>>) \o <<n>> = line \o (<<m>> \o <<n>>)
  BY <1>2, ConcatAssociative
<1>. QED BY <1>1, <1>3

\* Nothing of A is on the line: nothing can be behind it.
LEMMA BehindNone ==
    ASSUME NEW line, NEW A, NEW B, Without(line, A) \/ Without(line, B)
    PROVE  Behind(line, A, B)
BY DEF Without, Behind

\* The first item is taken off: what may not be behind it is not on the line.
LEMMA HeadOff ==
    ASSUME NEW line \in Seq(GoodItems), line # <<>>
    PROVE  /\ Head(line) = line[1] /\ 1 \in 1..Len(line) /\ Head(line) \in GoodItems /\ Head(line) \in Items
           /\ \A B : Without(line, B) => Head(line) \notin B
           /\ \A A, B : Behind(line, A, B) /\ Head(line) \in A => Without(Tail(line), B)
<1>1. Len(line) \in Nat /\ Len(line) # 0
  BY LenProperties, EmptySeq
<1>2. Head(line) = line[1] /\ 1 \in 1..Len(line)
  BY <1>1
<1>3. Head(line) \in GoodItems
  BY SeqFacts
<1>4. Len(Tail(line)) = Len(line) - 1 /\ \A i \in 1..Len(Tail(line)) : Tail(line)[i] = line[i + 1]
  BY HeadTailProperties
<1>. DEFINE t == Tail(line)
<1>5. Len(t) = Len(line) - 1 /\ \A i \in 1..Len(t) : t[i] = line[i + 1]
  BY <1>4
<1>. HIDE DEF t
<1>6. \A i \in 1..Len(t) : i + 1 \in 1..Len(line) /\ 1 < i + 1
  BY <1>1, <1>5
<1>7. ASSUME NEW A, NEW B, Behind(line, A, B), Head(line) \in A PROVE Without(t, B)
  BY <1>2, <1>5, <1>6, <1>7 DEF Behind, Without
<1>8. \A A, B : Behind(line, A, B) /\ Head(line) \in A => Without(Tail(line), B)
  BY <1>7 DEF t
<1>9. Head(line) \in Items
  BY <1>3 DEF GoodItems
<1>. QED BY <1>2, <1>3, <1>8, <1>9 DEF Without

-----------------------------------------------------------------------------
(* What follows what.  No CRC spans two items: that blocks arrive in a row  *)
(* rests on what each item stands behind.                                   *)

\* May y come right after x?  A name comes after ZFILE, a block after the ZDATA
\* with its position or the block before it; after something ruined, anything.
Fits(x, y) ==
    /\ y \in Infos => x.typ \in Ruins \/ x.typ = "ZFILE"
    /\ y \in Datas => \/ x.typ \in Ruins
                      \/ x.typ = "ZDATA" /\ y.blk[2] = x.pos + 1
                      \/ x.typ = "ZCRCG" /\ y.blk[2] = x.blk[2] + 1

\* x may be followed by whatever may follow y.
Allows(x, y) == \A z : Fits(y, z) => Fits(x, z)

\* What came last, when at stands for what was there before the line.
Ends(at, line) == IF line = <<>> THEN at ELSE line[Len(line)]

Linked(at, line) ==
    /\ line # <<>> => Fits(at, line[1])
    /\ \A i \in 1..(Len(line) - 1) : Fits(line[i], line[i + 1])

LEMMA RuinedAllows == ASSUME NEW x, x.typ \in Ruins PROVE \A y : Fits(x, y) /\ Allows(x, y)
BY DEF Fits, Allows

LEMMA AllowsItself == ASSUME NEW x PROVE Allows(x, x)
BY DEF Allows

LEMMA LinkedAnew ==
    ASSUME NEW at, NEW line, Linked(at, line), NEW new, Allows(new, at)
    PROVE  Linked(new, line) /\ Allows(Ends(new, line), Ends(at, line))
BY AllowsItself DEF Linked, Ends, Allows

LEMMA LinkedTail ==
    ASSUME NEW at, NEW line \in Seq(GoodItems), line # <<>>, Linked(at, line),
           NEW new, Allows(new, line[1])
    PROVE  Linked(new, Tail(line)) /\ Allows(Ends(new, Tail(line)), Ends(at, line))
<1>. DEFINE t == Tail(line)
<1>1. Len(line) \in Nat /\ Len(line) # 0
  BY LenProperties, EmptySeq
<1>2. t \in Seq(GoodItems) /\ Len(t) = Len(line) - 1 /\ \A i \in 1..Len(t) : t[i] = line[i + 1]
  BY HeadTailProperties
<1>3. Len(t) \in Nat /\ (t = <<>> <=> Len(t) = 0)
  BY <1>2, LenProperties, EmptySeq
<1>. HIDE DEF t
<1>4. ASSUME t # <<>> PROVE Fits(new, t[1])
  <2>1. 1 \in 1..(Len(line) - 1) /\ t[1] = line[1 + 1]
    BY <1>1, <1>2, <1>3, <1>4
  <2>2. Fits(line[1], line[1 + 1])
    BY <2>1 DEF Linked
  <2>. QED BY <2>1, <2>2, Zenon DEF Allows
<1>5. ASSUME NEW i \in 1..(Len(t) - 1) PROVE Fits(t[i], t[i + 1])
  <2>. DEFINE j == i + 1
  <2>1. j \in 1..(Len(line) - 1) /\ t[i] = line[j] /\ t[i + 1] = line[j + 1]
    BY <1>1, <1>2
  <2>. HIDE DEF j
  <2>2. Fits(line[j], line[j + 1])
    BY <2>1 DEF Linked
  <2>. QED BY <2>1, <2>2, Zenon
<1>6. Linked(new, t)
  BY <1>4, <1>5 DEF Linked
<1>7. Allows(Ends(new, t), Ends(at, line))
  <2>1. CASE t = <<>>
    <3>1. Len(line) = 1
      BY <1>1, <1>2, <1>3, <2>1
    <3>. QED BY <2>1, <3>1 DEF Ends
  <2>2. CASE t # <<>>
    <3>1. t[Len(t)] = line[Len(line)]
      BY <1>1, <1>2, <1>3, <2>2
    <3>2. Ends(new, t) = Ends(at, line)
      BY <2>2, <3>1 DEF Ends
    <3>. QED BY <3>2, AllowsItself
  <2>. QED BY <2>1, <2>2
<1>. QED BY <1>6, <1>7 DEF t

\* The last items of a line, for a receiver that starts anew.
LEMMA LinkedRest ==
    ASSUME NEW at, NEW line \in Seq(GoodItems), Linked(at, line), NEW k \in Nat \ {0},
           NEW new, new.typ \in Ruins
    PROVE  /\ Linked(new, SubSeq(line, k, Len(line)))
           /\ Allows(Ends(new, SubSeq(line, k, Len(line))), Ends(at, line))
<1>. DEFINE t == SubSeq(line, k, Len(line))
<1>1. Len(line) \in Nat /\ Len(line) \in Int /\ k \in Int /\ \A i \in k..Len(line) : line[i] \in GoodItems
  BY LenProperties, ElementOfSeq
<1>2. /\ t \in Seq(GoodItems) /\ Len(t) = IF k <= Len(line) THEN Len(line) - k + 1 ELSE 0
      /\ \A i \in 1..(Len(line) - k + 1) : t[i] = line[k + i - 1]
  BY <1>1, SubSeqProperties
<1>3. Len(t) \in Nat /\ (t = <<>> <=> Len(t) = 0)
  BY <1>2, LenProperties, EmptySeq
<1>. HIDE DEF t
<1>4. ASSUME NEW i \in 1..(Len(t) - 1) PROVE Fits(t[i], t[i + 1])
  <2>. DEFINE j == k + i - 1
  <2>1. j \in 1..(Len(line) - 1) /\ t[i] = line[j] /\ t[i + 1] = line[j + 1]
    BY <1>1, <1>2
  <2>. HIDE DEF j
  <2>2. Fits(line[j], line[j + 1])
    BY <2>1 DEF Linked
  <2>. QED BY <2>1, <2>2, Zenon
<1>5. Linked(new, t)
  BY <1>4, RuinedAllows DEF Linked
<1>6. Allows(Ends(new, t), Ends(at, line))
  <2>1. CASE t = <<>>
    BY <2>1, RuinedAllows DEF Ends
  <2>2. CASE t # <<>>
    <3>1. t[Len(t)] = line[Len(line)] /\ Len(line) # 0
      BY <1>1, <1>2, <1>3, <2>2
    <3>2. line # <<>>
      BY <3>1, EmptySeq
    <3>3. Ends(new, t) = Ends(at, line)
      BY <2>2, <3>1, <3>2 DEF Ends
    <3>. QED BY <3>3, AllowsItself
  <2>. QED BY <2>1, <2>2
<1>. QED BY <1>5, <1>6 DEF t

\* Something ruined in front.
LEMMA LinkedRuined ==
    ASSUME NEW at, NEW rest \in Seq(GoodItems), NEW m \in GoodItems, m.typ \in Ruins, Linked(m, rest)
    PROVE  Linked(at, <<m>> \o rest) /\ Ends(at, <<m>> \o rest) = Ends(m, rest)
<1>. DEFINE new == <<m>> \o rest
<1>1. <<m>> \in Seq(GoodItems) /\ Len(<<m>>) = 1 /\ <<m>>[1] = m /\ Len(rest) \in Nat
      /\ (rest = <<>> <=> Len(rest) = 0)
  BY LenProperties, EmptySeq
<1>2. /\ new \in Seq(GoodItems) /\ Len(new) = Len(<<m>>) + Len(rest)
      /\ \A i \in 1..(Len(<<m>>) + Len(rest)) :
            new[i] = IF i <= Len(<<m>>) THEN <<m>>[i] ELSE rest[i - Len(<<m>>)]
  BY <1>1, ConcatProperties
<1>3. Len(new) = 1 + Len(rest) /\ new[1] = m
  BY <1>1, <1>2
<1>4. \A i \in 2..Len(new) : new[i] = rest[i - 1]
  BY <1>1, <1>2
<1>5. new # <<>>
  BY <1>1, <1>2, EmptySeq
<1>. HIDE DEF new
<1>6. Fits(at, new[1])
  BY <1>3 DEF Fits, Infos, Datas, Ruins
<1>7. ASSUME NEW i \in 1..(Len(new) - 1) PROVE Fits(new[i], new[i + 1])
  <2>1. CASE i = 1
    BY <1>3, <2>1, RuinedAllows
  <2>2. CASE i # 1
    <3>. DEFINE j == i - 1
    <3>1. j \in 1..(Len(rest) - 1) /\ new[i] = rest[j] /\ new[i + 1] = rest[j + 1]
      BY <1>1, <1>3, <1>4, <2>2
    <3>. HIDE DEF j
    <3>2. Fits(rest[j], rest[j + 1])
      BY <3>1 DEF Linked
    <3>. QED BY <3>1, <3>2, Zenon
  <2>. QED BY <2>1, <2>2
<1>8. Ends(at, new) = Ends(m, rest)
  <2>1. CASE rest = <<>>
    BY <1>1, <1>3, <1>5, <2>1 DEF Ends
  <2>2. CASE rest # <<>>
    <3>1. new[Len(new)] = rest[Len(rest)]
      BY <1>1, <1>3, <1>4, <2>2
    <3>. QED BY <1>5, <2>2, <3>1 DEF Ends
  <2>. QED BY <2>1, <2>2
<1>. QED BY <1>6, <1>7, <1>8 DEF Linked, new

LEMMA LinkedHit ==
    ASSUME NEW at, NEW line \in Seq(GoodItems), line # <<>>, Linked(at, line), NEW new \in Hits(line)
    PROVE  Linked(at, new) /\ Allows(Ends(at, new), Ends(at, line))
<1>1. /\ Tail(line) \in Seq(GoodItems) /\ SubSeq(line, 3, Len(line)) \in Seq(GoodItems)
      /\ Tail(line) = SubSeq(line, 2, Len(line))
  BY SeqFacts, TailIsSubSeq
<1>2. Trash \in GoodItems /\ Trash.typ \in Ruins
  BY GoodTrash DEF Trash, Subpacket, Ruins
<1>3. ASSUME NEW r \in {"bad", "noise"} PROVE Header(r, 0) \in GoodItems /\ Header(r, 0).typ \in Ruins
  BY GoodHeader DEF Header, Ruins
<1>4. PICK m \in GoodItems, k \in {2, 3} : m.typ \in Ruins /\ new = <<m>> \o SubSeq(line, k, Len(line))
  <2>1. CASE IsSubpacket(Head(line))
    BY <1>1, <1>2, <2>1 DEF Hits
  <2>2. CASE ~IsSubpacket(Head(line))
    <3>1. PICK r \in {"bad", "noise"} : new = <<Header(r, 0)>> \o Tail(line)
      BY <2>2 DEF Hits
    <3>. QED BY <1>1, <1>3, <3>1
  <2>. QED BY <2>1, <2>2
<1>5. SubSeq(line, k, Len(line)) \in Seq(GoodItems) /\ k \in Nat \ {0}
  BY <1>1
<1>. DEFINE rest == SubSeq(line, k, Len(line))
<1>6. Linked(m, rest) /\ Allows(Ends(m, rest), Ends(at, line))
  BY <1>4, <1>5, LinkedRest
<1>7. rest \in Seq(GoodItems) /\ new = <<m>> \o rest
  BY <1>4, <1>5
<1>. HIDE DEF rest
<1>. QED BY <1>4, <1>6, <1>7, LinkedRuined, ZenonT(30)

LEMMA LinkedMore ==
    ASSUME NEW at, NEW line \in Seq(GoodItems), Linked(at, line), NEW m \in GoodItems,
           Fits(Ends(at, line), m)
    PROVE  Linked(at, line \o <<m>>) /\ Ends(at, line \o <<m>>) = m
<1>. DEFINE new == line \o <<m>>
<1>1. /\ new # <<>> /\ Len(new) = Len(line) + 1 /\ Len(line) \in Nat /\ new[Len(line) + 1] = m
      /\ \A i \in 1..Len(line) : new[i] = line[i]
  BY More
<1>2. line = <<>> <=> Len(line) = 0
  BY LenProperties, EmptySeq
<1>. HIDE DEF new
<1>3. Ends(at, new) = m
  BY <1>1 DEF Ends
<1>4. Fits(at, new[1])
  <2>1. CASE line = <<>>
    BY <1>1, <1>2, <2>1 DEF Ends
  <2>2. CASE line # <<>>
    <3>1. new[1] = line[1]
      BY <1>1, <1>2, <2>2
    <3>. QED BY <2>2, <3>1 DEF Linked
  <2>. QED BY <2>1, <2>2
<1>5. ASSUME NEW i \in 1..(Len(new) - 1) PROVE Fits(new[i], new[i + 1])
  <2>1. CASE i = Len(line)
    <3>1. new[i] = line[Len(line)] /\ new[i + 1] = m /\ line # <<>>
      BY <1>1, <1>2, <2>1
    <3>. QED BY <3>1 DEF Ends
  <2>2. CASE i # Len(line)
    <3>1. i \in 1..(Len(line) - 1) /\ new[i] = line[i] /\ new[i + 1] = line[i + 1]
      BY <1>1, <2>2
    <3>. QED BY <3>1 DEF Linked
  <2>. QED BY <2>1, <2>2
<1>. QED BY <1>3, <1>4, <1>5 DEF Linked, new

-----------------------------------------------------------------------------
(* How far the two programs are.  They agree on a file from the moment zmrx *)
(* opens it until zmtx hears the ZRINIT that follows its ZEOF.              *)

\* zmrx has no reason to refuse a file: none is there before, and it may write
\* to all of them.  (A ZSKIP may be taken for the answer to the next offer.)
Welcome == \A s \in Scenarios : s.existing = {} /\ s.readonly = {}

\* zmrx has no file open: no data is on its way, no ZRPOS, no name but that of
\* the file zmtx offers, and no ZEOF behind one.  If zmtx waits for an answer
\* to its ZEOF, the file is complete.
Before ==
    /\ spc \notin {"stream", "poll", "ack"}
    /\ Without(toS, Of({"ZRPOS"}))
    /\ Without(toR, Of({"ZDATA"})) /\ Without(toR, Datas)
    /\ Without(toR, {m \in Infos : spc # "zfile" \/ m.blk[1] # sfile})
    /\ Behind(toR, Infos, Of({"ZEOF"}))
    /\ spc = "zeof" => /\ Len(disc[sfile]) = Size[sfile] /\ mtime[sfile] = "same"

\* Blocks that are not of file f, or do not end its last frame where they should.
Stray(f) == {m \in Datas : \/ m.blk[1] # f \/ m.blk[2] > Size[f]
                           \/ m.typ = "ZCRCW" /\ m.blk[2] # Size[f]
                           \/ m.typ = "ZCRCG" /\ m.blk[2] = Size[f]}

\* Positions past the last block.
Far(f) == {m \in Of({"ZRPOS"}) : m.pos >= Size[f]}

\* zmtx has not heard the ZRPOS yet.
Offering ==
    /\ spc = "zfile" /\ rpc \in {"zdata", "zeof"}
    /\ Without(toR, Of({"ZDATA", "ZEOF"})) /\ Without(toR, Datas)
    /\ Behind(toS, Of({"ZRPOS"}), Unlike({"ZRPOS"}))
    /\ rpc = "zeof" => Without(toS, Of({"ZRPOS"}))

\* zmtx sends data: a ZACK shows that zmrx has them all and asks for no more.
Streaming ==
    /\ spc \in {"stream", "poll", "ack"}
    /\ Without(toR, Of({"ZEOF"}))
    /\ Without(toS, Unlike({"ZRPOS", "ZACK", "ZNAK"}))
    /\ rpc # "zeof" => Without(toS, Of({"ZACK", "ZNAK"}))
    /\ Behind(toS, Of({"ZACK", "ZNAK"}), Of({"ZRPOS"}))
    /\ sbase < Size[sfile]
    /\ spc # "ack" => spos < Size[sfile]

\* zmtx has sent ZEOF: no ZRINIT is on its way before zmrx has seen that.
Finishing ==
    /\ spc = "zeof" /\ rpc = "zeof"
    /\ Without(toS, Of({"ZRPOS", "ZRINIT"}))
    /\ Behind(toR, Of({"ZEOF"}), Of({"ZDATA"})) /\ Behind(toR, Of({"ZEOF"}), Datas)
    /\ Behind(toR, Of({"ZEOF"}), Infos)

During ==
    /\ rfile = sfile
    /\ Without(toR, Stray(sfile)) /\ Without(toS, Far(sfile))
    /\ Offering \/ Streaming \/ Finishing
    /\ rpc # "zeof" => Len(disc[rfile]) < Size[rfile]
    /\ rpc = "zeof" => Len(disc[rfile]) = Size[rfile]

\* What zmrx has taken off the line last, as far as it goes by it.
At == IF rpc = "info" /\ ~mangled THEN Header("ZFILE", 0)
      ELSE IF rpc = "data" /\ ~mangled THEN Subpacket("ZCRCG", <<rfile, Len(disc[rfile])>>)
      ELSE Trash

\* The block zmtx sends next.
Due == Subpacket("ZCRCW", <<sfile, spos + 1>>)

Chained ==
    /\ Linked(At, toR)
    /\ spc \in {"stream", "poll"} => Fits(Ends(At, toR), Due)

Live == Chained /\ (rfp = "open" => During) /\ (rfp # "open" => Before)

\* The directory: every file begins like zmtx's, and one that is not open is
\* not there or has zmtx's date.
Kept ==
    /\ \A f \in Files : Len(disc[f]) <= Size[f] /\ \A i \in 1..Len(disc[f]) : disc[f][i] = <<f, i>>
    /\ \A f \in Files : mtime[f] \in {"none", "same"} \/ (rfp = "open" /\ rfile = f)

\* What zmtx has reported.
Told ==
    /\ \A f \in Files : sent[f] = "sent" => f < sfile
    /\ \A f \in Files : sent[f] = "sent" => Len(disc[f]) = Size[f] /\ mtime[f] = "same"

NoSkip == Without(toS, Of({"ZSKIP"}))

WInv == IInv /\ Kept /\ Told /\ NoSkip /\ (BothExit \/ Live)

LEMMA HeaderIs ==
    ASSUME NEW t \in HeaderTypes \cup {"bad", "noise", "OO"}, NEW n \in Nat
    PROVE  /\ Header(t, n) \in GoodItems
           /\ \A types : Header(t, n) \in Of(types) <=> t \in types
           /\ \A types : t \in types => Header(t, n) \notin Unlike(types)
           /\ Header(t, n) \notin Infos /\ Header(t, n) \notin Datas
           /\ Header(t, n).typ = t /\ Header(t, n).pos = n
           /\ \A x : Fits(x, Header(t, n))
<1>1. Header(t, n) \in GoodItems /\ Header(t, n).typ = t /\ Header(t, n).pos = n
  BY GoodHeader DEF Header
<1>2. Header(t, n) \in Items
  BY <1>1 DEF GoodItems
<1>3. Header(t, n) \notin Infos /\ Header(t, n) \notin Datas
  BY <1>1 DEF Infos, Datas, HeaderTypes
<1>4. \A x : Fits(x, Header(t, n))
  BY <1>3 DEF Fits
<1>. QED BY <1>1, <1>2, <1>3, <1>4 DEF Of, Unlike

LEMMA SubpacketIs ==
    ASSUME NEW t \in {"ZCRCG", "ZCRCW"}, NEW f \in Files, NEW n \in Nat
    PROVE  /\ Subpacket(t, <<f, n>>) \in GoodItems
           /\ \A types : t \notin types => Subpacket(t, <<f, n>>) \notin Of(types)
           /\ n = 0 => Subpacket(t, <<f, n>>) \in Infos /\ Subpacket(t, <<f, n>>) \notin Datas
           /\ n # 0 => Subpacket(t, <<f, n>>) \notin Infos /\ Subpacket(t, <<f, n>>) \in Datas
           /\ Subpacket(t, <<f, n>>).typ = t
           /\ Subpacket(t, <<f, n>>).blk[1] = f /\ Subpacket(t, <<f, n>>).blk[2] = n
<1>. DEFINE m == Subpacket(t, <<f, n>>)
<1>1. m \in GoodItems /\ m.typ = t /\ m.blk = <<f, n>>
  BY GoodSubpacket DEF Subpacket
<1>2. m \in Items
  BY <1>1 DEF GoodItems
<1>3. m.blk[1] = f /\ m.blk[2] = n
  BY <1>1
<1>. HIDE DEF m
<1>4. /\ \A types : t \notin types => m \notin Of(types)
      /\ n = 0 => m \in Infos /\ m \notin Datas
      /\ n # 0 => m \notin Infos /\ m \in Datas
  BY <1>1, <1>2, <1>3 DEF Of, Infos, Datas
<1>. QED BY <1>1, <1>3, <1>4 DEF m

\* The sets that are spoken of hold nothing ruined.
LEMMA SoundHere ==
    /\ Sound(Of({"ZRPOS"})) /\ Sound(Of({"ZDATA"})) /\ Sound(Of({"ZEOF"})) /\ Sound(Of({"ZSKIP"}))
    /\ Sound(Of({"ZDATA", "ZEOF"})) /\ Sound(Of({"ZACK", "ZNAK"})) /\ Sound(Of({"ZRPOS", "ZRINIT"}))
    /\ \A types : Sound(Unlike(types))
    /\ Sound(Infos) /\ Sound(Datas)
    /\ \A p, f : Sound({m \in Infos : p # "zfile" \/ m.blk[1] # f})
    /\ \A f : Sound(Stray(f)) /\ Sound(Far(f))
<1>1. /\ Sound(Of({"ZRPOS"})) /\ Sound(Of({"ZDATA"})) /\ Sound(Of({"ZEOF"})) /\ Sound(Of({"ZSKIP"}))
      /\ Sound(Of({"ZDATA", "ZEOF"})) /\ Sound(Of({"ZACK", "ZNAK"})) /\ Sound(Of({"ZRPOS", "ZRINIT"}))
  BY DEF Sound, Of, Ruins
<1>2. \A p, f : {m \in Infos : p # "zfile" \/ m.blk[1] # f} \subseteq Infos
  OBVIOUS
<1>3. \A f : Stray(f) \subseteq Datas /\ Far(f) \subseteq Of({"ZRPOS"})
  BY DEF Stray, Far
<1>. QED BY <1>1, <1>2, <1>3, SoundSets

-----------------------------------------------------------------------------
(* zmtx: what its steps come to.                                            *)

\* It has not offered a file, or has no more.
SGoesOn ==
    /\ spc \in {"start", "contact", "open", "zfin"} /\ spc' \in {"contact", "open", "zfin", "exit"}
    /\ sfile' >= sfile /\ \A f \in Files : sent'[f] \in {sent[f], "unopened"}
    /\ Less(toS', toS)
    /\ toR' = toR \/ \E t \in {"ZRQINIT", "ZFIN", "OO"} : toR' = toR \o <<Header(t, 0)>>

\* It ignores something.
SPasses == Less(toS', toS) /\ UNCHANGED <<toR, sendVars>>

SOffers ==
    /\ spc \in {"open", "zfile"} /\ spc' = "zfile" /\ sfile \in Files /\ UNCHANGED <<sfile, sent>>
    /\ Less(toS', toS)
    /\ toR' = toR \o <<Header("ZFILE", 0), Subpacket("ZCRCW", <<sfile, 0>>)>>

\* It hears where to go on.
SRewinds ==
    /\ toS # <<>> /\ toS' = Tail(toS)
    /\ \/ spc \in {"zfile", "poll", "ack"} /\ Head(toS).typ = "ZRPOS" /\ SSendFrom(Head(toS).pos)
       \/ spc \in {"poll", "ack"} /\ Head(toS).typ = "ZNAK" /\ SSendFrom(sbase)

SGivesBlock == SBlock /\ spos < Size[sfile]

SEnds ==
    /\ SSendEof
    /\ \/ spc \in {"stream", "poll"} /\ ~(spos < Size[sfile]) /\ toS' = toS
       \/ /\ spc \in {"poll", "ack"} /\ toS # <<>> /\ toS' = Tail(toS)
          /\ IsHeader(Head(toS)) /\ Head(toS).typ \notin {"ZRPOS", "ZNAK"}
          /\ spc = "ack" => Head(toS).typ = "ZACK"
       \/ spc = "zeof" /\ Less(toS', toS)

SFinishes ==
    /\ spc = "zeof" /\ spc' = "open" /\ sfile' = sfile + 1
    /\ toS # <<>> /\ Head(toS).typ = "ZRINIT" /\ toS' = Tail(toS)
    /\ sent' = [sent EXCEPT ![sfile] = "sent"] /\ UNCHANGED <<toR, spos, sbase>>

SIsRefused == spc = "zfile" /\ toS # <<>> /\ Head(toS).typ = "ZSKIP"

LEMMA SendKinds ==
    ASSUME IInv, NEW peer, SendNext(peer)
    PROVE  \/ SGoesOn \/ SPasses \/ SOffers \/ SRewinds \/ SGivesBlock \/ SEnds \/ SFinishes \/ SIsRefused
<1>. USE DEF IInv
<1>. toS \in Seq(GoodItems) /\ sfile \in Int /\ NFiles \in Nat /\ sfile \in 1..(NFiles + 1)
  BY ZmAssumption DEF Lines, SendShape
<1>. sent \in [Files -> {"no", "sent", "skipped", "unopened"}]
  BY DEF SendShape
<1>1. SHears => Less(toS', toS) /\ toS # <<>> /\ toS' = Tail(toS) /\ IsHeader(Head(toS))
  BY LessTail DEF SHears
<1>2. toS' = toS => Less(toS', toS)
  BY LessSame
<1>3. CASE SStart(peer)
  <2>1. Less(toS', toS)
    BY <1>3, LessPurged DEF SStart
  <2>. QED BY <1>3, <2>1 DEF SStart, SReply, SGoesOn
<1>4. CASE SContact(peer)
  <2>1. Less(toS', toS)
    BY <1>1, <1>2, <1>4 DEF SContact
  <2>2. spc' \in {"contact", "open", "exit"} /\ (toR' = toR \/ toR' = toR \o <<Header("ZRQINIT", 0)>>)
    BY <1>4 DEF SContact, SInvite, SReply
  <2>. QED BY <1>4, <2>1, <2>2 DEF SContact, SGoesOn
<1>5. CASE SOpen
  <2>1. Less(toS', toS)
    BY <1>2, <1>5 DEF SOpen
  <2>2. CASE sfile > NFiles /\ spc' = "zfin" /\ SReply(<<Header("ZFIN", 0)>>) /\ UNCHANGED <<sfile, sent>>
    BY <1>5, <2>1, <2>2 DEF SOpen, SGoesOn, SReply
  <2>3. CASE /\ sfile \in Files \ scene.unopenable /\ spc' = "zfile"
             /\ SReply(<<Header("ZFILE", 0), Subpacket("ZCRCW", <<sfile, 0>>)>>)
             /\ UNCHANGED <<sfile, sent>>
    BY <1>5, <2>1, <2>3 DEF SOpen, SOffers, SReply
  <2>4. CASE /\ UNCHANGED <<toR, spc>> /\ sfile' \in {sfile + 1, NFiles + 1}
             /\ sent' = [sent EXCEPT ![sfile] = "unopened"]
    <3>1. sfile' >= sfile
      BY <2>4
    <3>2. \A f \in Files : sent'[f] \in {sent[f], "unopened"}
      BY <2>4
    <3>. QED BY <1>5, <2>1, <2>4, <3>1, <3>2 DEF SOpen, SGoesOn
  <2>. QED BY <1>5, <2>2, <2>3, <2>4 DEF SOpen
<1>6. CASE SOffered(peer)
  <2>1. Less(toS', toS) /\ spc = "zfile" /\ stries' = stries /\ sfile \in Files
    BY <1>1, <1>2, <1>6 DEF SOffered, SendShape
  <2>2. CASE SOfferAgain
    BY <2>1, <2>2 DEF SOfferAgain, SOffers, SReply
  <2>3. CASE SHears /\ Head(toS).typ = "ZSKIP"
    BY <1>1, <2>1, <2>3 DEF SIsRefused
  <2>4. CASE SHears /\ Head(toS).typ = "ZRPOS" /\ SSendFrom(Head(toS).pos)
    BY <1>1, <2>1, <2>4 DEF SRewinds
  <2>5. CASE UNCHANGED <<toR, spc, sfile, spos, sbase, sent>>
    BY <2>1, <2>5 DEF SPasses, sendVars
  <2>. QED BY <1>6, <2>2, <2>3, <2>4, <2>5 DEF SOffered
<1>7. CASE SBlock
  BY <1>7 DEF SBlock, SGivesBlock, SEnds
<1>8. CASE SPoll
  <2>1. CASE Head(toS).typ # "ZNAK"
    BY <1>1, <1>8, <2>1 DEF SPoll, SRestart, SRewinds, SEnds
  <2>2. CASE Head(toS).typ = "ZNAK"
    BY <1>1, <1>8, <2>2 DEF SPoll, SPasses, sendVars
  <2>. QED BY <2>1, <2>2
<1>9. CASE SAck
  <2>1. CASE Head(toS).typ \in {"ZACK", "ZRPOS", "ZNAK"}
    BY <1>1, <1>9, <2>1 DEF SAck, SRestart, SRewinds, SEnds
  <2>2. CASE Head(toS).typ \notin {"ZACK", "ZRPOS", "ZNAK"}
    BY <1>1, <1>9, <2>2 DEF SAck, SPasses, sendVars
  <2>. QED BY <2>1, <2>2
<1>10. CASE SEof(peer)
  <2>1. Less(toS', toS) /\ spc = "zeof"
    BY <1>1, <1>2, <1>10 DEF SEof
  <2>2. CASE SSendEof
    BY <2>1, <2>2 DEF SEnds
  <2>. QED BY <1>1, <1>10, <2>2 DEF SEof, SFinishes
<1>11. CASE SFin(peer)
  <2>1. Less(toS', toS)
    BY <1>1, <1>2, <1>11 DEF SFin
  <2>2. spc' \in {"zfin", "exit"} /\ (toR' = toR \/ toR' = toR \o <<Header("OO", 0)>>)
    BY <1>11 DEF SFin, SReply
  <2>. QED BY <1>11, <2>1, <2>2 DEF SFin, SGoesOn
<1>12. CASE SDrop
  <2>1. Less(toS', toS)
    BY <1>12, LessTail DEF SDrop
  <2>. QED BY <1>12, <2>1 DEF SDrop, SPasses
<1>. QED BY <1>3, <1>4, <1>5, <1>6, <1>7, <1>8, <1>9, <1>10, <1>11, <1>12 DEF SendNext

-----------------------------------------------------------------------------
(* zmtx: each of them keeps the two programs in step.                       *)

\* Nothing new is on the line.
LEMMA BeforeLess ==
    ASSUME Before, Less(toR', toR), Less(toS', toS), UNCHANGED <<spc, sfile>>,
           spc = "zeof" => disc'[sfile] = disc[sfile] /\ mtime'[sfile] \in {mtime[sfile], "same"}
    PROVE  Before'
<1>. USE DEF Before
<1>1. Without(toS', Of({"ZRPOS"}))
  BY LessWithout, SoundHere
<1>2. Without(toR', Of({"ZDATA"})) /\ Without(toR', Datas)
  BY LessWithout, SoundHere
<1>. DEFINE B == {m \in Infos : spc # "zfile" \/ m.blk[1] # sfile}
<1>3. Without(toR', B)
  <2>1. Sound(B) /\ Without(toR, B)
    BY SoundHere
  <2>. HIDE DEF B
  <2>. QED BY <2>1, LessWithout
<1>4. Behind(toR', Infos, Of({"ZEOF"}))
  BY LessBehind, SoundHere
<1>. QED BY <1>1, <1>2, <1>3, <1>4

LEMMA DuringLess ==
    ASSUME During, Less(toR', toR), Less(toS', toS), UNCHANGED <<spc, sfile, spos, sbase>>,
           UNCHANGED <<rfile, disc>>, rpc' = rpc \/ (spc # "zfile" /\ {rpc, rpc'} \subseteq {"zdata", "data"})
    PROVE  During'
<1>1. Without(toR', Stray(sfile)) /\ Without(toS', Far(sfile))
  BY LessWithout, SoundHere DEF During
<1>2. Offering => Offering'
  <2>. SUFFICES ASSUME Offering PROVE Offering'
    OBVIOUS
  <2>. USE DEF Offering
  <2>1. Without(toR', Of({"ZDATA", "ZEOF"})) /\ Without(toR', Datas)
    BY LessWithout, SoundHere
  <2>2. Behind(toS', Of({"ZRPOS"}), Unlike({"ZRPOS"}))
    BY LessBehind, SoundHere
  <2>3. rpc = "zeof" => Without(toS', Of({"ZRPOS"}))
    BY LessWithout, SoundHere
  <2>. QED BY <2>1, <2>2, <2>3
<1>3. Streaming => Streaming'
  <2>. SUFFICES ASSUME Streaming PROVE Streaming'
    OBVIOUS
  <2>. USE DEF Streaming
  <2>1. Without(toR', Of({"ZEOF"})) /\ Without(toS', Unlike({"ZRPOS", "ZACK", "ZNAK"}))
    BY LessWithout, SoundHere
  <2>2. Behind(toS', Of({"ZACK", "ZNAK"}), Of({"ZRPOS"}))
    BY LessBehind, SoundHere
  <2>3. rpc # "zeof" => Without(toS', Of({"ZACK", "ZNAK"}))
    BY LessWithout, SoundHere
  <2>. QED BY <2>1, <2>2, <2>3
<1>4. Finishing => Finishing'
  <2>. SUFFICES ASSUME Finishing PROVE Finishing'
    OBVIOUS
  <2>. USE DEF Finishing
  <2>1. Without(toS', Of({"ZRPOS", "ZRINIT"}))
    BY LessWithout, SoundHere
  <2>2. /\ Behind(toR', Of({"ZEOF"}), Of({"ZDATA"})) /\ Behind(toR', Of({"ZEOF"}), Datas)
        /\ Behind(toR', Of({"ZEOF"}), Infos)
    BY LessBehind, SoundHere
  <2>. QED BY <2>1, <2>2
<1>. QED BY <1>1, <1>2, <1>3, <1>4 DEF During

LEMMA AtStays == ASSUME UNCHANGED recvVars PROVE At' = At
BY DEF recvVars, At

\* A header is sent to zmrx.
LEMMA HeaderSent ==
    ASSUME Lines, NEW t \in HeaderTypes \cup {"OO"}, NEW n \in Nat, toR' = toR \o <<Header(t, n)>>
    PROVE  /\ \A B : Without(toR, B) /\ Header(t, n) \notin B => Without(toR', B)
           /\ \A A, B : Behind(toR, A, B) /\ (Header(t, n) \notin B \/ Without(toR, A)) => Behind(toR', A, B)
           /\ \A at : Linked(at, toR) => Linked(at, toR') /\ Ends(at, toR') = Header(t, n)
<1>1. toR \in Seq(GoodItems) /\ Header(t, n) \in GoodItems /\ \A x : Fits(x, Header(t, n))
  BY HeaderIs DEF Lines
<1>. DEFINE m == Header(t, n)
<1>2. m \in GoodItems /\ \A x : Fits(x, m)
  BY <1>1
<1>3. toR' = toR \o <<m>>
  OBVIOUS
<1>. HIDE DEF m
<1>4. \A B : Without(toR, B) /\ m \notin B => Without(toR', B)
  BY <1>1, <1>2, <1>3, MoreWithout
<1>5. \A A, B : Behind(toR, A, B) /\ (m \notin B \/ Without(toR, A)) => Behind(toR', A, B)
  BY <1>1, <1>2, <1>3, MoreBehind
<1>6. \A at : Linked(at, toR) => Linked(at, toR') /\ Ends(at, toR') = m
  BY <1>1, <1>2, <1>3, LinkedMore
<1>. QED BY <1>4, <1>5, <1>6 DEF m

LEMMA SGoesOnKeeps ==
    ASSUME WInv, Live, SGoesOn, UNCHANGED recvVars
    PROVE  Live'
<1>1. Lines /\ rfp' = rfp
  BY DEF WInv, IInv, recvVars
<1>2. rfp # "open" /\ Before
  BY DEF Live, During, Offering, Streaming, Finishing, SGoesOn
<1>3. At' = At
  BY AtStays
<1>. DEFINE Other == {m \in Infos : spc # "zfile" \/ m.blk[1] # sfile}
            Other2 == {m \in Infos : spc' # "zfile" \/ m.blk[1] # sfile'}
<1>4. Other = Infos /\ Other2 = Infos
  BY DEF SGoesOn
<1>5. Without(toR, Infos)
  <2>1. Without(toR, Other)
    BY <1>2 DEF Before
  <2>. HIDE DEF Other
  <2>. QED BY <1>4, <2>1
<1>6. Without(toS', Of({"ZRPOS"}))
  BY <1>2, LessWithout, SoundHere DEF Before, SGoesOn
<1>7. CASE toR' = toR
  <2>1. Before'
    BY <1>2, <1>4, <1>5, <1>6, <1>7 DEF Before, SGoesOn
  <2>2. Chained'
    BY <1>3, <1>7 DEF Live, Chained, SGoesOn
  <2>. QED BY <1>1, <1>2, <2>1, <2>2 DEF Live
<1>8. ASSUME NEW t \in {"ZRQINIT", "ZFIN", "OO"}, toR' = toR \o <<Header(t, 0)>>
      PROVE  Live'
  <2>1. t \in HeaderTypes \cup {"OO"} /\ 0 \in Nat
    BY DEF HeaderTypes
  <2>2. /\ Header(t, 0) \notin Of({"ZDATA"}) /\ Header(t, 0) \notin Of({"ZEOF"})
        /\ Header(t, 0) \notin Datas /\ Header(t, 0) \notin Infos
    BY <2>1, HeaderIs
  <2>3. /\ Without(toR', Of({"ZDATA"})) /\ Without(toR', Datas) /\ Without(toR', Infos)
        /\ Behind(toR', Infos, Of({"ZEOF"}))
    BY <1>1, <1>2, <1>5, <1>8, <2>1, <2>2, HeaderSent DEF Before
  <2>4. Before'
    BY <1>2, <1>4, <1>6, <2>3 DEF Before, SGoesOn
  <2>5. Linked(At, toR')
    BY <1>1, <1>8, <2>1, HeaderSent DEF Live, Chained
  <2>6. Chained'
    BY <1>3, <2>5 DEF Chained, SGoesOn
  <2>. QED BY <1>1, <1>2, <2>4, <2>6 DEF Live
<1>. QED BY <1>7, <1>8 DEF SGoesOn

LEMMA SPassesKeeps ==
    ASSUME WInv, Live, SPasses, UNCHANGED recvVars
    PROVE  Live'
<1>1. Less(toR', toR) /\ Less(toS', toS)
  BY LessSame DEF SPasses
<1>2. UNCHANGED <<spc, sfile, spos, sbase, rpc, rfile, rfp, disc, mtime, toR>> /\ At' = At
  BY AtStays DEF SPasses, sendVars, recvVars
<1>3. Before => Before'
  BY <1>1, <1>2, BeforeLess
<1>4. During => During'
  BY <1>1, <1>2, DuringLess
<1>5. Chained'
  BY <1>2 DEF Live, Chained, Due
<1>. QED BY <1>2, <1>3, <1>4, <1>5 DEF Live

LEMMA SOffersKeeps ==
    ASSUME WInv, Live, SOffers, UNCHANGED recvVars
    PROVE  Live'
<1>. DEFINE h == Header("ZFILE", 0)
            b == Subpacket("ZCRCW", <<sfile, 0>>)
            mid == toR \o <<h>>
<1>1. /\ toR \in Seq(GoodItems) /\ UNCHANGED <<rpc, rfile, rfp, disc, mtime>> /\ At' = At
      /\ UNCHANGED sfile /\ sfile \in Files /\ spc' = "zfile" /\ Less(toS', toS)
  BY AtStays DEF WInv, IInv, Lines, recvVars, SOffers
<1>2. /\ h \in GoodItems /\ h.typ = "ZFILE" /\ h \notin Datas /\ h \notin Infos /\ \A x : Fits(x, h)
      /\ h \notin Of({"ZDATA"}) /\ h \notin Of({"ZEOF"}) /\ h \notin Of({"ZDATA", "ZEOF"})
  BY HeaderIs DEF HeaderTypes
<1>3. /\ b \in GoodItems /\ b.typ = "ZCRCW" /\ b \notin Datas /\ b \in Infos /\ b.blk[1] = sfile
      /\ b \notin Of({"ZDATA"}) /\ b \notin Of({"ZEOF"}) /\ b \notin Of({"ZDATA", "ZEOF"})
  BY <1>1, SubpacketIs
<1>4. Fits(h, b)
  BY <1>2, <1>3 DEF Fits
<1>5. mid \in Seq(GoodItems) /\ toR' = mid \o <<b>>
  BY <1>1, <1>2, <1>3, More, Two, SMTT(30) DEF SOffers
<1>. HIDE DEF h, b
<1>6. \A B : Without(toR, B) /\ h \notin B /\ b \notin B => Without(toR', B)
  <2>1. ASSUME NEW B, Without(toR, B), h \notin B, b \notin B PROVE Without(toR', B)
    <3>1. Without(mid, B)
      BY <1>1, <1>2, <2>1, MoreWithout
    <3>. HIDE DEF mid
    <3>. QED BY <1>3, <1>5, <2>1, <3>1, MoreWithout
  <2>. QED BY <2>1
<1>7. Linked(At, toR')
  <2>1. Linked(At, mid) /\ Ends(At, mid) = h
    BY <1>1, <1>2, LinkedMore DEF Live, Chained
  <2>. HIDE DEF mid
  <2>. QED BY <1>3, <1>4, <1>5, <2>1, LinkedMore
<1>8. Chained'
  BY <1>1, <1>7 DEF Chained
<1>9. CASE rfp # "open"
  <2>1. Before
    BY <1>9 DEF Live
  <2>2. Without(toS', Of({"ZRPOS"}))
    BY <1>1, <2>1, LessWithout, SoundHere DEF Before
  <2>3. Without(toR', Of({"ZDATA"})) /\ Without(toR', Datas)
    BY <1>2, <1>3, <1>6, <2>1 DEF Before
  <2>4. Without(toR', {m \in Infos : spc' # "zfile" \/ m.blk[1] # sfile})
    <3>. DEFINE Old0 == {m \in Infos : spc # "zfile" \/ m.blk[1] # sfile}
                New0 == {m \in Infos : spc' # "zfile" \/ m.blk[1] # sfile}
    <3>1. Without(toR, Old0) /\ New0 \subseteq Old0 /\ h \notin New0 /\ b \notin New0
      BY <1>1, <1>2, <1>3, <2>1 DEF Before
    <3>. HIDE DEF Old0, New0
    <3>2. Without(toR, New0)
      BY <3>1 DEF Without
    <3>3. Without(toR', New0)
      BY <1>6, <3>1, <3>2
    <3>. QED BY <3>3 DEF New0
  <2>5. Behind(toR', Infos, Of({"ZEOF"}))
    <3>1. Behind(mid, Infos, Of({"ZEOF"}))
      BY <1>1, <1>2, <2>1, MoreBehind DEF Before
    <3>. HIDE DEF mid
    <3>. QED BY <1>3, <1>5, <3>1, MoreBehind
  <2>6. Before'
    BY <1>1, <2>2, <2>3, <2>4, <2>5 DEF Before
  <2>. QED BY <1>1, <1>8, <1>9, <2>6 DEF Live
<1>10. CASE rfp = "open"
  <2>1. During /\ Offering
    BY <1>10 DEF Live, During, Streaming, Finishing, SOffers
  <2>2. Without(toR', Of({"ZDATA", "ZEOF"})) /\ Without(toR', Datas)
    BY <1>2, <1>3, <1>6, <2>1 DEF Offering
  <2>3. Behind(toS', Of({"ZRPOS"}), Unlike({"ZRPOS"})) /\ (rpc = "zeof" => Without(toS', Of({"ZRPOS"})))
    BY <1>1, <2>1, LessWithout, LessBehind, SoundHere DEF Offering
  <2>4. Offering'
    BY <1>1, <2>1, <2>2, <2>3 DEF Offering
  <2>5. Without(toR', Stray(sfile)) /\ Without(toS', Far(sfile))
    <3>1. h \notin Stray(sfile) /\ b \notin Stray(sfile)
      BY <1>2, <1>3 DEF Stray
    <3>2. Without(toS', Far(sfile))
      BY <1>1, <2>1, LessWithout, SoundHere DEF During
    <3>. QED BY <1>6, <2>1, <3>1, <3>2 DEF During
  <2>6. During'
    BY <1>1, <2>1, <2>4, <2>5 DEF During
  <2>. QED BY <1>1, <1>8, <1>10, <2>6 DEF Live
<1>. QED BY <1>9, <1>10

LEMMA SRewindsKeeps ==
    ASSUME WInv, Live, SRewinds, UNCHANGED recvVars
    PROVE  Live'
<1>1. /\ toR \in Seq(GoodItems) /\ toS \in Seq(GoodItems) /\ Lines
      /\ UNCHANGED <<rpc, rfile, rfp, disc, mtime>> /\ At' = At /\ sfile \in Files /\ sbase \in Nat
  BY AtStays DEF WInv, IInv, Lines, recvVars, SRewinds, SendShape
<1>2. Size[sfile] \in Nat
  BY <1>1, ZmAssumption DEF Files
<1>3. /\ toS # <<>> /\ toS' = Tail(toS) /\ Less(toS', toS)
      /\ Head(toS) \in Items /\ \A B : Without(toS, B) => Head(toS) \notin B
      /\ \A A, B : Behind(toS, A, B) /\ Head(toS) \in A => Without(toS', B)
  <2>1. toS # <<>> /\ toS' = Tail(toS)
    BY DEF SRewinds
  <2>2. Less(toS', toS)
    BY <1>1, <2>1, LessTail
  <2>3. /\ Head(toS) \in Items /\ \A B : Without(toS, B) => Head(toS) \notin B
        /\ \A A, B : Behind(toS, A, B) /\ Head(toS) \in A => Without(Tail(toS), B)
    BY <1>1, <2>1, HeadOff
  <2>. QED BY <2>1, <2>2, <2>3
<1>4. Head(toS).typ = "ZRPOS" => Head(toS) \in Of({"ZRPOS"}) /\ Head(toS).pos \in Nat
  BY <1>3 DEF Of, Items
<1>5. rfp = "open" /\ During /\ (Offering \/ Streaming)
  BY <1>3, <1>4 DEF Live, Before, During, Finishing, SRewinds
<1>6. PICK n \in Nat : n < Size[sfile] /\ SSendFrom(n)
  <2>1. CASE Head(toS).typ = "ZRPOS" /\ SSendFrom(Head(toS).pos)
    <3>1. Head(toS) \notin Far(sfile)
      BY <1>3, <1>5 DEF During
    <3>2. Head(toS).pos < Size[sfile]
      BY <1>2, <1>4, <2>1, <3>1 DEF Far
    <3>. QED BY <1>4, <2>1, <3>2
  <2>2. CASE spc \in {"poll", "ack"} /\ SSendFrom(sbase)
    BY <1>1, <1>5, <2>2 DEF Offering, Streaming
  <2>. QED BY <2>1, <2>2 DEF SRewinds
<1>7. /\ spc' = "stream" /\ spos' = n /\ sbase' = n /\ UNCHANGED sfile
      /\ toR' = toR \o <<Header("ZDATA", n)>>
  BY <1>6 DEF SSendFrom, SReply
<1>8. /\ "ZDATA" \in HeaderTypes \cup {"OO"} /\ Header("ZDATA", n) \notin Of({"ZEOF"})
      /\ Header("ZDATA", n) \notin Datas /\ Header("ZDATA", n) \notin Stray(sfile)
      /\ Header("ZDATA", n).typ = "ZDATA" /\ Header("ZDATA", n).pos = n
  BY HeaderIs DEF HeaderTypes, Stray
<1>9. Without(toR, Of({"ZEOF"}))
  <2>1. CASE Streaming
    BY <2>1 DEF Streaming
  <2>2. CASE Offering
    BY <2>2 DEF Offering, Without, Of
  <2>. QED BY <1>5, <2>1, <2>2
<1>10. Without(toR', Of({"ZEOF"})) /\ Without(toR', Stray(sfile))
  BY <1>1, <1>5, <1>7, <1>8, <1>9, HeaderSent DEF During
<1>11. /\ Without(toS', Unlike({"ZRPOS", "ZACK", "ZNAK"}))
       /\ rpc # "zeof" => Without(toS', Of({"ZACK", "ZNAK"}))
       /\ Behind(toS', Of({"ZACK", "ZNAK"}), Of({"ZRPOS"}))
  <2>1. CASE Streaming
    BY <1>3, <2>1, LessWithout, LessBehind, SoundHere DEF Streaming
  <2>2. CASE Offering
    <3>1. Head(toS) \in Of({"ZRPOS"})
      BY <1>4, <2>2 DEF Offering, SRewinds
    <3>2. Without(toS', Unlike({"ZRPOS"}))
      BY <1>3, <2>2, <3>1 DEF Offering
    <3>3. Unlike({"ZRPOS", "ZACK", "ZNAK"}) \subseteq Unlike({"ZRPOS"})
          /\ Of({"ZACK", "ZNAK"}) \subseteq Unlike({"ZRPOS"})
      BY DEF Unlike, Of, Ruins
    <3>4. Without(toS', Unlike({"ZRPOS", "ZACK", "ZNAK"})) /\ Without(toS', Of({"ZACK", "ZNAK"}))
      BY <3>2, <3>3 DEF Without
    <3>. QED BY <3>4, BehindNone
  <2>. QED BY <1>5, <2>1, <2>2
<1>12. Without(toS', Far(sfile))
  BY <1>3, <1>5, LessWithout, SoundHere DEF During
<1>13. During'
  <2>1. Streaming'
    BY <1>1, <1>6, <1>7, <1>10, <1>11 DEF Streaming
  <2>. QED BY <1>1, <1>5, <1>7, <1>10, <1>12, <2>1 DEF During
<1>14. Chained'
  <2>1. Linked(At, toR') /\ Ends(At, toR') = Header("ZDATA", n)
    BY <1>1, <1>7, <1>8, HeaderSent DEF Live, Chained
  <2>. DEFINE d == Subpacket("ZCRCW", <<sfile, n + 1>>)
  <2>2. d \notin Infos /\ d.blk[2] = n + 1
    BY <1>1, <1>6, SubpacketIs
  <2>3. Due' = d
    BY <1>7 DEF Due
  <2>. HIDE DEF d
  <2>4. Fits(Header("ZDATA", n), d)
    BY <1>8, <2>2 DEF Fits
  <2>. QED BY <1>1, <2>1, <2>3, <2>4 DEF Chained
<1>. QED BY <1>1, <1>5, <1>13, <1>14 DEF Live

LEMMA SGivesBlockKeeps ==
    ASSUME WInv, Live, SGivesBlock, UNCHANGED recvVars
    PROVE  Live'
<1>. DEFINE last == spos + 1 = Size[sfile]
            t == IF last THEN "ZCRCW" ELSE "ZCRCG"
            b == Subpacket(t, <<sfile, spos + 1>>)
<1>1. /\ toR \in Seq(GoodItems) /\ UNCHANGED <<rpc, rfile, rfp, disc, mtime>> /\ At' = At
      /\ sfile \in Files /\ spos \in Nat /\ spc \in {"stream", "poll"}
  BY AtStays DEF WInv, IInv, Lines, recvVars, SGivesBlock, SBlock, SendShape
<1>2. Size[sfile] \in Nat /\ spos < Size[sfile]
  BY <1>1, ZmAssumption DEF Files, SGivesBlock
<1>3. /\ toR' = toR \o <<b>> /\ spos' = spos + 1 /\ spc' = IF last THEN "ack" ELSE "poll"
      /\ UNCHANGED <<sfile, sbase, toS>>
  BY DEF SGivesBlock, SBlock, SReply
<1>4. rfp = "open" /\ During /\ Streaming
  BY <1>1 DEF Live, Before, During, Offering, Finishing
<1>5. t \in {"ZCRCG", "ZCRCW"} /\ (t = "ZCRCW" <=> last)
  OBVIOUS
<1>6. spos + 1 \in Nat /\ spos + 1 # 0 /\ spos + 1 <= Size[sfile]
  BY <1>1, <1>2
<1>. HIDE DEF t
<1>7. /\ b \in GoodItems /\ b \notin Of({"ZEOF"}) /\ b \notin Infos /\ b \in Datas
      /\ b.typ = t /\ b.blk[1] = sfile /\ b.blk[2] = spos + 1
  BY <1>1, <1>5, <1>6, SubpacketIs
<1>8. b \notin Stray(sfile)
  <2>. HIDE DEF b
  <2>. QED BY <1>2, <1>5, <1>6, <1>7 DEF Stray
<1>9. Fits(Ends(At, toR), b)
  <2>1. Fits(Ends(At, toR), Due)
    BY <1>1 DEF Live, Chained
  <2>2. Due \in Datas /\ Due.blk[2] = spos + 1
    BY <1>1, <1>6, SubpacketIs DEF Due
  <2>. HIDE DEF b
  <2>. QED BY <1>7, <2>1, <2>2 DEF Fits
<1>10. Linked(At, toR') /\ Ends(At, toR') = b
  <2>. HIDE DEF b
  <2>. QED BY <1>1, <1>3, <1>7, <1>9, LinkedMore DEF Live, Chained
<1>11. Chained'
  <2>1. CASE last
    BY <1>1, <1>3, <1>10, <2>1 DEF Chained
  <2>2. CASE ~last
    <3>. DEFINE d == Subpacket("ZCRCW", <<sfile, (spos + 1) + 1>>)
    <3>1. d \notin Infos /\ d.blk[2] = (spos + 1) + 1
      BY <1>1, <1>6, SubpacketIs
    <3>2. Due' = d
      BY <1>3 DEF Due
    <3>3. b.typ = "ZCRCG"
      BY <1>5, <1>7, <2>2
    <3>. HIDE DEF d, b
    <3>4. Fits(b, d)
      BY <1>7, <3>1, <3>3 DEF Fits
    <3>. QED BY <1>1, <1>10, <3>2, <3>4 DEF Chained
  <2>. QED BY <2>1, <2>2
<1>12. Without(toR', Of({"ZEOF"})) /\ Without(toR', Stray(sfile))
  <2>. HIDE DEF b
  <2>. QED BY <1>1, <1>3, <1>4, <1>7, <1>8, MoreWithout DEF During, Streaming
<1>13. Streaming'
  <2>1. spc' \in {"poll", "ack"} /\ (spc' # "ack" => spos + 1 < Size[sfile])
    BY <1>2, <1>3, <1>6
  <2>. QED BY <1>1, <1>3, <1>4, <1>12, <2>1 DEF Streaming
<1>14. During'
  BY <1>1, <1>3, <1>4, <1>12, <1>13 DEF During
<1>. QED BY <1>1, <1>4, <1>11, <1>14 DEF Live

LEMMA SEndsKeeps ==
    ASSUME WInv, Live, SEnds, UNCHANGED recvVars
    PROVE  Live'
<1>1. /\ toR \in Seq(GoodItems) /\ toS \in Seq(GoodItems) /\ Lines
      /\ UNCHANGED <<rpc, rfile, rfp, disc, mtime>> /\ At' = At /\ sfile \in Files
      /\ spc \in {"stream", "poll", "ack", "zeof"}
  BY AtStays DEF WInv, IInv, Lines, recvVars, SEnds, SendShape
<1>2. Size[sfile] \in Nat
  BY <1>1, ZmAssumption DEF Files
<1>. DEFINE n == Size[sfile]
<1>3. spc' = "zeof" /\ toR' = toR \o <<Header("ZEOF", n)>> /\ UNCHANGED <<sfile, spos, sbase>>
  BY DEF SEnds, SSendEof, SReply
<1>4. /\ "ZEOF" \in HeaderTypes \cup {"OO"} /\ Header("ZEOF", n) \notin Of({"ZDATA"})
      /\ Header("ZEOF", n) \notin Datas /\ Header("ZEOF", n) \notin Infos
      /\ Header("ZEOF", n) \notin Stray(sfile)
  BY <1>2, HeaderIs DEF HeaderTypes, Stray
<1>5. /\ \A B : Without(toR, B) /\ Header("ZEOF", n) \notin B => Without(toR', B)
      /\ \A A, B : Behind(toR, A, B) /\ (Header("ZEOF", n) \notin B \/ Without(toR, A)) => Behind(toR', A, B)
      /\ \A at : Linked(at, toR) => Linked(at, toR') /\ Ends(at, toR') = Header("ZEOF", n)
  BY <1>1, <1>2, <1>3, <1>4, HeaderSent
<1>6. Chained'
  BY <1>1, <1>3, <1>5 DEF Live, Chained
<1>7. CASE rfp # "open"
  <2>1. Before /\ spc = "zeof" /\ Less(toS', toS)
    BY <1>1, <1>7 DEF Live, Before, SEnds
  <2>. DEFINE Other == {m \in Infos : spc # "zfile" \/ m.blk[1] # sfile}
              Other2 == {m \in Infos : spc' # "zfile" \/ m.blk[1] # sfile'}
  <2>2. Other = Infos /\ Other2 = Infos
    BY <1>3, <2>1
  <2>3. Without(toR, Infos)
    <3>1. Without(toR, Other)
      BY <2>1 DEF Before
    <3>. HIDE DEF Other
    <3>. QED BY <2>2, <3>1
  <2>4. Without(toS', Of({"ZRPOS"}))
    BY <2>1, LessWithout, SoundHere DEF Before
  <2>5. Without(toR', Of({"ZDATA"})) /\ Without(toR', Datas) /\ Without(toR', Infos)
    BY <1>4, <1>5, <2>1, <2>3 DEF Before
  <2>6. Behind(toR', Infos, Of({"ZEOF"}))
    BY <2>5, BehindNone
  <2>7. Before'
    BY <1>1, <1>3, <2>1, <2>2, <2>4, <2>5, <2>6 DEF Before
  <2>. QED BY <1>1, <1>6, <1>7, <2>7 DEF Live
<1>8. CASE rfp = "open"
  <2>1. During /\ ~Offering
    BY <1>1, <1>8 DEF Live, Offering
  <2>2. CASE Finishing
    <3>1. Less(toS', toS)
      BY <2>2 DEF Finishing, SEnds
    <3>2. Without(toS', Of({"ZRPOS", "ZRINIT"})) /\ Without(toS', Far(sfile))
      BY <2>1, <2>2, <3>1, LessWithout, SoundHere DEF Finishing, During
    <3>3. /\ Behind(toR', Of({"ZEOF"}), Of({"ZDATA"})) /\ Behind(toR', Of({"ZEOF"}), Datas)
          /\ Behind(toR', Of({"ZEOF"}), Infos) /\ Without(toR', Stray(sfile))
      BY <1>4, <1>5, <2>1, <2>2 DEF Finishing, During
    <3>4. Finishing'
      BY <1>1, <1>3, <2>2, <3>2, <3>3 DEF Finishing
    <3>. QED BY <1>1, <1>3, <1>6, <1>8, <2>1, <3>2, <3>3, <3>4 DEF During, Live
  <2>3. CASE Streaming
    <3>1. /\ toS # <<>> /\ toS' = Tail(toS) /\ IsHeader(Head(toS))
          /\ Head(toS).typ \notin {"ZRPOS", "ZNAK"}
      BY <2>3 DEF Streaming, SEnds
    <3>2. /\ Head(toS) \in Items /\ \A B : Without(toS, B) => Head(toS) \notin B
          /\ \A A, B : Behind(toS, A, B) /\ Head(toS) \in A => Without(toS', B)
      BY <1>1, <3>1, HeadOff
    <3>3. Less(toS', toS)
      BY <1>1, <3>1, LessTail
    <3>4. Head(toS).typ = "ZACK" /\ Head(toS) \in Of({"ZACK", "ZNAK"})
      <4>1. Head(toS) \notin Unlike({"ZRPOS", "ZACK", "ZNAK"})
        BY <2>3, <3>2 DEF Streaming
      <4>2. Head(toS).typ \notin Ruins
        BY <3>1 DEF IsHeader, HeaderTypes, Ruins
      <4>. QED BY <3>1, <3>2, <4>1, <4>2 DEF Unlike, Of
    <3>5. rpc = "zeof"
      BY <2>3, <3>2, <3>4 DEF Streaming
    <3>6. Without(toS', Of({"ZRPOS"}))
      BY <2>3, <3>2, <3>4 DEF Streaming
    <3>7. Without(toS', Unlike({"ZRPOS", "ZACK", "ZNAK"})) /\ Without(toS', Far(sfile))
      BY <2>1, <2>3, <3>3, LessWithout, SoundHere DEF Streaming, During
    <3>8. Without(toS', Of({"ZRPOS", "ZRINIT"}))
      <4>1. \A m \in Of({"ZRPOS", "ZRINIT"}) :
               m \in Of({"ZRPOS"}) \/ m \in Unlike({"ZRPOS", "ZACK", "ZNAK"})
        BY DEF Of, Unlike, Ruins
      <4>. QED BY <3>6, <3>7, <4>1 DEF Without
    <3>9. /\ Behind(toR', Of({"ZEOF"}), Of({"ZDATA"})) /\ Behind(toR', Of({"ZEOF"}), Datas)
          /\ Behind(toR', Of({"ZEOF"}), Infos) /\ Without(toR', Stray(sfile))
      <4>1. /\ Behind(toR, Of({"ZEOF"}), Of({"ZDATA"})) /\ Behind(toR, Of({"ZEOF"}), Datas)
            /\ Behind(toR, Of({"ZEOF"}), Infos)
        BY <2>3, BehindNone DEF Streaming
      <4>. QED BY <1>4, <1>5, <2>1, <4>1 DEF During
    <3>10. Finishing'
      BY <1>1, <1>3, <3>5, <3>8, <3>9 DEF Finishing
    <3>. QED BY <1>1, <1>3, <1>6, <1>8, <2>1, <3>7, <3>9, <3>10 DEF During, Live
  <2>. QED BY <2>1, <2>2, <2>3 DEF During
<1>. QED BY <1>7, <1>8

LEMMA SFinishesKeeps ==
    ASSUME WInv, Live, SFinishes, UNCHANGED recvVars
    PROVE  Live' /\ Told'
<1>1. /\ toR \in Seq(GoodItems) /\ toS \in Seq(GoodItems) /\ sfile \in Files /\ sfile \in Nat
      /\ UNCHANGED <<rpc, rfile, rfp, disc, mtime>> /\ At' = At
      /\ sent \in [Files -> {"no", "sent", "skipped", "unopened"}]
  BY AtStays, ZmAssumption DEF WInv, IInv, Lines, recvVars, SFinishes, SendShape, Files
<1>2. toS # <<>> /\ toS' = Tail(toS) /\ spc = "zeof" /\ spc' = "open" /\ toR' = toR /\ sfile' = sfile + 1
  BY DEF SFinishes
<1>3. Head(toS) \in Items /\ \A B : Without(toS, B) => Head(toS) \notin B
  BY <1>1, <1>2, HeadOff
<1>4. Head(toS) \in Of({"ZRPOS", "ZRINIT"})
  BY <1>3 DEF SFinishes, Of
<1>5. rfp # "open" /\ Before
  BY <1>2, <1>3, <1>4 DEF Live, During, Offering, Streaming, Finishing
<1>6. Without(toS', Of({"ZRPOS"}))
  BY <1>1, <1>2, <1>5, LessTail, LessWithout, SoundHere DEF Before
<1>7. Before'
  <2>. DEFINE Other == {m \in Infos : spc # "zfile" \/ m.blk[1] # sfile}
              Other2 == {m \in Infos : spc' # "zfile" \/ m.blk[1] # sfile'}
  <2>1. Other2 = Other
    BY <1>2
  <2>. QED BY <1>2, <1>5, <1>6, <2>1 DEF Before
<1>8. Chained'
  BY <1>1, <1>2 DEF Live, Chained
<1>9. Told'
  <2>1. Len(disc[sfile]) = Size[sfile] /\ mtime[sfile] = "same"
    BY <1>2, <1>5 DEF Before
  <2>2. \A f \in Files : sent'[f] = "sent" => f = sfile \/ sent[f] = "sent"
    BY <1>1 DEF SFinishes
  <2>3. \A f \in Files : f < sfile \/ f = sfile => f < sfile + 1
    BY <1>1 DEF Files
  <2>. QED BY <1>1, <1>2, <2>1, <2>2, <2>3 DEF WInv, Told
<1>. QED BY <1>1, <1>5, <1>7, <1>8, <1>9 DEF Live

\* Every step of zmtx.
LEMMA SendInStep ==
    ASSUME WInv, SendShape', NEW peer, SendNext(peer), UNCHANGED recvVars
    PROVE  Kept' /\ Told' /\ NoSkip' /\ (BothExit' \/ Live')
<1>1. \/ SGoesOn \/ SPasses \/ SOffers \/ SRewinds \/ SGivesBlock \/ SEnds \/ SFinishes \/ SIsRefused
  BY SendKinds DEF WInv
<1>2. toS \in Seq(GoodItems) /\ sfile \in Nat
  BY ZmAssumption DEF WInv, IInv, Lines, SendShape
<1>3. ~SIsRefused
  <2>1. ASSUME SIsRefused PROVE FALSE
    <3>1. Head(toS) \in Items /\ Head(toS) \notin Of({"ZSKIP"})
      BY <1>2, <2>1, HeadOff DEF SIsRefused, WInv, NoSkip
    <3>. QED BY <2>1, <3>1 DEF SIsRefused, Of
  <2>. QED BY <2>1
<1>4. Kept'
  BY DEF WInv, Kept, recvVars
<1>5. NoSkip'
  <2>1. Less(toS', toS)
    <3>1. toS' = toS \/ (toS # <<>> /\ toS' = Tail(toS)) \/ Less(toS', toS)
      BY <1>1, <1>3 DEF SGoesOn, SPasses, SOffers, SRewinds, SGivesBlock, SBlock, SEnds, SFinishes
    <3>. QED BY <1>2, <3>1, LessTail, LessSame
  <2>. QED BY <2>1, LessWithout, SoundHere DEF WInv, NoSkip
<1>6. sfile' \in 1..(NFiles + 1)
  BY DEF SendShape
<1>7. ASSUME ~SFinishes PROVE Told'
  <2>1. sfile' >= sfile /\ \A f \in Files : sent'[f] \in {sent[f], "unopened"}
    BY <1>1, <1>2, <1>3, <1>7 DEF SGoesOn, SPasses, sendVars, SOffers, SRewinds, SSendFrom,
                       SGivesBlock, SBlock, SEnds, SSendEof
  <2>2. \A f \in Files : f < sfile => f < sfile'
    <3>1. sfile' \in Int
      BY <1>6
    <3>. QED BY <1>2, <2>1, <3>1 DEF Files
  <2>3. \A f \in Files : sent'[f] = "sent" => sent[f] = "sent"
    BY <2>1
  <2>. QED BY <2>2, <2>3 DEF WInv, Told, recvVars
<1>8. BothExit => BothExit'
  <2>1. spc = "exit" => SPasses
    BY <1>1, <1>3 DEF SGoesOn, SOffers, SRewinds, SGivesBlock, SBlock, SEnds, SFinishes
  <2>. QED BY <2>1 DEF BothExit, SPasses, sendVars, recvVars
<1>9. Live => Live'
  BY <1>1, <1>3, SGoesOnKeeps, SPassesKeeps, SOffersKeeps, SRewindsKeeps, SGivesBlockKeeps,
     SEndsKeeps, SFinishesKeeps
<1>10. SFinishes => Live
  BY DEF WInv, BothExit, SFinishes
<1>11. Told'
  BY <1>7, <1>10, SFinishesKeeps
<1>. QED BY <1>4, <1>5, <1>8, <1>9, <1>11 DEF WInv

-----------------------------------------------------------------------------
(* zmrx: what its steps come to.                                            *)

\* What zmrx says while it has no file open.
Polite == {Header(t, 0) : t \in {"ZRINIT", "ZCOMPL", "ZNAK", "ZFIN"}}

ROut ==
    /\ rfp # "open" /\ rfp' # "open" /\ Less(toR', toR)
    /\ \E items \in Seq(Polite) : toS' = toS \o items
    /\ disc' = disc /\ \A f \in Files : mtime'[f] \in {mtime[f], "same"}

\* It opens the file whose name has arrived.
ROpen ==
    /\ rfp # "open" /\ rfp' = "open" /\ rpc = "info" /\ ~mangled
    /\ toR # <<>> /\ toR' = Tail(toR) /\ Head(toR).typ \in {"ZCRCG", "ZCRCW"}
    /\ rfile' = Head(toR).blk[1] /\ rfile' \in Files
    /\ \A f \in Files : \/ disc'[f] = disc[f] /\ mtime'[f] = mtime[f]
                        \/ f = rfile' /\ disc'[f] = <<>> /\ mtime[f] # "same"
    /\ RAskFor(rfile', disc'[rfile'], <<Header("ZACK", 0)>>)

\* It leaves the open file alone: it asks again, ignores something, or begins
\* to listen to a frame.
RAsk ==
    /\ rpc \in {"zdata", "data"} /\ Less(toR', toR) /\ UNCHANGED <<rfile, rfp, disc, mtime>>
    /\ RAskFor(rfile, disc[rfile], <<>>)

RPass ==
    /\ rfp = "open" /\ Less(toR', toR) /\ UNCHANGED <<toS, rfile, rfp, disc, mtime>>
    /\ rpc' = rpc \/ (rpc = "zdata" /\ rpc' = "data" /\ toR # <<>> /\ Head(toR).typ = "ZDATA")

RNak ==
    /\ rpc = "zeof" /\ Less(toR', toR) /\ UNCHANGED <<rpc, rfile, rfp, disc, mtime>>
    /\ toS' = toS \o <<Header("ZNAK", 0)>>

RWrite ==
    /\ rpc = "data" /\ ~mangled /\ ~mangled' /\ UNCHANGED <<rfile, rfp>>
    /\ toR # <<>> /\ toR' = Tail(toR) /\ Head(toR).typ \in {"ZCRCG", "ZCRCW"}
    /\ disc' = [disc EXCEPT ![rfile] = Append(@, Head(toR).blk)]
    /\ mtime' = [mtime EXCEPT ![rfile] = "newer"]
    /\ \/ Head(toR).typ = "ZCRCG" /\ UNCHANGED <<toS, rpc>>
       \/ Head(toR).typ = "ZCRCW" /\ RAskFor(rfile, Append(disc[rfile], Head(toR).blk), <<Header("ZACK", 0)>>)

RClose ==
    /\ rpc = "zeof" /\ rpc' = "idle" /\ rfp' = "null" /\ UNCHANGED <<rfile, disc>>
    /\ toR # <<>> /\ toR' = Tail(toR) /\ Head(toR).typ = "ZEOF"
    /\ toS' = toS \o ZRInit
    /\ mtime' = [mtime EXCEPT ![rfile] = "same"]

LEMMA PoliteWords ==
    /\ <<>> \in Seq(Polite) /\ ZRInit \in Seq(Polite) /\ <<Header("ZFIN", 0)>> \in Seq(Polite)
    /\ <<Header("ZCOMPL", 0)>> \o ZRInit \in Seq(Polite)
    /\ <<Header("ZNAK", 0)>> \o ZRInit \in Seq(Polite)
    /\ <<>> \o ZRInit \in Seq(Polite)
<1>1. \A t \in {"ZRINIT", "ZCOMPL", "ZNAK", "ZFIN"} : <<Header(t, 0)>> \in Seq(Polite)
  BY DEF Polite
<1>2. ZRInit \in Seq(Polite) /\ <<>> \in Seq(Polite)
  BY <1>1 DEF ZRInit
<1>3. \A x, y \in Seq(Polite) : x \o y \in Seq(Polite)
  BY SeqFacts
<1>. QED BY <1>1, <1>2, <1>3

\* The end of zmrx when no file is open.
LEMMA Quits ==
    ASSUME RecvShape, Cleanup
    PROVE  rfp' # "open" /\ \A f \in Files : mtime'[f] \in {mtime[f], "same"}
BY DEF RecvShape, Cleanup

LEMMA RecvKinds ==
    ASSUME IInv, Kept, Welcome, NEW peer, RecvNext(peer)
    PROVE  ROut \/ ROpen \/ RAsk \/ RPass \/ RNak \/ RWrite \/ RClose
<1>. USE DEF IInv
<1>1. toR \in Seq(GoodItems) /\ toS \in Seq(GoodItems) /\ Lines
  BY DEF Lines
<1>2. toS \o <<>> = toS
  BY <1>1, ConcatEmptySeq
<1>3. rfp = "open" <=> rpc \in {"zdata", "data", "zeof"}
  BY DEF RecvShape
<1>4. toR # <<>> /\ toR' = Tail(toR) => Less(toR', toR)
  BY <1>1, LessTail
<1>5. toR' = toR => Less(toR', toR)
  BY LessSame
<1>6. /\ toS' = toS => \E items \in Seq(Polite) : toS' = toS \o items
      /\ \A items \in Seq(Polite) : RReply(items) => \E i \in Seq(Polite) : toS' = toS \o i
  BY <1>2, PoliteWords DEF RReply
<1>7. UNCHANGED mtime => \A f \in Files : mtime'[f] \in {mtime[f], "same"}
  OBVIOUS
<1>8. CASE RStart(peer)
  <2>1. Less(toR', toR)
    BY <1>1, <1>8, LessPurged DEF RStart
  <2>. QED BY <1>3, <1>6, <1>7, <1>8, <2>1, PoliteWords DEF RStart, ROut
<1>9. ASSUME NEW t, RDispatch(t) PROVE \E items \in Seq(Polite) : toS' = toS \o items
  BY <1>6, <1>9, PoliteWords DEF RDispatch
<1>10. ASSUME RInvite, rfp # "open"
       PROVE /\ rfp' # "open" /\ \A f \in Files : mtime'[f] \in {mtime[f], "same"}
             /\ \E items \in Seq(Polite) : toS' = toS \o items
  BY <1>6, <1>7, <1>10, PoliteWords, Quits DEF RInvite
<1>11. CASE RContact(peer)
  <2>1. rfp # "open" /\ disc' = disc /\ Less(toR', toR)
    BY <1>3, <1>4, <1>5, <1>11 DEF RContact, RHears
  <2>2. CASE RInvite
    BY <1>10, <2>1, <2>2 DEF ROut
  <2>3. CASE RDispatch(Head(toR).typ) /\ UNCHANGED <<rtries, rfp, mtime>>
    BY <1>7, <1>9, <2>1, <2>3 DEF ROut
  <2>. QED BY <1>11, <2>2, <2>3 DEF RContact
<1>12. CASE RIdle(peer)
  <2>1. rfp # "open" /\ rfp' = rfp /\ UNCHANGED <<disc, mtime>> /\ Less(toR', toR)
    BY <1>3, <1>4, <1>5, <1>12 DEF RIdle, RHears
  <2>2. RDispatch(Head(toR).typ) \/ RReply(<<Header("ZFIN", 0)>>) \/ RReply(ZRInit)
    BY <1>12 DEF RIdle
  <2>3. \E items \in Seq(Polite) : toS' = toS \o items
    BY <1>6, <1>9, <2>2, PoliteWords
  <2>. QED BY <1>7, <2>1, <2>3 DEF ROut
<1>13. CASE ROverAndOut(peer)
  <2>1. rfp # "open" /\ UNCHANGED <<toS, disc>> /\ Less(toR', toR)
    BY <1>3, <1>4, <1>5, <1>13 DEF ROverAndOut
  <2>2. Cleanup \/ UNCHANGED <<rpc, rfp, mtime>>
    BY <1>13 DEF ROverAndOut
  <2>3. rfp' # "open" /\ \A f \in Files : mtime'[f] \in {mtime[f], "same"}
    BY <1>7, <2>1, <2>2, Quits
  <2>. QED BY <1>6, <2>1, <2>3 DEF ROut
<1>14. CASE RInfo(peer)
  <2>1. rfp # "open" /\ Less(toR', toR) /\ rpc = "info"
    BY <1>3, <1>4, <1>5, <1>14 DEF RInfo
  <2>2. CASE \E items \in Seq(Polite) : toS' = toS \o items /\ UNCHANGED <<disc, mtime, rfp>>
    BY <1>7, <2>1, <2>2 DEF ROut
  <2>3. ASSUME NEW items, RGivesUp(items), items \o ZRInit \in Seq(Polite), UNCHANGED rfp
        PROVE  \E i \in Seq(Polite) : toS' = toS \o i /\ UNCHANGED <<disc, mtime, rfp>>
    BY <2>3 DEF RGivesUp, RReply
  <2>4. CASE TimesOut(toR, toS, peer) /\ RGivesUp(<<>>) /\ UNCHANGED <<toR, rfile, rfp, mangled>>
    BY <2>2, <2>3, <2>4, PoliteWords
  <2>5. CASE toR # <<>> /\ IsSubpacket(Head(toR)) /\ toR' = Tail(toR) /\ (mangled \/ Head(toR).typ = "trash")
    <3>1. RGivesUp(<<Header("ZNAK", 0)>>) /\ UNCHANGED rfp
      BY <1>14, <2>5 DEF RInfo, TimesOut
    <3>. QED BY <2>2, <2>3, <3>1, PoliteWords
  <2>6. CASE toR # <<>> /\ IsSubpacket(Head(toR)) /\ toR' = Tail(toR) /\ ~(mangled \/ Head(toR).typ = "trash")
    <3>. DEFINE f == Head(toR).blk[1]
                ack == <<Header("ZACK", 0)>>
    <3>1. f \in Files /\ Head(toR).typ \in {"ZCRCG", "ZCRCW"}
      BY <1>1, <2>6, RHearing DEF IsSubpacket, SubpacketTypes
    <3>2. mtime[f] \in {"none", "same"} /\ f \notin scene.readonly
      BY <2>1, <3>1 DEF Kept, Welcome, UserShape
    <3>3. rfile' = f /\ ROpens(f, ack)
      BY <1>14, <2>6, <3>2 DEF RInfo, TimesOut
    <3>4. /\ rfp' = "open" /\ RAskFor(f, disc'[f], ack)
          /\ disc' = [disc EXCEPT ![f] = IF mtime[f] = "same" THEN disc[f] ELSE <<>>]
          /\ mtime' = [mtime EXCEPT ![f] = IF mtime[f] = "same" THEN mtime[f] ELSE "newer"]
      BY <3>2, <3>3 DEF ROpens
    <3>5. disc \in [Files -> Seq(Blocks)] /\ mtime \in [Files -> Dates]
      BY DEF RecvShape, Blocks
    <3>6. \A g \in Files : \/ disc'[g] = disc[g] /\ mtime'[g] = mtime[g]
                           \/ g = f /\ disc'[g] = <<>> /\ mtime[g] # "same"
      BY <3>1, <3>4, <3>5
    <3>. QED BY <2>1, <2>6, <3>1, <3>3, <3>4, <3>6 DEF ROpen
  <2>. QED BY <1>14, <2>4, <2>5, <2>6 DEF RInfo
<1>15. CASE RData(peer)
  <2>1. /\ rfp = "open" /\ rpc = "zdata" /\ Less(toR', toR) /\ UNCHANGED <<rfile, rfp, disc, mtime>>
    BY <1>3, <1>4, <1>5, <1>15 DEF RData, RHears
  <2>2. CASE RHears
    BY <1>15, <2>1, <2>2 DEF RData, RHears, RPass, TimesOut
  <2>3. CASE ~RHears
    BY <1>15, <2>1, <2>3 DEF RData, RAsk
  <2>. QED BY <2>2, <2>3
<1>16. CASE RSubpacket(peer)
  <2>1. /\ rfp = "open" /\ rpc = "data" /\ Less(toR', toR) /\ UNCHANGED <<rfile, rfp>>
    BY <1>3, <1>4, <1>5, <1>16 DEF RSubpacket
  <2>2. CASE RAskFor(rfile, disc[rfile], <<>>) /\ UNCHANGED <<disc, mtime>>
    BY <2>1, <2>2 DEF RAsk
  <2>3. CASE toR # <<>> /\ IsSubpacket(Head(toR)) /\ toR' = Tail(toR) /\ ~(mangled \/ Head(toR).typ = "trash")
    <3>1. Head(toR).typ \in {"ZCRCG", "ZCRCW"}
      BY <2>3 DEF IsSubpacket, SubpacketTypes
    <3>2. /\ disc' = [disc EXCEPT ![rfile] = Append(disc[rfile], Head(toR).blk)]
          /\ mtime' = [mtime EXCEPT ![rfile] = "newer"] /\ ~mangled'
          /\ \/ Head(toR).typ = "ZCRCG" /\ UNCHANGED <<toS, rpc>>
             \/ Head(toR).typ = "ZCRCW"
                /\ RAskFor(rfile, Append(disc[rfile], Head(toR).blk), <<Header("ZACK", 0)>>)
      BY <1>16, <2>3 DEF RSubpacket, TimesOut
    <3>. QED BY <2>1, <2>3, <3>1, <3>2 DEF RWrite
  <2>. QED BY <1>16, <2>2, <2>3 DEF RSubpacket
<1>17. CASE RSwallow
  <2>1. Less(toR', toR) /\ UNCHANGED <<toS, rpc, rfile, rfp, disc, mtime>>
    BY <1>4, <1>17 DEF RSwallow
  <2>. QED BY <1>6, <1>7, <2>1 DEF ROut, RPass
<1>18. CASE REof
  <2>1. /\ rfp = "open" /\ rpc = "zeof" /\ Less(toR', toR) /\ UNCHANGED <<rfile, disc>>
        /\ toR # <<>> /\ toR' = Tail(toR)
    BY <1>3, <1>4, <1>18 DEF REof
  <2>2. CASE Head(toR).typ = "ZEOF"
    BY <1>18, <2>1, <2>2 DEF REof, RReply, RClose
  <2>3. CASE Head(toR).typ = "bad"
    BY <1>18, <2>1, <2>3 DEF REof, RReply, RNak
  <2>4. CASE Head(toR).typ \notin {"ZEOF", "bad"}
    BY <1>18, <2>1, <2>4 DEF REof, RPass
  <2>. QED BY <2>2, <2>3, <2>4
<1>19. CASE RDrop
  <2>1. Less(toR', toR) /\ UNCHANGED <<toS, rpc, rfile, rfp, disc, mtime>>
    BY <1>4, <1>19 DEF RDrop, recvVars
  <2>. QED BY <1>6, <1>7, <2>1 DEF ROut, RPass
<1>. QED BY <1>8, <1>11, <1>12, <1>13, <1>14, <1>15, <1>16, <1>17, <1>18, <1>19 DEF RecvNext

-----------------------------------------------------------------------------
(* zmrx: each of them keeps the two programs in step.                       *)

\* The line from an item on that the receiver has not got by.
LEMMA TrashAllows == \A y : Fits(Trash, y) /\ Allows(Trash, y)
<1>1. Trash.typ \in Ruins
  BY DEF Trash, Subpacket, Ruins
<1>. QED BY <1>1, RuinedAllows

LEMMA ChainedOn ==
    ASSUME Chained, UNCHANGED sendVars,
           Linked(At', toR') /\ Allows(Ends(At', toR'), Ends(At, toR))
    PROVE  Chained'
BY DEF Chained, Due, sendVars, Allows

\* zmrx goes by nothing it has heard.
LEMMA ChainedAnew ==
    ASSUME Chained, Lines, UNCHANGED sendVars, At' = Trash, NEW peer,
           toR' = toR \/ (toR # <<>> /\ toR' = Tail(toR)) \/ toR' \in Purged(toR, peer)
    PROVE  Chained'
<1>1. toR \in Seq(GoodItems) /\ Linked(At, toR) /\ Trash.typ \in Ruins
  BY DEF Lines, Chained, Trash, Subpacket, Ruins
<1>2. CASE toR' = toR
  <2>1. Linked(Trash, toR) /\ Allows(Ends(Trash, toR), Ends(At, toR))
    BY <1>1, TrashAllows, LinkedAnew
  <2>. QED BY <1>2, <2>1, ChainedOn
<1>3. CASE toR # <<>> /\ toR' = Tail(toR)
  <2>1. Linked(Trash, Tail(toR)) /\ Allows(Ends(Trash, Tail(toR)), Ends(At, toR))
    BY <1>1, <1>3, TrashAllows, LinkedTail
  <2>. QED BY <1>3, <2>1, ChainedOn
<1>4. CASE toR' = <<>>
  <2>1. Linked(Trash, <<>>) /\ Ends(Trash, <<>>) = Trash
    BY DEF Linked, Ends
  <2>. QED BY <1>4, <2>1, TrashAllows, ChainedOn
<1>5. CASE \E k \in 0..Len(toR) : toR' = SubSeq(toR, k + 1, Len(toR))
  <2>1. PICK k \in 0..Len(toR) : toR' = SubSeq(toR, k + 1, Len(toR))
    BY <1>5
  <2>2. k + 1 \in Nat \ {0}
    BY <1>1, LenProperties
  <2>. DEFINE n == k + 1
  <2>3. n \in Nat \ {0} /\ toR' = SubSeq(toR, n, Len(toR))
    BY <2>1, <2>2
  <2>. HIDE DEF n
  <2>4. Linked(Trash, SubSeq(toR, n, Len(toR))) /\ Allows(Ends(Trash, SubSeq(toR, n, Len(toR))), Ends(At, toR))
    BY <1>1, <2>3, LinkedRest
  <2>. QED BY <2>3, <2>4, ChainedOn
<1>. QED BY <1>2, <1>3, <1>4, <1>5 DEF Purged

\* zmrx has taken an item off the line and expects what may follow it.
LEMMA ChainedTail ==
    ASSUME Chained, Lines, UNCHANGED sendVars, toR # <<>>, toR' = Tail(toR), Allows(At', toR[1])
    PROVE  Chained'
<1>1. Linked(At', Tail(toR)) /\ Allows(Ends(At', Tail(toR)), Ends(At, toR))
  BY LinkedTail DEF Lines, Chained
<1>. QED BY <1>1, ChainedOn

\* The block that arrives is the next one of the open file.
LEMMA NextBlock ==
    ASSUME IInv, Chained, During, rpc = "data", ~mangled, toR # <<>>, Head(toR).typ \in {"ZCRCG", "ZCRCW"}
    PROVE  /\ Head(toR).blk = <<rfile, Len(disc[rfile]) + 1>>
           /\ Head(toR) = toR[1] /\ rfile = sfile /\ rfile \in Files /\ Len(disc[rfile]) \in Nat
           /\ Head(toR).typ = "ZCRCW" => Len(disc[rfile]) + 1 = Size[rfile]
           /\ Head(toR).typ = "ZCRCG" => Len(disc[rfile]) + 1 < Size[rfile]
<1>1. /\ toR \in Seq(GoodItems) /\ rfile = sfile /\ rfile \in Files /\ Size[rfile] \in Nat
      /\ Len(disc[rfile]) \in Nat
  <2>1. toR \in Seq(GoodItems) /\ rfile = sfile /\ rfile \in Files /\ disc[rfile] \in Seq(Blocks)
    BY DEF IInv, Lines, RecvShape, During, Blocks
  <2>2. Size[rfile] \in Nat
    BY <2>1, ZmAssumption DEF Files
  <2>. QED BY <2>1, <2>2, LenProperties
<1>. DEFINE n == Len(disc[rfile])
            at == Subpacket("ZCRCG", <<rfile, n>>)
<1>2. At = at
  BY DEF At
<1>3. at.typ = "ZCRCG" /\ at.blk[2] = n
  BY <1>1, SubpacketIs
<1>4. Fits(at, toR[1])
  BY <1>2 DEF Chained, Linked
<1>5. /\ Head(toR) = toR[1] /\ Head(toR) \in Items /\ \A B : Without(toR, B) => Head(toR) \notin B
  BY <1>1, HeadOff
<1>. HIDE DEF at
<1>6. Head(toR) \in Datas
  <2>1. toR[1] \notin Infos
    BY <1>3, <1>4 DEF Fits, Ruins
  <2>. QED BY <1>5, <2>1 DEF Infos, Datas
<1>7. Head(toR).blk[2] = n + 1
  BY <1>3, <1>4, <1>5, <1>6 DEF Fits, Ruins
<1>8. Head(toR) \notin Stray(sfile)
  BY <1>5 DEF During
<1>9. Head(toR).blk[1] = sfile /\ Head(toR).blk[2] <= Size[sfile]
      /\ (Head(toR).typ = "ZCRCW" => Head(toR).blk[2] = Size[sfile])
      /\ (Head(toR).typ = "ZCRCG" => Head(toR).blk[2] # Size[sfile])
  BY <1>1, <1>6, <1>7, <1>8 DEF Stray
<1>10. Head(toR).blk = <<rfile, n + 1>>
  <2>1. Head(toR).blk \in (0..NFiles) \X Nat
    BY <1>5 DEF Items
  <2>. QED BY <1>1, <1>7, <1>9, <2>1
<1>11. /\ Head(toR).typ = "ZCRCW" => n + 1 = Size[rfile]
       /\ Head(toR).typ = "ZCRCG" => n + 1 < Size[rfile]
  BY <1>1, <1>7, <1>9
<1>. QED BY <1>1, <1>5, <1>10, <1>11

\* A block is added to the file.
LEMMA Grown ==
    ASSUME IInv, rfile \in Files, NEW b \in Blocks,
           disc' = [disc EXCEPT ![rfile] = Append(@, b)]
    PROVE  /\ Len(disc'[rfile]) = Len(disc[rfile]) + 1 /\ disc'[rfile][Len(disc[rfile]) + 1] = b
           /\ \A i \in 1..Len(disc[rfile]) : disc'[rfile][i] = disc[rfile][i]
           /\ \A f \in Files \ {rfile} : disc'[f] = disc[f]
<1>1. disc \in [Files -> Seq(Blocks)] /\ disc[rfile] \in Seq(Blocks)
  BY DEF IInv, RecvShape, Blocks
<1>2. disc'[rfile] = Append(disc[rfile], b) /\ \A f \in Files \ {rfile} : disc'[f] = disc[f]
  BY <1>1
<1>. QED BY <1>1, <1>2, AppendProperties

LEMMA RecvChains ==
    ASSUME IInv, Live, NEW peer, RecvNext(peer), UNCHANGED sendVars
    PROVE  Chained'
<1>1. Chained /\ Lines
  BY DEF IInv, Live
<1>. DEFINE Onward == toR' = toR \/ (toR # <<>> /\ toR' = Tail(toR)) \/ toR' \in Purged(toR, peer)
<1>2. ASSUME Onward, At' = Trash PROVE Chained'
  BY <1>1, <1>2, ChainedAnew
<1>3. ASSUME rpc' \notin {"info", "data"} \/ mangled' PROVE At' = Trash
  BY <1>3 DEF At
<1>4. rpc \notin {"info", "data"} => At = Trash
  BY DEF At
<1>5. CASE RStart(peer)
  BY <1>2, <1>3, <1>5 DEF RStart
<1>6. ASSUME toR # <<>>, toR' = Tail(toR), RDispatch(Head(toR).typ) PROVE Chained'
  <2>1. CASE Head(toR).typ # "ZFILE"
    BY <1>2, <1>3, <1>6, <2>1 DEF RDispatch
  <2>2. CASE Head(toR).typ = "ZFILE"
    <3>1. At' = Header("ZFILE", 0)
      BY <1>6, <2>2 DEF RDispatch, At
    <3>2. Head(toR) = toR[1]
      BY <1>1, <1>6, HeadOff DEF Lines
    <3>3. Header("ZFILE", 0).typ = "ZFILE"
      BY DEF Header
    <3>4. Allows(At', toR[1])
      BY <2>2, <3>1, <3>2, <3>3 DEF Allows, Fits
    <3>. QED BY <1>1, <1>6, <3>4, ChainedTail
  <2>. QED BY <2>1, <2>2
<1>7. CASE RContact(peer)
  <2>1. CASE RHears /\ Head(toR).typ # "ZRQINIT"
    BY <1>6, <1>7, <2>1 DEF RContact, RHears, TimesOut
  <2>2. CASE ~(RHears /\ Head(toR).typ # "ZRQINIT")
    <3>1. Onward /\ rpc' \notin {"info", "data"}
      BY <1>7, <2>2 DEF RContact, RHears, RInvite, Cleanup
    <3>. QED BY <1>2, <1>3, <3>1
  <2>. QED BY <2>1, <2>2
<1>8. CASE RIdle(peer)
  <2>1. CASE RHears /\ Head(toR).typ # "ZFIN"
    BY <1>6, <1>8, <2>1 DEF RIdle, RHears, TimesOut
  <2>2. CASE ~(RHears /\ Head(toR).typ # "ZFIN")
    <3>1. Onward /\ rpc' \notin {"info", "data"}
      BY <1>8, <2>2 DEF RIdle, RHears
    <3>. QED BY <1>2, <1>3, <3>1
  <2>. QED BY <2>1, <2>2
<1>9. CASE ROverAndOut(peer)
  <2>1. Onward /\ rpc' \notin {"info", "data"}
    BY <1>9 DEF ROverAndOut, Cleanup
  <2>. QED BY <1>2, <1>3, <2>1
<1>10. CASE RInfo(peer)
  <2>1. Onward /\ rpc' \notin {"info", "data"}
    BY <1>10 DEF RInfo, RGivesUp, ROpens, RAskFor
  <2>. QED BY <1>2, <1>3, <2>1
<1>11. CASE RData(peer)
  <2>1. CASE RHears /\ Head(toR).typ = "ZDATA" /\ Head(toR).pos = Len(disc[rfile])
    <3>. DEFINE n == Len(disc[rfile])
    <3>1. rpc' = "data" /\ mangled' = FALSE /\ UNCHANGED <<rfile, disc>> /\ rpc = "zdata"
      BY <1>11, <2>1 DEF RData, RHears, TimesOut
    <3>2. At' = Subpacket("ZCRCG", <<rfile, n>>)
      BY <3>1 DEF At
    <3>3. rfile \in Files /\ n \in Nat
      <4>1. rfile \in Files /\ disc[rfile] \in Seq(Blocks)
        BY <3>1 DEF IInv, RecvShape, Blocks
      <4>. QED BY <4>1, LenProperties
    <3>4. At'.typ = "ZCRCG" /\ At'.blk[2] = n
      BY <3>2, <3>3, SubpacketIs
    <3>5. Head(toR) = toR[1] /\ toR # <<>> /\ toR' = Tail(toR)
      BY <1>1, <2>1, HeadOff DEF Lines, RHears
    <3>6. toR[1].typ = "ZDATA" /\ toR[1].pos = n
      BY <2>1, <3>5
    <3>7. Allows(At', toR[1])
      <4>. DEFINE at == At'
      <4>1. at.typ = "ZCRCG" /\ at.blk[2] = n
        BY <3>4
      <4>. HIDE DEF at, n
      <4>2. Allows(at, toR[1])
        BY <3>6, <4>1 DEF Allows, Fits, Ruins
      <4>. QED BY <4>2 DEF at
    <3>. QED BY <1>1, <3>5, <3>7, ChainedTail
  <2>2. CASE ~(RHears /\ Head(toR).typ = "ZDATA" /\ Head(toR).pos = Len(disc[rfile]))
    <3>1. Onward /\ rpc' \notin {"info", "data"}
      BY <1>11, <2>2 DEF RData, RHears, RAskFor
    <3>. QED BY <1>2, <1>3, <3>1
  <2>. QED BY <2>1, <2>2
<1>12. CASE RSubpacket(peer)
  <2>1. CASE rpc' # "data"
    <3>1. Onward /\ rpc' # "info"
      BY <1>12 DEF RSubpacket, RAskFor
    <3>. QED BY <1>2, <1>3, <2>1, <3>1
  <2>2. CASE rpc' = "data"
    <3>1. /\ rpc = "data" /\ toR # <<>> /\ toR' = Tail(toR) /\ ~mangled /\ mangled' = FALSE /\ rfile' = rfile
          /\ Head(toR).typ = "ZCRCG" /\ disc' = [disc EXCEPT ![rfile] = Append(@, Head(toR).blk)]
      BY <1>12, <2>2 DEF RSubpacket, RAskFor
    <3>2. During
      BY <3>1 DEF IInv, RecvShape, Live
    <3>3. /\ Head(toR).blk = <<rfile, Len(disc[rfile]) + 1>> /\ Head(toR) = toR[1]
          /\ rfile \in Files /\ Len(disc[rfile]) \in Nat
      BY <1>1, <3>1, <3>2, NextBlock
    <3>4. Len(disc'[rfile]) = Len(disc[rfile]) + 1
      BY <1>1, <3>1, <3>3, RHearing, Grown
    <3>. DEFINE n == Len(disc[rfile]) + 1
    <3>5. n \in Nat /\ Head(toR).blk[2] = n
      BY <3>3
    <3>6. At' = Subpacket("ZCRCG", <<rfile, n>>)
      BY <2>2, <3>1, <3>4 DEF At
    <3>. HIDE DEF n
    <3>7. At'.typ = "ZCRCG" /\ At'.blk[2] = n
      BY <3>3, <3>5, <3>6, SubpacketIs
    <3>8. Allows(At', toR[1])
      <4>. DEFINE at == At'
      <4>1. at.typ = "ZCRCG" /\ at.blk[2] = n
        BY <3>7
      <4>2. toR[1].typ = "ZCRCG" /\ toR[1].blk[2] = n
        BY <3>1, <3>3, <3>5
      <4>. HIDE DEF at
      <4>3. Allows(at, toR[1])
        BY <4>1, <4>2 DEF Allows, Fits, Ruins
      <4>. QED BY <4>3 DEF at
    <3>. QED BY <1>1, <3>1, <3>8, ChainedTail
  <2>. QED BY <2>1, <2>2
<1>13. CASE RSwallow
  <2>1. Onward /\ mangled'
    BY <1>13 DEF RSwallow
  <2>. QED BY <1>2, <1>3, <2>1
<1>14. CASE REof
  <2>1. Onward /\ rpc' \notin {"info", "data"}
    BY <1>14 DEF REof
  <2>. QED BY <1>2, <1>3, <2>1
<1>15. CASE RDrop
  <2>1. Onward /\ rpc' \notin {"info", "data"}
    BY <1>15 DEF RDrop, recvVars
  <2>. QED BY <1>2, <1>3, <2>1
<1>. QED BY <1>5, <1>7, <1>8, <1>9, <1>10, <1>11, <1>12, <1>13, <1>14, <1>15 DEF RecvNext

\* A header is sent to zmtx.
LEMMA HeaderSaid ==
    ASSUME Lines, NEW t \in HeaderTypes, NEW n \in Nat, toS' = toS \o <<Header(t, n)>>
    PROVE  /\ \A B : Without(toS, B) /\ Header(t, n) \notin B => Without(toS', B)
           /\ \A A, B : Behind(toS, A, B) /\ (Header(t, n) \notin B \/ Without(toS, A)) => Behind(toS', A, B)
<1>1. toS \in Seq(GoodItems) /\ Header(t, n) \in GoodItems
  BY HeaderIs DEF Lines
<1>. DEFINE m == Header(t, n)
<1>2. m \in GoodItems /\ toS' = toS \o <<m>>
  BY <1>1
<1>. HIDE DEF m
<1>3. \A B : Without(toS, B) /\ m \notin B => Without(toS', B)
  BY <1>1, <1>2, MoreWithout
<1>4. \A A, B : Behind(toS, A, B) /\ (m \notin B \/ Without(toS, A)) => Behind(toS', A, B)
  BY <1>1, <1>2, MoreBehind
<1>. QED BY <1>3, <1>4 DEF m

\* What is said outside a file is no ZRPOS and no ZSKIP.
LEMMA PolitelySaid ==
    ASSUME Lines, NEW items \in Seq(Polite), toS' = toS \o items,
           NEW B \in {Of({"ZRPOS"}), Of({"ZSKIP"})}, Without(toS, B)
    PROVE  Without(toS', B)
<1>1. \A m \in Polite : m \in GoodItems /\ m \notin B
  BY HeaderIs DEF Polite, HeaderTypes
<1>2. \A i \in 1..Len(items) : items[i] \notin B
  BY <1>1, ElementOfSeq
<1>3. items \in Seq(GoodItems) /\ toS \in Seq(GoodItems)
  <2>1. \A i \in 1..Len(items) : items[i] \in GoodItems
    BY <1>1, ElementOfSeq
  <2>2. items = [i \in 1..Len(items) |-> items[i]] /\ Len(items) \in Nat
    BY LenProperties
  <2>. DEFINE n == Len(items)
  <2>3. n \in Nat /\ items \in [1..n -> GoodItems]
    BY <2>1, <2>2
  <2>. HIDE DEF n
  <2>. QED BY <2>3 DEF Lines
<1>4. /\ Len(items) \in Nat /\ Len(toS) \in Nat /\ Len(toS') = Len(toS) + Len(items)
      /\ \A i \in 1..(Len(toS) + Len(items)) :
            toS'[i] = IF i <= Len(toS) THEN toS[i] ELSE items[i - Len(toS)]
  BY <1>3, ConcatProperties, LenProperties
<1>5. ASSUME NEW i \in 1..Len(toS') PROVE toS'[i] \notin B
  <2>1. CASE i <= Len(toS)
    BY <1>4, <2>1 DEF Without
  <2>2. CASE ~(i <= Len(toS))
    <3>1. i - Len(toS) \in 1..Len(items) /\ toS'[i] = items[i - Len(toS)]
      BY <1>4, <2>2
    <3>. QED BY <1>2, <3>1
  <2>. QED BY <2>1, <2>2
<1>. QED BY <1>5 DEF Without

LEMMA ROutKeeps ==
    ASSUME WInv, Live, ROut, UNCHANGED sendVars
    PROVE  (rfp' # "open" /\ Before') /\ Kept' /\ Told' /\ NoSkip'
<1>1. Lines /\ UNCHANGED <<spc, sfile, sent>> /\ Before
  BY DEF WInv, IInv, Live, ROut, sendVars
<1>2. Without(toS', Of({"ZRPOS"})) /\ Without(toS', Of({"ZSKIP"}))
  <2>1. PICK items \in Seq(Polite) : toS' = toS \o items
    BY DEF ROut
  <2>2. Without(toS, Of({"ZRPOS"})) /\ Without(toS, Of({"ZSKIP"}))
    BY <1>1 DEF Before, WInv, NoSkip
  <2>. QED BY <1>1, <2>1, <2>2, PolitelySaid
<1>3. Less(toR', toR) /\ disc' = disc /\ rfp # "open" /\ rfp' # "open"
      /\ \A f \in Files : mtime'[f] \in {mtime[f], "same"}
  BY DEF ROut
<1>4. Before'
  <2>1. Without(toR', Of({"ZDATA"})) /\ Without(toR', Datas)
    BY <1>1, <1>3, LessWithout, SoundHere DEF Before
  <2>. DEFINE B == {m \in Infos : spc # "zfile" \/ m.blk[1] # sfile}
  <2>2. Without(toR', B)
    <3>1. Sound(B) /\ Without(toR, B)
      BY <1>1, SoundHere DEF Before
    <3>. HIDE DEF B
    <3>. QED BY <1>3, <3>1, LessWithout
  <2>3. Behind(toR', Infos, Of({"ZEOF"}))
    BY <1>1, <1>3, LessBehind, SoundHere DEF Before
  <2>4. spc = "zeof" => sfile \in Files
    BY DEF WInv, IInv, SendShape
  <2>. QED BY <1>1, <1>2, <1>3, <2>1, <2>2, <2>3, <2>4 DEF Before
<1>5. Kept'
  BY <1>3 DEF WInv, Kept
<1>6. Told'
  BY <1>1, <1>3 DEF WInv, Told
<1>. QED BY <1>2, <1>3, <1>4, <1>5, <1>6 DEF NoSkip

LEMMA ROpenKeeps ==
    ASSUME WInv, Live, ROpen, UNCHANGED sendVars
    PROVE  (rfp' = "open" /\ During') /\ Kept' /\ Told' /\ NoSkip'
<1>1. /\ Lines /\ toR \in Seq(GoodItems) /\ toS \in Seq(GoodItems) /\ UNCHANGED <<spc, sfile, sent>>
      /\ Before /\ Chained /\ sfile \in Int
  BY ZmAssumption DEF WInv, IInv, Lines, Live, ROpen, sendVars, SendShape
<1>2. toR # <<>> /\ toR' = Tail(toR) /\ Less(toR', toR)
  BY <1>1, LessTail DEF ROpen
<1>3. /\ Head(toR) \in Items /\ \A B : Without(toR, B) => Head(toR) \notin B
      /\ \A A, B : Behind(toR, A, B) /\ Head(toR) \in A => Without(toR', B)
  BY <1>1, <1>2, HeadOff
<1>4. Head(toR) \in Infos
  <2>1. Head(toR) \notin Datas
    BY <1>1, <1>3 DEF Before
  <2>. QED BY <1>3, <2>1 DEF Infos, Datas, ROpen
<1>5. spc = "zfile" /\ rfile' = sfile /\ sfile \in Files
  <2>. DEFINE B == {m \in Infos : spc # "zfile" \/ m.blk[1] # sfile}
  <2>1. Head(toR) \notin B
    <3>1. Without(toR, B)
      BY <1>1 DEF Before
    <3>. HIDE DEF B
    <3>. QED BY <1>3, <3>1
  <2>. QED BY <1>4, <2>1 DEF ROpen
<1>6. Without(toR', Of({"ZDATA", "ZEOF"})) /\ Without(toR', Datas) /\ Without(toR', Stray(sfile))
  <2>1. Without(toR', Of({"ZEOF"}))
    BY <1>1, <1>3, <1>4 DEF Before
  <2>2. Without(toR', Of({"ZDATA"})) /\ Without(toR', Datas)
    BY <1>1, <1>2, LessWithout, SoundHere DEF Before
  <2>3. \A m : m \in Of({"ZDATA", "ZEOF"}) => m \in Of({"ZDATA"}) \/ m \in Of({"ZEOF"})
    BY DEF Of
  <2>4. Stray(sfile) \subseteq Datas
    BY DEF Stray
  <2>. QED BY <2>1, <2>2, <2>3, <2>4 DEF Without
<1>. DEFINE n == Len(disc'[sfile])
<1>7. \A f \in Files : \/ disc'[f] = disc[f] /\ mtime'[f] = mtime[f]
                       \/ f = sfile /\ disc'[f] = <<>> /\ mtime[f] # "same"
  BY <1>5 DEF ROpen
<1>8. Kept'
  <2>1. \A f \in Files : Len(disc'[f]) <= Size[f] /\ \A i \in 1..Len(disc'[f]) : disc'[f][i] = <<f, i>>
    <3>1. ASSUME NEW f \in Files
          PROVE  Len(disc'[f]) <= Size[f] /\ \A i \in 1..Len(disc'[f]) : disc'[f][i] = <<f, i>>
      <4>1. Size[f] \in Nat
        BY ZmAssumption DEF Files
      <4>2. CASE disc'[f] = disc[f]
        BY <4>2 DEF WInv, Kept
      <4>3. CASE disc'[f] = <<>>
        BY <4>1, <4>3
      <4>. QED BY <1>7, <4>2, <4>3
    <3>. QED BY <3>1
  <2>2. \A f \in Files : mtime'[f] \in {"none", "same"} \/ (rfp' = "open" /\ rfile' = f)
    BY <1>5, <1>7 DEF WInv, Kept, ROpen
  <2>. QED BY <2>1, <2>2 DEF Kept
<1>9. n \in Nat /\ Size[sfile] \in Nat /\ n <= Size[sfile]
  <2>1. disc[sfile] \in Seq(Blocks) /\ Size[sfile] \in Nat
    BY <1>5, ZmAssumption DEF WInv, IInv, RecvShape, Blocks, Files
  <2>2. disc'[sfile] = disc[sfile] \/ disc'[sfile] = <<>>
    BY <1>5, <1>7
  <2>3. n \in Nat
    BY <2>1, <2>2, LenProperties
  <2>. QED BY <1>5, <1>8, <2>1, <2>3 DEF Kept
<1>10. Told'
  <2>1. \A f \in Files : f < sfile => f # sfile
    BY <1>1 DEF Files
  <2>. QED BY <1>1, <1>7, <2>1 DEF WInv, Told
<1>. DEFINE a == Header("ZACK", 0)
            p == Header("ZRPOS", n)
            mid == toS \o <<a>>
<1>11. /\ a \in GoodItems /\ a \notin Of({"ZRPOS"}) /\ a \notin Of({"ZSKIP"})
  BY HeaderIs DEF HeaderTypes
<1>12. /\ p \in GoodItems /\ p \notin Of({"ZSKIP"}) /\ p \notin Unlike({"ZRPOS"}) /\ p.pos = n
  BY <1>9, HeaderIs DEF HeaderTypes
<1>13. IF n = Size[sfile] THEN rpc' = "zeof" /\ toS' = mid ELSE rpc' = "zdata" /\ toS' = mid \o <<p>>
  <2>1. toS \o (<<a>> \o <<p>>) = mid \o <<p>>
    <3>. HIDE DEF a, p
    <3>1. toS \o <<a, p>> = (toS \o <<a>>) \o <<p>> /\ <<a>> \o <<p>> = <<a, p>>
      BY <1>1, <1>11, <1>12, Two
    <3>. QED BY <3>1
  <2>2. RAskFor(sfile, disc'[sfile], <<a>>)
    BY <1>5 DEF ROpen
  <2>. QED BY <2>1, <2>2 DEF RAskFor, RReply
<1>. HIDE DEF a, p, n
<1>14. mid \in Seq(GoodItems)
  BY <1>1, <1>11, More
<1>15. Without(mid, Of({"ZRPOS"})) /\ Without(mid, Of({"ZSKIP"}))
  BY <1>1, <1>11, MoreWithout DEF Before, WInv, NoSkip
<1>. HIDE DEF mid
<1>16. Without(mid, Far(sfile))
  BY <1>15 DEF Without, Far
<1>17. Behind(mid, Of({"ZRPOS"}), Unlike({"ZRPOS"}))
  BY <1>15, BehindNone
<1>18. CASE n = Size[sfile]
  <2>1. rpc' = "zeof" /\ toS' = mid
    BY <1>13, <1>18
  <2>2. Offering'
    BY <1>1, <1>5, <1>6, <1>15, <1>17, <2>1 DEF Offering
  <2>3. During'
    BY <1>1, <1>5, <1>6, <1>16, <1>18, <2>1, <2>2 DEF During, n
  <2>. QED BY <1>8, <1>10, <1>15, <2>1, <2>3 DEF NoSkip, ROpen
<1>19. CASE n # Size[sfile]
  <2>1. rpc' = "zdata" /\ toS' = mid \o <<p>>
    BY <1>13, <1>19
  <2>2. p \notin Far(sfile) /\ n < Size[sfile]
    BY <1>9, <1>12, <1>19 DEF Far
  <2>3. Without(toS', Far(sfile)) /\ Without(toS', Of({"ZSKIP"}))
    BY <1>12, <1>14, <1>15, <1>16, <2>1, <2>2, MoreWithout
  <2>4. Behind(toS', Of({"ZRPOS"}), Unlike({"ZRPOS"}))
    BY <1>12, <1>14, <1>17, <2>1, MoreBehind
  <2>5. Offering'
    BY <1>1, <1>5, <1>6, <2>1, <2>4 DEF Offering
  <2>6. During'
    BY <1>1, <1>5, <1>6, <2>1, <2>2, <2>3, <2>5 DEF During, n
  <2>. QED BY <1>8, <1>10, <2>3, <2>6 DEF NoSkip, ROpen
<1>. QED BY <1>18, <1>19

LEMMA RAskKeeps ==
    ASSUME WInv, Live, RAsk, UNCHANGED sendVars
    PROVE  (rfp' = "open" /\ During') /\ Kept' /\ Told' /\ NoSkip'
<1>1. /\ Lines /\ UNCHANGED <<spc, sfile, spos, sbase, sent, rfile, rfp, disc, mtime>> /\ Less(toR', toR)
      /\ rfp = "open" /\ During
  BY DEF WInv, IInv, RecvShape, Live, RAsk, sendVars
<1>. DEFINE n == Len(disc[rfile])
            p == Header("ZRPOS", n)
<1>2. n \in Nat /\ Size[rfile] \in Nat /\ rfile = sfile /\ rfile \in Files /\ n < Size[rfile]
  <2>1. rfile \in Files /\ disc[rfile] \in Seq(Blocks) /\ rfile = sfile /\ n < Size[rfile]
    BY <1>1 DEF WInv, IInv, RecvShape, During, Blocks, RAsk
  <2>2. Size[rfile] \in Nat
    BY <2>1, ZmAssumption DEF Files
  <2>. QED BY <2>1, <2>2, LenProperties
<1>3. rpc' = "zdata" /\ toS' = toS \o <<p>>
  <2>1. <<>> \o <<p>> = <<p>>
    OBVIOUS
  <2>2. n # Size[rfile]
    BY <1>2
  <2>. QED BY <2>1, <2>2 DEF RAsk, RAskFor, RReply
<1>4. "ZRPOS" \in HeaderTypes
  BY DEF HeaderTypes
<1>5. /\ p \notin Of({"ZSKIP"}) /\ p \notin Unlike({"ZRPOS"}) /\ p \notin Of({"ZACK", "ZNAK"})
      /\ p \notin Unlike({"ZRPOS", "ZACK", "ZNAK"}) /\ p.pos = n
  BY <1>2, <1>4, HeaderIs
<1>6. /\ \A B : Without(toS, B) /\ p \notin B => Without(toS', B)
      /\ \A A, B : Behind(toS, A, B) /\ (p \notin B \/ Without(toS, A)) => Behind(toS', A, B)
  BY <1>1, <1>2, <1>3, <1>4, HeaderSaid
<1>. HIDE DEF p, n
<1>7. p \notin Far(sfile)
  BY <1>2, <1>5 DEF Far
<1>8. Without(toR', Stray(sfile)) /\ Without(toS', Far(sfile)) /\ NoSkip'
  BY <1>1, <1>5, <1>6, <1>7, LessWithout, SoundHere DEF During, WInv, NoSkip
<1>9. ASSUME Offering PROVE Offering'
  <2>1. Without(toR', Of({"ZDATA", "ZEOF"})) /\ Without(toR', Datas)
    BY <1>1, <1>9, LessWithout, SoundHere DEF Offering
  <2>2. Behind(toS', Of({"ZRPOS"}), Unlike({"ZRPOS"}))
    BY <1>5, <1>6, <1>9 DEF Offering
  <2>. QED BY <1>1, <1>3, <1>9, <2>1, <2>2 DEF Offering
<1>10. ASSUME Streaming PROVE Streaming'
  <2>1. Without(toR', Of({"ZEOF"}))
    BY <1>1, <1>10, LessWithout, SoundHere DEF Streaming
  <2>2. Without(toS', Unlike({"ZRPOS", "ZACK", "ZNAK"})) /\ Without(toS', Of({"ZACK", "ZNAK"}))
    BY <1>5, <1>6, <1>10 DEF Streaming, RAsk
  <2>3. Behind(toS', Of({"ZACK", "ZNAK"}), Of({"ZRPOS"}))
    BY <2>2, BehindNone
  <2>. QED BY <1>1, <1>3, <1>10, <2>1, <2>2, <2>3 DEF Streaming
<1>11. ~Finishing
  BY DEF Finishing, RAsk
<1>12. During'
  <2>1. Offering' \/ Streaming'
    BY <1>1, <1>9, <1>10, <1>11 DEF During
  <2>. QED BY <1>1, <1>2, <1>3, <1>8, <2>1 DEF During, n
<1>13. Kept' /\ Told'
  BY <1>1 DEF WInv, Kept, Told
<1>. QED BY <1>1, <1>8, <1>12, <1>13

LEMMA RPassKeeps ==
    ASSUME WInv, Live, RPass, UNCHANGED sendVars
    PROVE  (rfp' = "open" /\ During') /\ Kept' /\ Told' /\ NoSkip'
<1>1. /\ Lines /\ UNCHANGED <<spc, sfile, spos, sbase, sent, rfile, rfp, disc, mtime, toS>> /\ Less(toR', toR)
      /\ rfp = "open" /\ During /\ Less(toS', toS)
  BY LessSame DEF WInv, IInv, Live, RPass, sendVars
<1>2. rpc' = rpc \/ (spc # "zfile" /\ {rpc, rpc'} \subseteq {"zdata", "data"})
  <2>1. ASSUME rpc = "zdata", rpc' = "data", toR # <<>>, Head(toR).typ = "ZDATA" PROVE spc # "zfile"
    <3>1. Head(toR) \in Items /\ \A B : Without(toR, B) => Head(toR) \notin B
      BY <1>1, <2>1, HeadOff DEF Lines
    <3>2. Head(toR) \in Of({"ZDATA", "ZEOF"})
      BY <2>1, <3>1 DEF Of
    <3>3. ~Offering
      BY <3>1, <3>2 DEF Offering
    <3>. QED BY <1>1, <3>3 DEF During, Streaming, Finishing
  <2>. QED BY <2>1 DEF RPass
<1>3. During'
  BY <1>1, <1>2, DuringLess
<1>. QED BY <1>1, <1>3 DEF WInv, Kept, Told, NoSkip

LEMMA RNakKeeps ==
    ASSUME WInv, Live, RNak, UNCHANGED sendVars
    PROVE  (rfp' = "open" /\ During') /\ Kept' /\ Told' /\ NoSkip'
<1>1. /\ Lines /\ UNCHANGED <<spc, sfile, spos, sbase, sent, rpc, rfile, rfp, disc, mtime>> /\ Less(toR', toR)
      /\ rfp = "open" /\ During /\ rpc = "zeof"
  BY DEF WInv, IInv, RecvShape, Live, RNak, sendVars
<1>. DEFINE p == Header("ZNAK", 0)
<1>2. "ZNAK" \in HeaderTypes /\ 0 \in Nat
  BY DEF HeaderTypes
<1>3. /\ p \notin Of({"ZSKIP"}) /\ p \notin Of({"ZRPOS"}) /\ p \notin Of({"ZRPOS", "ZRINIT"})
      /\ p \notin Unlike({"ZRPOS", "ZACK", "ZNAK"})
  BY <1>2, HeaderIs
<1>4. /\ \A B : Without(toS, B) /\ p \notin B => Without(toS', B)
      /\ \A A, B : Behind(toS, A, B) /\ (p \notin B \/ Without(toS, A)) => Behind(toS', A, B)
  BY <1>1, <1>2, HeaderSaid DEF RNak
<1>. HIDE DEF p
<1>5. Without(toR', Stray(sfile)) /\ Without(toS', Far(sfile)) /\ NoSkip'
  <2>1. p \notin Far(sfile)
    BY <1>3 DEF Far
  <2>. QED BY <1>1, <1>3, <1>4, <2>1, LessWithout, SoundHere DEF During, WInv, NoSkip
<1>6. ASSUME Offering PROVE Offering'
  <2>1. Without(toR', Of({"ZDATA", "ZEOF"})) /\ Without(toR', Datas)
    BY <1>1, <1>6, LessWithout, SoundHere DEF Offering
  <2>2. Without(toS', Of({"ZRPOS"}))
    BY <1>1, <1>3, <1>4, <1>6 DEF Offering
  <2>3. Behind(toS', Of({"ZRPOS"}), Unlike({"ZRPOS"}))
    BY <2>2, BehindNone
  <2>. QED BY <1>1, <1>6, <2>1, <2>2, <2>3 DEF Offering
<1>7. ASSUME Streaming PROVE Streaming'
  <2>1. Without(toR', Of({"ZEOF"}))
    BY <1>1, <1>7, LessWithout, SoundHere DEF Streaming
  <2>2. Without(toS', Unlike({"ZRPOS", "ZACK", "ZNAK"})) /\ Behind(toS', Of({"ZACK", "ZNAK"}), Of({"ZRPOS"}))
    BY <1>3, <1>4, <1>7 DEF Streaming
  <2>. QED BY <1>1, <1>7, <2>1, <2>2 DEF Streaming
<1>8. ASSUME Finishing PROVE Finishing'
  <2>1. Without(toS', Of({"ZRPOS", "ZRINIT"}))
    BY <1>3, <1>4, <1>8 DEF Finishing
  <2>2. /\ Behind(toR', Of({"ZEOF"}), Of({"ZDATA"})) /\ Behind(toR', Of({"ZEOF"}), Datas)
        /\ Behind(toR', Of({"ZEOF"}), Infos)
    BY <1>1, <1>8, LessBehind, SoundHere DEF Finishing
  <2>. QED BY <1>1, <1>8, <2>1, <2>2 DEF Finishing
<1>9. During'
  BY <1>1, <1>5, <1>6, <1>7, <1>8 DEF During
<1>10. Kept' /\ Told'
  BY <1>1 DEF WInv, Kept, Told
<1>. QED BY <1>1, <1>5, <1>9, <1>10

LEMMA RWriteKeeps ==
    ASSUME WInv, Live, RWrite, UNCHANGED sendVars
    PROVE  (rfp' = "open" /\ During') /\ Kept' /\ Told' /\ NoSkip'
<1>1. /\ IInv /\ Lines /\ UNCHANGED <<spc, sfile, spos, sbase, sent, rfile, rfp>> /\ Less(toR', toR)
      /\ rfp = "open" /\ During /\ Chained /\ rpc = "data" /\ sfile \in Int
  <2>1. Lines /\ toR # <<>> /\ toR' = Tail(toR) /\ toR \in Seq(GoodItems)
    BY DEF WInv, IInv, Lines, RWrite
  <2>2. Less(toR', toR)
    BY <2>1, LessTail
  <2>. QED BY <2>1, <2>2, ZmAssumption DEF WInv, IInv, RecvShape, SendShape, Live, RWrite, sendVars
<1>. DEFINE n == Len(disc[rfile])
            b == Head(toR).blk
<1>2. /\ b = <<rfile, n + 1>> /\ rfile = sfile /\ rfile \in Files /\ n \in Nat
      /\ Head(toR).typ = "ZCRCW" => n + 1 = Size[rfile]
      /\ Head(toR).typ = "ZCRCG" => n + 1 < Size[rfile]
      /\ b \in Blocks
  BY <1>1, NextBlock, RHearing DEF RWrite
<1>3. Size[rfile] \in Nat /\ n + 1 <= Size[rfile]
  <2>1. Size[rfile] \in Nat
    BY <1>2, ZmAssumption DEF Files
  <2>. QED BY <1>2, <2>1 DEF RWrite
<1>4. disc' = [disc EXCEPT ![rfile] = Append(@, b)]
  BY DEF RWrite
<1>. HIDE DEF b
<1>5. /\ Len(disc'[rfile]) = n + 1 /\ disc'[rfile][n + 1] = b
      /\ \A i \in 1..n : disc'[rfile][i] = disc[rfile][i]
      /\ \A f \in Files \ {rfile} : disc'[f] = disc[f]
  BY <1>1, <1>2, <1>4, Grown
<1>6. \A f \in Files \ {rfile} : mtime'[f] = mtime[f]
  BY DEF WInv, IInv, RecvShape, RWrite
<1>7. Kept'
  <2>1. \A i \in 1..n : disc[rfile][i] = <<rfile, i>>
    BY <1>2 DEF WInv, Kept
  <2>2. ASSUME NEW i \in 1..(n + 1) PROVE disc'[rfile][i] = <<rfile, i>>
    <3>1. CASE i = n + 1
      BY <1>2, <1>5, <3>1
    <3>2. CASE i # n + 1
      BY <1>2, <1>5, <2>1, <3>2
    <3>. QED BY <3>1, <3>2
  <2>3. Len(disc'[rfile]) <= Size[rfile] /\ \A i \in 1..Len(disc'[rfile]) : disc'[rfile][i] = <<rfile, i>>
    BY <1>3, <1>5, <2>2
  <2>4. \A f \in Files \ {rfile} : Len(disc'[f]) <= Size[f] /\ \A i \in 1..Len(disc'[f]) : disc'[f][i] = <<f, i>>
    BY <1>5 DEF WInv, Kept
  <2>5. \A f \in Files : mtime'[f] \in {"none", "same"} \/ (rfp' = "open" /\ rfile' = f)
    BY <1>1, <1>6 DEF WInv, Kept
  <2>. QED BY <2>3, <2>4, <2>5 DEF Kept
<1>8. Told'
  <2>1. \A f \in Files : f < sfile => f \in Files \ {rfile}
    BY <1>1, <1>2 DEF Files
  <2>. QED BY <1>1, <1>5, <1>6, <2>1 DEF WInv, Told
<1>9. Streaming
  BY <1>1 DEF During, Offering, Finishing
<1>10. Without(toR', Stray(sfile)) /\ Without(toR', Of({"ZEOF"}))
  BY <1>1, <1>9, LessWithout, SoundHere DEF During, Streaming
<1>11. CASE Head(toR).typ = "ZCRCG"
  <2>1. UNCHANGED <<toS, rpc>> /\ n + 1 < Size[rfile]
    BY <1>2, <1>11 DEF RWrite
  <2>2. Streaming'
    BY <1>1, <1>9, <1>10, <2>1 DEF Streaming
  <2>3. During'
    BY <1>1, <1>2, <1>5, <1>10, <2>1, <2>2 DEF During
  <2>. QED BY <1>1, <1>7, <1>8, <2>1, <2>3 DEF WInv, NoSkip
<1>12. CASE Head(toR).typ = "ZCRCW"
  <2>. DEFINE a == Header("ZACK", 0)
  <2>1. n + 1 = Size[rfile] /\ Len(Append(disc[rfile], b)) = n + 1
    <3>1. disc[rfile] \in Seq(Blocks)
      BY <1>1, <1>2 DEF IInv, RecvShape, Blocks
    <3>. QED BY <1>2, <1>12, <3>1, AppendProperties
  <2>2. rpc' = "zeof" /\ toS' = toS \o <<a>>
    <3>1. RAskFor(rfile, Append(disc[rfile], b), <<a>>)
      BY <1>12 DEF RWrite, b
    <3>. QED BY <2>1, <3>1 DEF RAskFor, RReply
  <2>3. "ZACK" \in HeaderTypes /\ 0 \in Nat
    BY DEF HeaderTypes
  <2>4. /\ a \notin Of({"ZSKIP"}) /\ a \notin Of({"ZRPOS"}) /\ a \notin Unlike({"ZRPOS", "ZACK", "ZNAK"})
    BY <2>3, HeaderIs
  <2>5. /\ \A B : Without(toS, B) /\ a \notin B => Without(toS', B)
        /\ \A A, B : Behind(toS, A, B) /\ (a \notin B \/ Without(toS, A)) => Behind(toS', A, B)
    BY <1>1, <2>2, <2>3, HeaderSaid
  <2>. HIDE DEF a
  <2>6. Without(toS', Far(sfile)) /\ NoSkip'
    <3>1. a \notin Far(sfile)
      BY <2>4 DEF Far
    <3>. QED BY <1>1, <2>4, <2>5, <3>1 DEF During, WInv, NoSkip
  <2>7. Without(toS', Unlike({"ZRPOS", "ZACK", "ZNAK"})) /\ Behind(toS', Of({"ZACK", "ZNAK"}), Of({"ZRPOS"}))
    BY <1>9, <2>4, <2>5 DEF Streaming
  <2>8. Streaming'
    BY <1>1, <1>9, <1>10, <2>2, <2>7 DEF Streaming
  <2>9. During'
    BY <1>1, <1>2, <1>5, <1>10, <2>1, <2>2, <2>6, <2>8 DEF During
  <2>. QED BY <1>1, <1>7, <1>8, <2>6, <2>9
<1>. QED BY <1>11, <1>12 DEF RWrite

LEMMA RCloseKeeps ==
    ASSUME WInv, Live, RClose, UNCHANGED sendVars
    PROVE  (rfp' # "open" /\ Before') /\ Kept' /\ Told' /\ NoSkip'
<1>1. /\ Lines /\ toR \in Seq(GoodItems) /\ UNCHANGED <<spc, sfile, sent, rfile, disc>>
      /\ rfp = "open" /\ During /\ rfile = sfile /\ sfile \in Files /\ rfp' = "null"
      /\ rpc = "zeof" /\ Len(disc[sfile]) = Size[sfile]
  BY DEF WInv, IInv, Lines, RecvShape, Live, RClose, sendVars, During
<1>2. toR # <<>> /\ toR' = Tail(toR) /\ Less(toR', toR)
  BY <1>1, LessTail DEF RClose
<1>3. /\ Head(toR) \in Items /\ \A B : Without(toR, B) => Head(toR) \notin B
      /\ \A A, B : Behind(toR, A, B) /\ Head(toR) \in A => Without(toR', B)
  BY <1>1, <1>2, HeadOff
<1>4. Head(toR) \in Of({"ZEOF"}) /\ Head(toR) \in Of({"ZDATA", "ZEOF"})
  BY <1>3 DEF RClose, Of
<1>5. Finishing
  BY <1>1, <1>3, <1>4 DEF During, Offering, Streaming
<1>6. Without(toR', Of({"ZDATA"})) /\ Without(toR', Datas) /\ Without(toR', Infos)
  BY <1>3, <1>4, <1>5 DEF Finishing
<1>. DEFINE p == Header("ZRINIT", 0)
<1>7. "ZRINIT" \in HeaderTypes /\ 0 \in Nat
  BY DEF HeaderTypes
<1>8. p \notin Of({"ZSKIP"}) /\ p \notin Of({"ZRPOS"})
  BY <1>7, HeaderIs
<1>9. \A B : Without(toS, B) /\ p \notin B => Without(toS', B)
  BY <1>1, <1>7, HeaderSaid DEF RClose, ZRInit
<1>. HIDE DEF p
<1>10. Without(toS', Of({"ZRPOS"})) /\ NoSkip'
  <2>1. Without(toS, Of({"ZRPOS"}))
    BY <1>5 DEF Finishing, Without, Of
  <2>. QED BY <1>8, <1>9, <2>1 DEF WInv, NoSkip
<1>11. mtime'[sfile] = "same" /\ \A f \in Files \ {sfile} : mtime'[f] = mtime[f]
  BY <1>1 DEF WInv, IInv, RecvShape, RClose
<1>12. Before'
  <2>. DEFINE B == {m \in Infos : spc # "zfile" \/ m.blk[1] # sfile}
  <2>1. B \subseteq Infos
    OBVIOUS
  <2>2. Without(toR', B)
    BY <1>6, <2>1 DEF Without
  <2>3. Behind(toR', Infos, Of({"ZEOF"}))
    BY <1>6, BehindNone
  <2>4. spc = "zeof"
    BY <1>5 DEF Finishing
  <2>. QED BY <1>1, <1>6, <1>10, <1>11, <2>2, <2>3, <2>4 DEF Before
<1>13. Kept' /\ Told'
  BY <1>1, <1>11 DEF WInv, Kept, Told
<1>. QED BY <1>1, <1>10, <1>12, <1>13

\* Every step of zmrx.
LEMMA RecvInStep ==
    ASSUME WInv, Welcome, NEW peer, RecvNext(peer), UNCHANGED sendVars
    PROVE  Kept' /\ Told' /\ NoSkip' /\ (BothExit' \/ Live')
<1>1. ROut \/ ROpen \/ RAsk \/ RPass \/ RNak \/ RWrite \/ RClose
  BY RecvKinds DEF WInv
<1>2. rpc # "exit"
  BY DEF RecvNext, RStart, RContact, RIdle, ROverAndOut, RInfo, RData, RSubpacket, RSwallow, REof, RDrop
<1>3. Live
  BY <1>2 DEF WInv, BothExit
<1>4. Chained'
  BY <1>3, RecvChains DEF WInv
<1>5. /\ Kept' /\ Told' /\ NoSkip'
      /\ (rfp' = "open" /\ During') \/ (rfp' # "open" /\ Before')
  BY <1>1, <1>3, ROutKeeps, ROpenKeeps, RAskKeeps, RPassKeeps, RNakKeeps, RWriteKeeps, RCloseKeeps
<1>6. Live'
  BY <1>4, <1>5 DEF Live
<1>. QED BY <1>5, <1>6

-----------------------------------------------------------------------------
(* The line, the user, and the invariant.                                   *)

\* Both programs stand still while the line loses something.
LEMMA LineInStep ==
    ASSUME WInv, UNCHANGED <<sendVars, recvVars>>, Less(toR', toR), Less(toS', toS), Live => Chained'
    PROVE  Kept' /\ Told' /\ NoSkip' /\ (BothExit' \/ Live')
<1>1. /\ UNCHANGED <<spc, sfile, spos, sbase, sent>> /\ UNCHANGED <<rpc, rfile, rfp, disc, mtime>>
      /\ Kept /\ Told /\ NoSkip
  BY DEF WInv, sendVars, recvVars
<1>2. Kept' /\ Told'
  BY <1>1 DEF Kept, Told
<1>3. NoSkip'
  BY <1>1, LessWithout, SoundHere DEF NoSkip
<1>4. BothExit => BothExit'
  BY <1>1 DEF BothExit
<1>5. Before => Before'
  BY <1>1, BeforeLess
<1>6. During => During'
  BY <1>1, DuringLess
<1>7. Live => Live'
  BY <1>1, <1>5, <1>6 DEF Live
<1>. QED BY <1>2, <1>3, <1>4, <1>7 DEF WInv

LEMMA LosesInStep ==
    ASSUME WInv, LineFault \/ Drain, UNCHANGED <<sendVars, recvVars>>
    PROVE  Kept' /\ Told' /\ NoSkip' /\ (BothExit' \/ Live')
<1>1. toR \in Seq(GoodItems) /\ toS \in Seq(GoodItems) /\ Lines /\ At' = At
  BY AtStays DEF WInv, IInv, Lines
<1>2. CASE toR' = toR
  <2>1. Less(toS', toS)
    BY <1>1, <1>2, LessHit, LessTail, LessSame DEF LineFault, Drain
  <2>2. Live => Chained'
    BY <1>1, <1>2 DEF Live, Chained, Due, sendVars
  <2>. QED BY <1>2, <2>1, <2>2, LessSame, LineInStep
<1>3. CASE toR # <<>> /\ toR' \in Hits(toR) /\ toS' = toS
  <2>1. Less(toR', toR)
    BY <1>1, <1>3, LessHit
  <2>2. ASSUME Live PROVE Chained'
    <3>1. Linked(At, toR') /\ Allows(Ends(At, toR'), Ends(At, toR))
      BY <1>1, <1>3, <2>2, LinkedHit DEF Live, Chained
    <3>. QED BY <1>1, <2>2, <3>1, ChainedOn DEF Live
  <2>. QED BY <1>3, <2>1, <2>2, LessSame, LineInStep
<1>4. CASE rpc = "exit" /\ toR # <<>> /\ toR' = Tail(toR) /\ toS' = toS
  <2>1. Less(toR', toR)
    BY <1>1, <1>4, LessTail
  <2>2. At' = Trash
    BY <1>1, <1>4 DEF At
  <2>3. Live => Chained'
    BY <1>1, <1>4, <2>2, ChainedAnew DEF Live
  <2>. QED BY <1>4, <2>1, <2>3, LessSame, LineInStep
<1>. QED BY <1>2, <1>3, <1>4 DEF LineFault, Drain

LEMMA AbortInStep ==
    ASSUME WInv, Abort
    PROVE  Kept' /\ Told' /\ NoSkip' /\ (BothExit' \/ Live')
<1>1. /\ rfp' = "null" /\ \A f \in Files : mtime'[f] \in {mtime[f], "same"}
  BY Quits DEF WInv, IInv, Abort, Cleanup
<1>2. rfp = "open" => mtime'[rfile] = "same"
  BY DEF WInv, IInv, RecvShape, Abort, Cleanup
<1>3. UNCHANGED <<disc, sent, sfile, toS>> /\ BothExit'
  BY DEF Abort, Cleanup, BothExit, lineVars
<1>. QED BY <1>1, <1>2, <1>3 DEF WInv, Kept, Told, NoSkip

\* New programs on an empty line.
LEMMA Anew ==
    ASSUME toR = <<>>, toS = <<>>, spc = "start", rpc = "start", rfp # "open"
    PROVE  Live /\ NoSkip
<1>1. \A B : Without(<<>>, B)
  BY DEF Without
<1>2. \A A, B : Behind(<<>>, A, B)
  BY DEF Behind
<1>3. Linked(At, <<>>)
  BY DEF Linked
<1>. QED BY <1>1, <1>2, <1>3 DEF Live, Chained, Before, NoSkip

LEMMA AgainInStep ==
    ASSUME WInv, Again
    PROVE  Kept' /\ Told' /\ NoSkip' /\ (BothExit' \/ Live')
<1>1. rfp # "open" /\ rfp' = "null" /\ UNCHANGED <<disc, mtime>> /\ sent' = [f \in Files |-> "no"]
  BY DEF WInv, IInv, RecvShape, Again, BothExit
<1>2. toR' = <<>> /\ toS' = <<>> /\ spc' = "start" /\ rpc' = "start"
  BY DEF Again
<1>3. Live' /\ NoSkip'
  <2>1. \A B : Without(<<>>, B)
    BY DEF Without
  <2>2. \A A, B : Behind(<<>>, A, B)
    BY DEF Behind
  <2>3. \A at : Linked(at, <<>>)
    BY DEF Linked
  <2>. QED BY <1>1, <1>2, <2>1, <2>2, <2>3 DEF Live, Chained, Before, NoSkip
<1>4. Kept' /\ Told'
  BY <1>1 DEF WInv, Kept, Told
<1>. QED BY <1>3, <1>4

LEMMA InStepHolds == Welcome /\ Init => WInv
<1>. SUFFICES ASSUME Welcome, Init PROVE WInv
  OBVIOUS
<1>1. IInv
  BY InitHolds
<1>2. scene.existing = {}
  BY DEF Welcome, Init
<1>3. \A f \in Files : disc[f] = <<>> /\ mtime[f] = "none" /\ sent[f] = "no"
  BY <1>2 DEF Init, SInit
<1>4. Kept
  <2>1. \A f \in Files : Size[f] \in Nat
    BY ZmAssumption DEF Files
  <2>. QED BY <1>3, <2>1 DEF Kept
<1>5. Told
  BY <1>3 DEF Told
<1>6. Live /\ NoSkip
  BY Anew DEF Init, SInit, RInit
<1>. QED BY <1>1, <1>4, <1>5, <1>6 DEF WInv

LEMMA InStepKept ==
    ASSUME Welcome, WInv, [Next]_vars
    PROVE  WInv'
<1>1. IInv' /\ SendShape'
  BY NextKeeps, StutterKeeps DEF WInv, IInv
<1>2. CASE SendStep
  BY <1>1, <1>2, SendInStep DEF SendStep, WInv
<1>3. CASE RecvStep
  BY <1>1, <1>3, RecvInStep DEF RecvStep, WInv
<1>4. CASE (LineFault \/ Drain) /\ UNCHANGED <<sendVars, recvVars, userVars>>
  BY <1>1, <1>4, LosesInStep DEF WInv
<1>5. CASE Abort
  BY <1>1, <1>5, AbortInStep DEF WInv
<1>6. CASE Again
  BY <1>1, <1>6, AgainInStep DEF WInv
<1>7. CASE UNCHANGED vars
  <2>1. UNCHANGED <<sendVars, recvVars, toR, toS>> /\ At' = At
    BY <1>7, AtStays DEF vars, lineVars
  <2>2. Live => Chained'
    BY <2>1 DEF Live, Chained, Due, sendVars
  <2>3. Less(toR', toR) /\ Less(toS', toS)
    BY <2>1, LessSame
  <2>. QED BY <1>1, <2>1, <2>2, <2>3, LineInStep DEF WInv
<1>. QED BY <1>2, <1>3, <1>4, <1>5, <1>6, <1>7 DEF Next

LEMMA InStepAlways == Welcome => (Spec => []WInv)
<1>. SUFFICES ASSUME Welcome PROVE Spec => []WInv
  OBVIOUS
<1>1. Init => WInv
  BY InStepHolds
<1>2. WInv /\ [Next]_vars => WInv'
  BY InStepKept
<1>. QED BY <1>1, <1>2, PTL DEF Spec

\* What begins like zmtx's file is a prefix of it, and the file if it is as long.
LEMMA KeptIsPrefix ==
    ASSUME IInv, Kept, NEW f \in Files
    PROVE  /\ IsPrefix(disc[f], Contents(f))
           /\ Len(disc[f]) = Size[f] => disc[f] = Contents(f)
<1>. DEFINE s == disc[f]
            t == Contents(f)
<1>1. s \in Seq(Blocks) /\ Size[f] \in Nat /\ f \in 0..NFiles
  BY ZmAssumption DEF IInv, RecvShape, Blocks, Files
<1>2. Len(s) \in Nat /\ Len(s) <= Size[f] /\ \A i \in 1..Len(s) : s[i] = <<f, i>>
  BY <1>1, LenProperties DEF Kept
<1>3. t \in Seq(Blocks) /\ Len(t) = Size[f] /\ \A i \in 1..Size[f] : t[i] = <<f, i>>
  <2>1. t = [i \in 1..Size[f] |-> <<f, i>>]
    BY DEF Contents
  <2>2. \A i \in 1..Size[f] : <<f, i>> \in Blocks
    BY <1>1 DEF Blocks
  <2>3. t \in [1..Size[f] -> Blocks]
    BY <2>1, <2>2
  <2>4. t \in Seq(Blocks)
    BY <1>1, <2>3
  <2>5. Len(t) = Size[f]
    BY <1>1, <2>3, <2>4, LenProperties
  <2>. QED BY <2>1, <2>4, <2>5
<1>. HIDE DEF s, t
<1>4. SubSeq(s, 1, Len(s)) = s
  BY <1>1, SubSeqFull
<1>5. SubSeq(t, 1, Len(s)) = s
  <2>. DEFINE u == SubSeq(t, 1, Len(s))
  <2>1. Len(s) \in Int /\ 1 \in Int /\ \A i \in 1..Len(s) : t[i] \in Blocks
    BY <1>2, <1>3, ElementOfSeq
  <2>2. /\ u \in Seq(Blocks) /\ Len(u) = IF 1 <= Len(s) THEN Len(s) - 1 + 1 ELSE 0
        /\ \A i \in 1..(Len(s) - 1 + 1) : u[i] = t[1 + i - 1]
    BY <2>1, SubSeqProperties
  <2>3. Len(u) = Len(s) /\ \A i \in 1..Len(s) : u[i] = s[i]
    BY <1>2, <1>3, <2>2, SMTT(30)
  <2>. HIDE DEF u
  <2>4. u = s
    BY <1>1, <2>2, <2>3, SeqEqual
  <2>. QED BY <2>4 DEF u
<1>6. IsPrefix(s, t)
  BY <1>2, <1>3, <1>4, <1>5 DEF IsPrefix
<1>7. Len(s) = Size[f] => s = t
  BY <1>1, <1>2, <1>3, SeqEqual
<1>. QED BY <1>6, <1>7 DEF s, t

\* However many faults the line has, however hasty the timers are and however
\* often the session is aborted and resumed, what fwrite() has put into a file
\* is a beginning of zmtx's file of that name, if none was there before.
THEOREM ReceivedIsWhatWasSent == Welcome => (Spec => []Integrity)
<1>. SUFFICES ASSUME Welcome PROVE Spec => []Integrity
  OBVIOUS
<1>1. WInv => Integrity
  BY KeptIsPrefix DEF WInv, Integrity
<1>. QED BY <1>1, InStepAlways, PTL

\* And a file that zmtx reports as sent is there, complete and with its date:
\* the ZRINIT that send_file() takes for the answer to its ZEOF is one.
THEOREM ReportedIsThere == Welcome => (Spec => []SentIsThere)
<1>. SUFFICES ASSUME Welcome PROVE Spec => []SentIsThere
  OBVIOUS
<1>1. WInv => SentIsThere
  BY KeptIsPrefix DEF WInv, Told, SentIsThere
<1>. QED BY <1>1, InStepAlways, PTL

=============================================================================
