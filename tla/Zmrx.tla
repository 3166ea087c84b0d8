-------------------------------- MODULE Zmrx --------------------------------
(***************************************************************************)
(* zmrx, the receiving program (zmrx.c), and the directory it writes to.   *)
(* Between two steps it waits for the line.                                *)
(***************************************************************************)
EXTENDS ZmLine

CONSTANT
    Manage          \* the management option in force: "none", "protect",
                    \* "clobber" or "newer" (-p, -o, -n on either side)

ASSUME ManageAssumption == Manage \in {"none", "protect", "clobber", "newer"}

VARIABLES
    rpc,            \* where zmrx is: see RecvPlaces
    rtries,         \* ZRINITs sent while establishing contact
    rfile,          \* name: the last file whose information arrived
    rfp,            \* fp: "null", "open", or "closed" but not reset
    mangled,        \* rx_data() has run into something not meant for it
    disc,           \* disc[f]: the blocks in the directory's file f
    mtime           \* mtime[f]: its date, against the date zmtx sends for f

recvVars == <<rpc, rtries, rfile, rfp, mangled, disc, mtime>>

RecvPlaces == {"start", "contact", "info", "zdata", "data", "zeof", "idle", "oo", "exit"}

\* "none" means the file does not exist.
Dates == {"none", "older", "same", "newer"}

\* The contents of a file that was there before: it is no prefix of file f.
Old(f) == <<<<0, f>>>>

\* What zmtx's timers depend on: zmrx only ever acts on what it receives.
RStands == IF rpc \in {"start", "exit"} THEN "absent" ELSE "waiting"

RHears == toR # <<>> /\ IsHeader(Head(toR)) /\ toR' = Tail(toR)

RReply(items) == toS' = toS \o items

RInit ==
    /\ rpc = "start"
    /\ rtries = 0
    /\ rfile = 0
    /\ rfp = "null"
    /\ mangled = FALSE

-----------------------------------------------------------------------------
(* main(): establish contact, then one file after the other.                *)

ZRInit == <<Header("ZRINIT", 0)>>

RStart(peer) ==
    /\ rpc = "start"
    /\ toR' \in Purged(toR, peer)
    /\ RReply(ZRInit)
    /\ rpc' = "contact" /\ rtries' = 1
    /\ UNCHANGED <<rfile, rfp, mangled, disc, mtime, slow>>

\* Mutant: the file keeps the date of the last write.
CleanupNoDate == rpc' = "exit" /\ rfp' = "null" /\ UNCHANGED mtime

\* cleanup(): a file that fp still points to gets the date zmtx gave it.
\* fp may point to a FILE that receive_file() has closed already; closing it
\* again may end the program before utime() is called.
Cleanup ==
    /\ rpc' = "exit" /\ rfp' = "null"
    /\ \/ rfp # "null" /\ mtime' = [mtime EXCEPT ![rfile] = "same"]
       \/ rfp # "open" /\ UNCHANGED mtime

\* The switch of main(): a ZFILE is a new file, anything else is answered
\* with a ZCOMPL and the next ZRINIT.
RDispatch(t) ==
    IF t = "ZFILE"
    THEN rpc' = "info" /\ mangled' = FALSE /\ UNCHANGED toS
    ELSE rpc' = "idle" /\ RReply(<<Header("ZCOMPL", 0)>> \o ZRInit) /\ UNCHANGED mangled

RInvite ==
    IF rtries >= MaxTries
    THEN Cleanup /\ UNCHANGED <<toS, rtries, mangled>>
    ELSE RReply(ZRInit) /\ rtries' = rtries + 1 /\ UNCHANGED <<rpc, rfp, mangled, mtime>>

RContact(peer) ==
    /\ rpc = "contact"
    /\ \/ /\ RHears
          /\ IF Head(toR).typ = "ZRQINIT" THEN RInvite
             ELSE RDispatch(Head(toR).typ) /\ UNCHANGED <<rtries, rfp, mtime>>
          /\ UNCHANGED slow
       \/ TimesOut(toR, toS, peer) /\ RInvite /\ UNCHANGED toR
    /\ UNCHANGED <<rfile, disc>>

RIdle(peer) ==
    /\ rpc = "idle"
    /\ \/ /\ RHears
          /\ IF Head(toR).typ = "ZFIN"
             THEN rpc' = "oo" /\ RReply(<<Header("ZFIN", 0)>>) /\ UNCHANGED mangled
             ELSE RDispatch(Head(toR).typ)
          /\ UNCHANGED slow
       \/ TimesOut(toR, toS, peer) /\ RReply(ZRInit) /\ UNCHANGED <<toR, rpc, mangled>>
    /\ UNCHANGED <<rtries, rfile, rfp, disc, mtime>>

\* Mutant: wait for "OO" for ever.
ROverAndOutForever(peer) ==
    /\ rpc = "oo"
    /\ toR # <<>> /\ toR' = Tail(toR) /\ UNCHANGED slow
    /\ IF Head(toR).typ = "OO" THEN Cleanup ELSE UNCHANGED <<rpc, rfp, mtime>>
    /\ UNCHANGED <<toS, rtries, rfile, mangled, disc>>

\* Wait for "OO", or not.
ROverAndOut(peer) ==
    /\ rpc = "oo"
    /\ \/ toR # <<>> /\ toR' = Tail(toR) /\ UNCHANGED slow
          /\ IF Head(toR).typ = "OO" THEN Cleanup ELSE UNCHANGED <<rpc, rfp, mtime>>
       \/ TimesOut(toR, toS, peer) /\ Cleanup /\ UNCHANGED toR
    /\ UNCHANGED <<toS, rtries, rfile, mangled, disc>>

-----------------------------------------------------------------------------
(* receive_file(): the file's name, size and date, and what to do with it.  *)

\* The management options: protect, clobber and newer are only ever set to
\* TRUE, and hold whatever was in their place when an option is not given.
Skips(date) ==
    {protect \/ (~clobber /\ newer /\ date = "newer") :
        protect \in (IF Manage = "protect" THEN {TRUE} ELSE BOOLEAN),
        clobber \in (IF Manage = "clobber" THEN {TRUE} ELSE BOOLEAN),
        newer \in (IF Manage = "newer" THEN {TRUE} ELSE BOOLEAN)}

\* receive_file() gives the file up; main() sends the next ZRINIT.
RGivesUp(items) ==
    /\ rpc' = "idle"
    /\ RReply(items \o ZRInit)
    /\ UNCHANGED <<disc, mtime>>

\* The while loop of receive_file(): ask for the rest, or wait for ZEOF.
RAskFor(f, blocks, items) ==
    IF Len(blocks) = Size[f]
    THEN rpc' = "zeof" /\ RReply(items)
    ELSE rpc' = "zdata" /\ RReply(items \o <<Header("ZRPOS", Len(blocks))>>)

\* Mutant: a file with the same date is overwritten like any other.
ROpensAnew(f, ack) ==
    IF f \in scene.readonly
    THEN RGivesUp(ack \o <<Header("ZSKIP", 0)>>) /\ rfp' = "null"
    ELSE /\ rfp' = "open"
         /\ disc' = [disc EXCEPT ![f] = <<>>]
         /\ mtime' = [mtime EXCEPT ![f] = "newer"]
         /\ RAskFor(f, <<>>, ack)

\* The file is opened for writing, or for appending after a crash: the same
\* date shows that it is the rest of the same file that is offered.
ROpens(f, ack) ==
    IF f \in scene.readonly
    THEN RGivesUp(ack \o <<Header("ZSKIP", 0)>>) /\ rfp' = "null"
    ELSE /\ rfp' = "open"
         /\ disc' = [disc EXCEPT ![f] = IF mtime[f] = "same" THEN @ ELSE <<>>]
         /\ mtime' = [mtime EXCEPT ![f] = IF @ = "same" THEN @ ELSE "newer"]
         /\ RAskFor(f, disc'[f], ack)

RInfo(peer) ==
    /\ rpc = "info"
    /\ \/ /\ toR # <<>> /\ IsSubpacket(Head(toR)) /\ toR' = Tail(toR)
          /\ LET f == Head(toR).blk[1]
                 ack == <<Header("ZACK", 0)>> IN
             IF mangled \/ Head(toR).typ = "trash"
             THEN RGivesUp(<<Header("ZNAK", 0)>>) /\ UNCHANGED <<rfile, rfp>>
             ELSE /\ rfile' = f
                  /\ \/ /\ mtime[f] \in {"older", "newer"} /\ TRUE \in Skips(mtime[f])
                        /\ RGivesUp(ack \o <<Header("ZSKIP", 0)>>) /\ rfp' = "closed"
                     \/ /\ mtime[f] \in {"older", "newer"} => FALSE \in Skips(mtime[f])
                        /\ ROpens(f, ack)
          /\ mangled' = FALSE
          /\ UNCHANGED slow
       \/ /\ TimesOut(toR, toS, peer) /\ RGivesUp(<<>>) /\ UNCHANGED <<toR, rfile, rfp, mangled>>
    /\ UNCHANGED rtries

-----------------------------------------------------------------------------
(* receive_file_data().                                                     *)

\* Mutant: the position of the ZDATA header is not compared.
RDataAnywhere(peer) ==
    /\ rpc = "zdata"
    /\ \/ /\ RHears
          /\ UNCHANGED <<toS, slow>>
          /\ IF Head(toR).typ = "ZDATA"
             THEN rpc' = "data" /\ mangled' = FALSE
             ELSE UNCHANGED <<rpc, mangled>>
       \/ TimesOut(toR, toS, peer) /\ RAskFor(rfile, disc[rfile], <<>>) /\ UNCHANGED <<toR, mangled>>
    /\ UNCHANGED <<rtries, rfile, rfp, disc, mtime>>

\* Anything but a ZDATA header with the right position is ignored.
RData(peer) ==
    /\ rpc = "zdata"
    /\ \/ /\ RHears
          /\ UNCHANGED <<toS, slow>>
          /\ IF Head(toR).typ = "ZDATA" /\ Head(toR).pos = Len(disc[rfile])
             THEN rpc' = "data" /\ mangled' = FALSE
             ELSE UNCHANGED <<rpc, mangled>>
       \/ TimesOut(toR, toS, peer) /\ RAskFor(rfile, disc[rfile], <<>>) /\ UNCHANGED <<toR, mangled>>
    /\ UNCHANGED <<rtries, rfile, rfp, disc, mtime>>

\* A subpacket is written when its CRC matches; the frame goes on after ZCRCG.
RSubpacket(peer) ==
    /\ rpc = "data"
    /\ \/ /\ toR # <<>> /\ IsSubpacket(Head(toR)) /\ toR' = Tail(toR)
          /\ LET m == Head(toR)
                 blocks == Append(disc[rfile], m.blk) IN
             IF mangled \/ m.typ = "trash"
             THEN RAskFor(rfile, disc[rfile], <<>>) /\ UNCHANGED <<disc, mtime>>
             ELSE /\ disc' = [disc EXCEPT ![rfile] = blocks]
                  /\ mtime' = [mtime EXCEPT ![rfile] = "newer"]
                  /\ \/ m.typ = "ZCRCG" /\ UNCHANGED <<toS, rpc>>
                     \/ m.typ = "ZCRCW" /\ RAskFor(rfile, blocks, <<Header("ZACK", 0)>>)
          /\ mangled' = FALSE
          /\ UNCHANGED slow
       \/ /\ TimesOut(toR, toS, peer) /\ RAskFor(rfile, disc[rfile], <<>>)
          /\ UNCHANGED <<toR, mangled, disc, mtime>>
    /\ UNCHANGED <<rtries, rfile, rfp>>

\* rx_data() takes a header it meets for data: the CRC will not match.
RSwallow ==
    /\ rpc \in {"info", "data"}
    /\ toR # <<>> /\ ~IsSubpacket(Head(toR)) /\ toR' = Tail(toR)
    /\ mangled' = TRUE
    /\ UNCHANGED <<toS, slow, rpc, rtries, rfile, rfp, disc, mtime>>

\* Mutant: the file keeps the date of the last write.
REofNoDate ==
    /\ rpc = "zeof"
    /\ toR # <<>> /\ toR' = Tail(toR)
    /\ \/ /\ Head(toR).typ = "ZEOF"
          /\ rpc' = "idle" /\ RReply(ZRInit)
          /\ rfp' = "null"
       \/ /\ Head(toR).typ # "ZEOF"
          /\ UNCHANGED <<toS, rpc, rfp>>
    /\ UNCHANGED <<slow, rtries, rfile, mangled, disc, mtime>>

\* Wait for ZEOF; a damaged header is answered with a ZNAK, all else ignored.
REof ==
    /\ rpc = "zeof"
    /\ toR # <<>> /\ toR' = Tail(toR)
    /\ \/ /\ Head(toR).typ = "ZEOF"
          /\ rpc' = "idle" /\ RReply(ZRInit)
          /\ rfp' = "null" /\ mtime' = [mtime EXCEPT ![rfile] = "same"]
       \/ /\ Head(toR).typ = "bad"
          /\ RReply(<<Header("ZNAK", 0)>>) /\ UNCHANGED <<rpc, rfp, mtime>>
       \/ /\ Head(toR).typ \notin {"ZEOF", "bad"}
          /\ UNCHANGED <<toS, rpc, rfp, mtime>>
    /\ UNCHANGED <<slow, rtries, rfile, mangled, disc>>

\* rx_header() drops what is not a valid header.
RDrop ==
    /\ rpc \in {"contact", "idle", "zdata"}
    /\ toR # <<>> /\ ~IsHeader(Head(toR)) /\ toR' = Tail(toR)
    /\ UNCHANGED <<toS, slow, recvVars>>

RecvNext(peer) ==
    \/ RStart(peer) \/ RContact(peer) \/ RIdle(peer) \/ ROverAndOut(peer) \/ RInfo(peer)
    \/ RData(peer) \/ RSubpacket(peer) \/ RSwallow \/ REof \/ RDrop

=============================================================================
