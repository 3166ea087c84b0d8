-------------------------------- MODULE Zmtx --------------------------------
(***************************************************************************)
(* zmtx, the sending program (zmtx.c).  Between two steps it waits in       *)
(* rx_header(), or is about to read the next block of the file.            *)
(***************************************************************************)
EXTENDS ZmLine

VARIABLES
    spc,            \* where zmtx is: see SendPlaces
    stries,         \* ZRQINITs sent
    sfile,          \* the file of send_file(), NFiles + 1 after the last
    spos,           \* the next block send_from() reads
    sbase,          \* pos of send_file(): where the last ZRPOS pointed
    sent            \* history: what zmtx reported about each file

sendVars == <<spc, stries, sfile, spos, sbase, sent>>

SendPlaces == {"start", "contact", "open", "zfile", "stream", "poll", "ack",
               "zeof", "zfin", "exit"}

\* What zmrx's timers depend on.
SStands ==
    CASE spc \in {"start", "exit"} -> "absent"
      [] spc \in {"open", "stream", "poll"} -> "busy"
      [] OTHER -> "waiting"

SInit ==
    /\ spc = "start"
    /\ stries = 0
    /\ sfile = 1
    /\ spos = 0
    /\ sbase = 0
    /\ sent = [f \in Files |-> "no"]

\* rx_header() returns a valid header.
SHears == toS # <<>> /\ IsHeader(Head(toS)) /\ toS' = Tail(toS)

SReply(items) == toR' = toR \o items

-----------------------------------------------------------------------------
(* main(): establish contact, send every file, close the session.           *)

SStart(peer) ==
    /\ spc = "start"
    /\ toS' \in Purged(toS, peer)
    /\ SReply(<<Header("ZRQINIT", 0)>>)
    /\ spc' = "contact" /\ stries' = 1
    /\ UNCHANGED <<sfile, spos, sbase, sent, slow>>

\* Mutant: one invitation too many.
SInviteOnceMore ==
    IF stries > MaxTries
    THEN spc' = "exit" /\ UNCHANGED <<toR, stries>>
    ELSE SReply(<<Header("ZRQINIT", 0)>>) /\ stries' = stries + 1 /\ UNCHANGED spc

\* Something else than ZRINIT, or nothing: try again, ten times in all.
SInvite ==
    IF stries >= MaxTries
    THEN spc' = "exit" /\ UNCHANGED <<toR, stries>>
    ELSE SReply(<<Header("ZRQINIT", 0)>>) /\ stries' = stries + 1 /\ UNCHANGED spc

SContact(peer) ==
    /\ spc = "contact"
    /\ \/ LET h == Head(toS) IN
             /\ SHears
             /\ IF h.typ = "ZRINIT"
                THEN spc' = "open" /\ UNCHANGED <<toR, stries>>
                ELSE SInvite
             /\ UNCHANGED slow
       \/ TimesOut(toS, toR, peer) /\ SInvite /\ UNCHANGED toS
    /\ UNCHANGED <<sfile, spos, sbase, sent>>

\* A file that cannot be opened makes send_file() return without a value;
\* whatever it is, it tells main() to go on or that the receiver aborted.
SOpen ==
    /\ spc = "open"
    /\ \/ sfile > NFiles /\ spc' = "zfin" /\ SReply(<<Header("ZFIN", 0)>>)
          /\ UNCHANGED <<sfile, sent>>
       \/ sfile \in Files \ scene.unopenable /\ spc' = "zfile"
          /\ SReply(<<Header("ZFILE", 0), Subpacket("ZCRCW", <<sfile, 0>>)>>)
          /\ UNCHANGED <<sfile, sent>>
       \/ sfile \in scene.unopenable /\ UNCHANGED <<toR, spc>>
          /\ sfile' \in {sfile + 1, NFiles + 1}
          /\ sent' = [sent EXCEPT ![sfile] = "unopened"]
    /\ UNCHANGED <<toS, stries, spos, sbase, slow>>

-----------------------------------------------------------------------------
(* send_file() and send_from().                                             *)

SOfferAgain ==
    /\ SReply(<<Header("ZFILE", 0), Subpacket("ZCRCW", <<sfile, 0>>)>>)
    /\ UNCHANGED <<spc, sfile, spos, sbase, sent>>

\* send_from(): seek to n and send a ZDATA header with that position.
SSendFrom(n) ==
    /\ spc' = "stream" /\ spos' = n /\ sbase' = n
    /\ SReply(<<Header("ZDATA", n)>>)
    /\ UNCHANGED <<sfile, sent>>

\* The end of file frame.
SSendEof ==
    /\ spc' = "zeof"
    /\ SReply(<<Header("ZEOF", Size[sfile])>>)
    /\ UNCHANGED <<sfile, spos, sbase, sent>>

\* The answer to ZFILE.  ZSKIP, too, returns without a value.
SOffered(peer) ==
    /\ spc = "zfile"
    /\ \/ LET h == Head(toS) IN
             /\ SHears
             /\ UNCHANGED slow
             /\ \/ h.typ = "ZACK" /\ UNCHANGED <<toR, spc, sfile, spos, sbase, sent>>
                \/ h.typ = "ZSKIP" /\ spc' = "open" /\ sfile' \in {sfile + 1, NFiles + 1}
                   /\ sent' = [sent EXCEPT ![sfile] = "skipped"] /\ UNCHANGED <<toR, spos, sbase>>
                \/ h.typ = "ZRPOS" /\ SSendFrom(h.pos)
                \/ h.typ \notin {"ZACK", "ZSKIP", "ZRPOS"} /\ SOfferAgain
       \/ TimesOut(toS, toR, peer) /\ SOfferAgain /\ UNCHANGED toS
    /\ UNCHANGED stries

\* Read a block and send it; the last one of the file asks for a ZACK.
SBlock ==
    /\ spc \in {"stream", "poll"}
    /\ IF spos < Size[sfile]
       THEN LET last == spos + 1 = Size[sfile] IN
            /\ SReply(<<Subpacket(IF last THEN "ZCRCW" ELSE "ZCRCG", <<sfile, spos + 1>>)>>)
            /\ spos' = spos + 1
            /\ spc' = IF last THEN "ack" ELSE "poll"
            /\ UNCHANGED <<sfile, sbase, sent>>
       ELSE SSendEof
    /\ UNCHANGED <<toS, stries, slow>>

\* A header that ends send_from(): ZRPOS and ZNAK restart it, from the position of
\* the last ZRPOS; anything else goes on to the end of the file.
SRestart(h) ==
    IF h.typ \in {"ZRPOS", "ZNAK"}
    THEN SSendFrom(IF h.typ = "ZRPOS" THEN h.pos ELSE sbase)
    ELSE SSendEof

\* Between two blocks zmtx looks whether something came back.  A ZNAK does not end
\* send_from(): its number is that of the ACK character it is compared with.
SPoll ==
    /\ spc = "poll"
    /\ SHears
    /\ IF Head(toS).typ = "ZNAK" THEN UNCHANGED <<toR, spc, sfile, spos, sbase, sent>>
                                 ELSE SRestart(Head(toS))
    /\ UNCHANGED <<stries, slow>>

\* After the last block it waits for the ZACK, without sending anything.
SAck ==
    /\ spc = "ack"
    /\ LET h == Head(toS) IN
          /\ SHears
          /\ IF h.typ \in {"ZACK", "ZRPOS", "ZNAK"}
             THEN SRestart(h)
             ELSE UNCHANGED <<toR, spc, sfile, spos, sbase, sent>>
    /\ UNCHANGED <<stries, slow>>

\* After ZEOF it waits for the ZRINIT that shows the file has been closed.
SEof(peer) ==
    /\ spc = "zeof"
    /\ \/ LET h == Head(toS) IN
             /\ SHears
             /\ UNCHANGED slow
             /\ IF h.typ = "ZRINIT"
                THEN /\ spc' = "open" /\ sfile' = sfile + 1
                     /\ sent' = [sent EXCEPT ![sfile] = "sent"]
                     /\ UNCHANGED <<toR, spos, sbase>>
                ELSE SSendEof
       \/ TimesOut(toS, toR, peer) /\ SSendEof /\ UNCHANGED toS
    /\ UNCHANGED stries

SFin(peer) ==
    /\ spc = "zfin"
    /\ \/ LET h == Head(toS) IN
             /\ SHears
             /\ UNCHANGED slow
             /\ IF h.typ = "ZFIN" THEN spc' = "exit" /\ SReply(<<Header("OO", 0)>>)
                                  ELSE UNCHANGED <<spc, toR>>
       \/ TimesOut(toS, toR, peer) /\ spc' = "exit" /\ UNCHANGED <<toS, toR>>
    /\ UNCHANGED <<stries, sfile, spos, sbase, sent>>

\* rx_header() drops what is not a valid header.
SDrop ==
    /\ spc \notin {"start", "open", "stream"}
    /\ toS # <<>> /\ ~IsHeader(Head(toS)) /\ toS' = Tail(toS)
    /\ UNCHANGED <<toR, slow, sendVars>>

SendNext(peer) ==
    \/ SStart(peer) \/ SContact(peer) \/ SOpen \/ SOffered(peer) \/ SBlock \/ SPoll
    \/ SAck \/ SEof(peer) \/ SFin(peer) \/ SDrop

=============================================================================
