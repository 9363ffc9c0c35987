------------------------------- MODULE TtyBus -------------------------------
(***************************************************************************)
(* The debug link: sw/host/ttybus.cpp, through which every host tool reads *)
(* and writes the bus of the board, and the far end of the link, the coding*)
(* stages of rtl/wbubus around wbuexec.v.                                  *)
(*                                                                         *)
(* Commands are codewords in tx.  Answers are characters in rx, because    *)
(* readidle() takes them one at a time: a word of several characters is its*)
(* first character and a Rest that stands for the others.  Addresses count *)
(* words.                                                                  *)
(***************************************************************************)
EXTENDS Integers, SequencesExt

CONSTANTS LastAddr,     \* slaves answer at the addresses 0 .. LastAddr
          MAXWRLEN,     \* words the host writes before it looks at the answers
          READBLOCK,    \* words a read command asks for
          READAHEAD,    \* words that may be outstanding when it waits
          LINELEN,      \* characters after which the board ends the line
          TBL,          \* values the write tables hold
          Ops,          \* the calls a host program makes
          MaxOps, MaxProgs

VARIABLES tx, rx, mem,
          ex,       \* wbuexec: "idle", "wait" (WAIT_ON_NEXT_WRITE), "ack", "flush"
          o_addr, r_new_addr,
          perr,     \* an accepted write that the bus will refuse
          wtbl, rtbl,   \* tables of wbudecompress and wbucompress, newest first
          out,      \* the last thing sent: "nl", "data", "other"
          linelen,
          h,        \* the TTYBUS object
          pc, op, nw, cmdrd, buf,   \* the call it executes
          count, progs,
          want,     \* what a memory would hold that obeyed every write called
          fault     \* "error": the program was told of one or killed; "unseen":
                    \* the bus refused a write of it; "stale": the program before
                    \* it left the executor within a write

bvars == <<ex, o_addr, r_new_addr, perr, wtbl, rtbl, out, linelen, mem>>
cvars == <<op, nw, cmdrd, buf>>
gvars == <<count, progs, want, fault>>
ttyvars  == <<tx, rx, bvars, h, pc, cvars, gvars>>

Addr == 0 .. LastAddr
Junk == 99      \* an entry of m_readtbl that was never written
Rest == <<"rest">>
Nl   == <<"nl">>
Code(k)  == <<k>>              \* "ack", "err", "reset", "int"
Word(w)  == <<w, Rest>>

\* A word that the board sends: one character, or a first one and the rest.
Chars(w) == IF w[1] \in {"addr", "raw"} THEN Word(w) ELSE <<w>>

TTYBUS == [addr |-> 0, set |-> FALSE, rd |-> <<>>, wr |-> <<>>, told |-> FALSE]

Push(s, v, n) == SubSeq(<<v>> \o s, 1, IF Len(s) < n THEN Len(s) + 1 ELSE n)

TtyInit ==
  /\ tx = <<>> /\ rx = <<>> /\ mem = [a \in Addr |-> 0]
  /\ ex = "idle" /\ o_addr = 0 /\ r_new_addr = TRUE /\ perr = FALSE
  /\ wtbl = <<>> /\ rtbl = <<>> /\ out = "nl" /\ linelen = 0
  /\ h = TTYBUS /\ pc = "idle" /\ op = (CHOOSE o \in Ops : TRUE) /\ nw = 0 /\ cmdrd = 0 /\ buf = <<>>
  /\ count = 0 /\ progs = 1 /\ want = mem /\ fault = "none"

-----------------------------------------------------------------------------
\* The board.

\* wbudeword and wbucompactlines: a newline follows a word that ends beyond
\* the length of the line.
Send(words) ==
  LET put(s, w) == LET n == s.len + Len(Chars(w))
                   IN  IF n > LINELEN THEN [str |-> s.str \o Chars(w) \o <<Nl>>, len |-> 0]
                                      ELSE [str |-> s.str \o Chars(w), len |-> n]
      sent == FoldLeft(put, [str |-> rx, len |-> linelen], words)
  IN  /\ rx' = sent.str /\ linelen' = sent.len
      /\ out' = IF words = <<>> THEN out
                ELSE IF sent.len = 0 THEN "nl"
                ELSE IF Last(words)[1] \in {"raw", "tbl"} THEN "data" ELSE "other"

\* wbudecompress: a value in full, or as its place in the table.
Value(c) == IF c.ref = 0 THEN c.v ELSE wtbl[c.ref]

\* Variant: a value that was sent as its place enters the table again.
DecompressEvery(c) ==
  wtbl' = IF c.op = "wr" THEN Push(wtbl, Value(c), TBL) ELSE wtbl

Decompress(c) ==
  wtbl' = IF c.op = "wr" /\ c.ref = 0 THEN Push(wtbl, c.v, TBL) ELSE wtbl

\* wbuexec, one codeword in the states that take one.
SetAddr(a) ==
  /\ o_addr' = a /\ r_new_addr' = TRUE /\ Send(<<>>)
  /\ UNCHANGED <<ex, perr, rtbl, mem>>

WriteRequest(c) ==
  /\ mem' = IF o_addr \notin Addr THEN mem ELSE [mem EXCEPT ![o_addr] = Value(c)]
  /\ perr' = (perr \/ o_addr \notin Addr)
  /\ o_addr' = o_addr + c.inc /\ r_new_addr' = FALSE /\ ex' = "wait"
  /\ Send(<<Code("ack")>>) /\ UNCHANGED rtbl

\* wbucompress: a word is replaced by its place in the table if it is found
\* there while the word before it is still being sent.  The table is emptied
\* by an address word.  Result: the words, the table.
Compressed(s, v, inc, found) ==
  IF found \in 1 .. Len(s.tbl) /\ s.data /\ s.tbl[found] = v
  THEN [s EXCEPT !.words = Append(@, <<"tbl", found, inc>>)]
  ELSE [s EXCEPT !.words = Append(@, <<"raw", v, inc>>), !.tbl = <<v>> \o @, !.data = TRUE]

\* Variant: the address word leaves the table as it is.
AnnouncedKept ==
  [words |-> IF r_new_addr THEN <<<<"addr", o_addr>>>> ELSE <<>>,
   tbl |-> rtbl, data |-> ~r_new_addr /\ out = "data"]

Announced ==
  IF r_new_addr THEN [words |-> <<<<"addr", o_addr>>>>, tbl |-> <<>>, data |-> FALSE]
                ELSE [words |-> <<>>, tbl |-> rtbl, data |-> out = "data"]

\* A vector read; it ends at the first address that does not answer.
ReadRequest(c) ==
  LET at(i) == o_addr + c.inc * (i - 1)
      good  == CHOOSE n \in 0 .. c.len :
                 /\ \A i \in 1 .. n : at(i) \in Addr
                 /\ n = c.len \/ at(n + 1) \notin Addr
  IN  \E found \in [1 .. good -> 0 .. 2] :
        LET put(s, i) == Compressed(s, mem[at(i)], c.inc, found[i])
            all == FoldLeft(put, Announced, [i \in 1 .. good |-> i])
        IN  /\ Send(IF good = c.len THEN all.words ELSE Append(all.words, Code("err")))
            /\ rtbl' = all.tbl
            /\ o_addr' \in {o_addr + c.inc * n : n \in good .. c.len}
            /\ good = c.len => o_addr' = o_addr + c.inc * c.len
            /\ r_new_addr' = FALSE
            /\ UNCHANGED <<ex, perr, mem>>

\* A codeword that is neither a write nor the end of the writes.
NewErr ==
  /\ ex' = "idle" /\ perr' = FALSE /\ Send(<<Code("err")>>)
  /\ UNCHANGED <<o_addr, r_new_addr, rtbl, mem>>

EndOfWrites ==
  /\ ex' = IF ex = "wait" /\ perr THEN "ack" ELSE "idle"
  /\ Send(<<>>) /\ UNCHANGED <<o_addr, r_new_addr, perr, rtbl, mem>>

Discard == Send(<<>>) /\ UNCHANGED <<ex, o_addr, r_new_addr, perr, rtbl, mem>>

Execute ==
  /\ tx # <<>> /\ ex # "ack"
  /\ tx' = Tail(tx) /\ Decompress(Head(tx))
  /\ LET c == Head(tx)
     IN  \/ c.op = "abs" /\ ex = "idle" /\ SetAddr(c.a)
         \/ c.op = "rel" /\ ex = "idle" /\ SetAddr(o_addr + c.a)
         \/ c.op = "wr"  /\ ex # "flush" /\ WriteRequest(c)
         \/ c.op = "wr"  /\ ex = "flush" /\ Discard
         \/ c.op = "rd"  /\ ex = "idle" /\ ReadRequest(c)
         \/ c.op = "eow" /\ EndOfWrites
         \/ c.op \in {"abs", "rel", "rd"} /\ ex # "idle" /\ NewErr
  /\ UNCHANGED <<h, pc, cvars, gvars>>

\* The bus refuses the write.
BusError ==
  /\ perr /\ perr' = FALSE
  /\ ex' = IF ex = "wait" THEN "flush" ELSE "idle"
  /\ Send(<<Code("err")>>) /\ fault' = IF fault = "error" THEN fault ELSE "unseen"
  /\ UNCHANGED <<tx, o_addr, r_new_addr, wtbl, rtbl, mem, h, pc, cvars, count, progs, want>>

\* The watchdog: a bus cycle that the host leaves open is ended.
Watchdog ==
  /\ ex = "wait" /\ ~perr /\ tx = <<>>
  /\ ex' = "idle" /\ r_new_addr' = TRUE
  /\ Send(<<Code("reset")>>)
  /\ UNCHANGED <<tx, o_addr, perr, wtbl, rtbl, mem, h, pc, cvars, gvars>>

\* Variant: an acknowledgement alone does not make a line.
NewlineAfterData ==
  /\ ex \in {"idle", "flush"} /\ tx = <<>> /\ ~perr /\ out = "data"
  /\ rx' = Append(rx, Nl) /\ out' = "nl" /\ linelen' = 0
  /\ UNCHANGED <<tx, ex, o_addr, r_new_addr, perr, wtbl, rtbl, mem, h, pc, cvars, gvars>>

\* wbucompactlines: the line is ended when the bus is idle.
Newline ==
  /\ ex \in {"idle", "flush"} /\ tx = <<>> /\ ~perr /\ out # "nl"
  /\ rx' = Append(rx, Nl) /\ out' = "nl" /\ linelen' = 0
  /\ UNCHANGED <<tx, ex, o_addr, r_new_addr, perr, wtbl, rtbl, mem, h, pc, cvars, gvars>>

-----------------------------------------------------------------------------
\* The host.

\* encode_address: nothing, the address, or the distance from m_lastaddr,
\* whichever is shorter.  m_rdaddr is reset with the command, so that nothing
\* below it in m_readtbl is known.
Encode(a) ==
  IF h.set /\ h.addr = a THEN {<<>>}
  ELSE {<<[op |-> "abs", a |-> a]>>}
         \cup {<<[op |-> "rel", a |-> a - last]>> : last \in {x \in {h.addr} : h.set}}

Addressed(cmd) ==
  IF cmd = <<>> THEN h ELSE [h EXCEPT !.rd = <<>>, !.told = FALSE]

\* One value of writev, as its place in m_writetbl or in full.
WriteWord(s, v, inc) ==
  IF \E i \in 1 .. Len(s.tbl) : s.tbl[i] = v
  THEN LET i == CHOOSE i \in 1 .. Len(s.tbl) : s.tbl[i] = v /\ \A j \in 1 .. i - 1 : s.tbl[j] # v
       IN  [s EXCEPT !.cmds = Append(@, [op |-> "wr", ref |-> i, v |-> 0, inc |-> inc])]
  ELSE [s EXCEPT !.cmds = Append(@, [op |-> "wr", ref |-> 0, v |-> v, inc |-> inc]),
                 !.tbl  = Push(@, v, TBL)]

\* A pass of writev's loop: up to MAXWRLEN values, and a newline after the last.
WriteChunk(pre, host, o, from) ==
  LET ln   == IF Len(o.data) - from > MAXWRLEN THEN MAXWRLEN ELSE Len(o.data) - from
      put(s, v) == WriteWord(s, v, o.inc)
      done == FoldLeft(put, [cmds |-> pre, tbl |-> host.wr], SubSeq(o.data, from + 1, from + ln))
      eow  == IF from + ln = Len(o.data) THEN <<[op |-> "eow"]>> ELSE <<>>
      at(i) == o.a + o.inc * (from + i - 1)
      store(m, i) == IF at(i) \notin Addr THEN m ELSE [m EXCEPT ![at(i)] = o.data[from + i]]
  IN  /\ tx' = tx \o done.cmds \o eow
      /\ h' = [host EXCEPT !.wr = done.tbl, !.addr = @ + o.inc * ln]
      /\ want' = FoldLeft(store, want, [i \in 1 .. ln |-> i])
      /\ nw' = from + ln /\ pc' = "readidle"

\* Variant: one word more is asked for than is read.
ReadCmdsOneMore(pre, o, cmd, nread) ==
  /\ tx' = tx \o pre \o <<[op |-> "rd", len |-> o.len + 1, inc |-> o.inc], [op |-> "eow"]>>
  /\ cmdrd' = o.len

\* readv's inner do loop: read commands until READAHEAD + READBLOCK words are
\* outstanding, in one write to the device.
ReadCmds(pre, o, cmd, nread) ==
  LET room  == READAHEAD + READBLOCK - (cmd - nread)
      total == IF o.len - cmd < room THEN o.len - cmd ELSE room
      block(i) == IF total - READBLOCK * (i - 1) < READBLOCK THEN total - READBLOCK * (i - 1)
                                                          ELSE READBLOCK
      n     == (total + READBLOCK - 1) \div READBLOCK
  IN  /\ tx' = tx \o pre \o [i \in 1 .. n |-> [op |-> "rd", len |-> block(i), inc |-> o.inc]]
                  \o <<[op |-> "eow"]>>
      /\ cmdrd' = cmd + total

Call ==
  /\ pc = "idle" /\ count < MaxOps /\ count' = count + 1
  /\ \E o \in Ops : \E pre \in Encode(o.a) :
       /\ op' = o /\ buf' = <<>>
       /\ \/ /\ o.kind = "write"
             /\ WriteChunk(pre, [Addressed(pre) EXCEPT !.addr = o.a, !.set = TRUE], o, 0)
             /\ cmdrd' = 0
          \/ /\ o.kind = "read"
             /\ ReadCmds(pre, o, 0, 0)
             /\ h' = Addressed(pre) /\ nw' = 0 /\ pc' = "readword" /\ UNCHANGED want
  /\ UNCHANGED <<rx, bvars, progs, fault>>

Throw == pc' = "dead" /\ fault' = "error"

\* The characters of the word at the head of rx, and what it does to m_readtbl
\* and m_lastaddr when it is data.
WordLen == Len(Chars(Head(rx)))
TblRead(i) == IF i \in 1 .. Len(h.rd) THEN h.rd[i] ELSE Junk
Data(w) == IF w[1] = "raw" THEN w[2] ELSE TblRead(w[2])
TakeData(w) ==
  [h EXCEPT !.addr = @ + w[3], !.rd = IF w[1] = "raw" THEN <<w[2]>> \o @ ELSE @]

\* readidle is left: the next values are written, or it is called once more
\* (nw one too high says so), or the call is over.
AfterIdle ==
  \/ /\ nw < Len(op.data) /\ WriteChunk(<<>>, h, op, nw)
  \/ /\ nw = Len(op.data) /\ nw' = nw + 1 /\ pc' = "readidle" /\ UNCHANGED <<tx, h, want>>
  \/ /\ nw > Len(op.data) /\ pc' = "idle" /\ UNCHANGED <<tx, h, want, nw>>

\* readidle's loop condition: it ends when nothing has arrived or with a
\* newline; any other character is read, and lost.
ReadIdle ==
  /\ pc = "readidle"
  /\ \/ rx = <<>> /\ rx' = rx /\ AfterIdle
     \/ rx # <<>> /\ Head(rx) = Nl /\ rx' = Tail(rx) /\ AfterIdle
     \/ /\ rx # <<>> /\ Head(rx) # Nl /\ rx' = Tail(rx)
        /\ pc' = "readidle2" /\ UNCHANGED <<tx, h, nw, want>>
  /\ UNCHANGED <<bvars, op, cmdrd, buf, count, progs, fault>>

\* readidle's body: it waits for a second character and acts on that.
ReadIdle2 ==
  /\ pc = "readidle2" /\ rx # <<>>
  /\ LET c == Head(rx)
     IN  /\ rx' = SubSeq(rx, WordLen + 1, Len(rx))
         /\ \/ /\ c[1] \in {"nl", "ack", "int", "addr"} /\ pc' = "readidle"
               /\ UNCHANGED <<tx, h, nw, want, fault>>
            \/ c[1] \in {"err", "reset"} /\ Throw /\ UNCHANGED <<tx, h, nw, want>>
  /\ UNCHANGED <<bvars, op, cmdrd, buf, count, progs>>

\* readword, a word at a time; with the last value readv compares m_lastaddr
\* with the address that it should have reached, and gives up if it is another.
ReadWord ==
  /\ pc = "readword" /\ rx # <<>>
  /\ LET w == Head(rx)
     IN  /\ rx' = SubSeq(rx, WordLen + 1, Len(rx))
         /\ \/ /\ w[1] \in {"nl", "ack", "int"} /\ UNCHANGED <<tx, h, pc, buf, cmdrd, fault>>
            \/ w[1] \in {"err", "reset"} /\ Throw /\ UNCHANGED <<tx, h, buf, cmdrd>>
            \/ /\ w[1] = "addr" /\ h' = [h EXCEPT !.addr = w[2], !.set = TRUE, !.told = TRUE]
               /\ UNCHANGED <<tx, pc, buf, cmdrd, fault>>
            \/ /\ w[1] \in {"raw", "tbl"}
               /\ h' = TakeData(w) /\ buf' = Append(buf, Data(w))
               /\ LET n == Len(buf')
                  IN  IF n = op.len
                      THEN IF h'.addr = op.a + op.inc * op.len
                           THEN pc' = "idle" /\ UNCHANGED <<tx, cmdrd, fault>>
                           ELSE Throw /\ UNCHANGED <<tx, cmdrd>>
                      ELSE IF cmdrd < op.len /\ n >= cmdrd - READAHEAD
                      THEN ReadCmds(<<>>, op, cmdrd, n) /\ UNCHANGED <<pc, fault>>
                      ELSE UNCHANGED <<tx, pc, cmdrd, fault>>
  /\ UNCHANGED <<bvars, op, nw, count, progs, want>>

\* A program may be killed; the bridge drops what the board answers until the
\* next program connects.
KillProgram ==
  /\ pc # "dead" /\ progs < MaxProgs /\ pc' = "dead" /\ fault' = "error"
  /\ UNCHANGED <<tx, rx, bvars, h, cvars, count, progs, want>>

Program ==
  /\ pc = "dead" /\ progs < MaxProgs
  /\ tx = <<>> /\ ~perr /\ out = "nl"
  /\ rx' = <<>> /\ h' = TTYBUS /\ pc' = "idle" /\ buf' = <<>>
  /\ progs' = progs + 1
  /\ want' = mem /\ fault' = IF ex = "idle" THEN "none" ELSE "stale"
  /\ UNCHANGED <<tx, bvars, op, nw, cmdrd, count>>

TtyNext ==
  \/ Execute \/ BusError \/ Watchdog \/ Newline
  \/ Call \/ ReadIdle \/ ReadIdle2 \/ ReadWord \/ KillProgram \/ Program

TtySpec == TtyInit /\ [][TtyNext]_ttyvars

-----------------------------------------------------------------------------
\* What the program's reads return is what its own writes, and the memory it
\* found, say.  The exception is a word that readword() takes from an entry of
\* m_readtbl that was never written, and then no address word has come from the
\* board since encode_address() last reset m_rdaddr.
Returned == pc = "idle" /\ op.kind = "read" /\ Len(buf) = op.len /\ fault = "none"
Right(i) == buf[i] = want[op.a + op.inc * (i - 1)]
ReadsRight == Returned => \A i \in 1 .. op.len : Right(i) \/ (buf[i] = Junk /\ ~h.told)

\* wbucompress.v says of the table that "any program that wishes to talk to the
\* device can start with a known compression table by simply setting the address
\* and then reading from the device": every word read is right.
ReadsAlwaysRight == Returned => \A i \in 1 .. op.len : Right(i)

\* When every command has been executed, the memory holds what the program
\* wrote where it asked for it, whatever compression, relative addresses, blocks
\* and resets of the bus by the watchdog were between them.
WritesLand == fault = "none" /\ tx = <<>> => mem = want

\* devbus.h promises that writeio() will "Write a single value to a single
\* address", and writei() is "equivalent to: for(int i=0; i<len; i++)
\* writeio(a+i, buf[i]);": the same, also for a program that has not been told of
\* a bus error, or that follows one that was.
WritesLandAlways == fault # "error" /\ tx = <<>> => mem = want

\* The host never waits for a character that the board will not send.
NeverStuck ==
  pc \in {"readidle2", "readword"} /\ rx = <<>>
    => ENABLED (Execute \/ BusError \/ Watchdog \/ Newline)

\* readidle() expects no data ("We don't expect to find any data"): it never finds
\* an answer to a read, nor the middle of one, after errors and killed programs too.
\* Its code for that case is not modelled.
NoPanic == pc = "readidle2" /\ rx # <<>> => Head(rx)[1] \notin {"raw", "tbl", "rest"}

\* Both: a call of the host always goes on.
HostGoesOn == NeverStuck /\ NoPanic
=============================================================================
