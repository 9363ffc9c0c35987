------------------------------ MODULE Console -------------------------------
(***************************************************************************)
(* The console of a program on the board: the C runtime's sw/rv32/syscalls *)
(* .c (sw/zlib/syscalls.c for the ZipCPU) and txfns.c over the registers of*)
(* rtl/wbubus/wbconsole.v, down to the serial line; and the runtime's heap.*)
(*                                                                         *)
(* Characters are "a", "nl", "cr" and "sp".  One step is one access to a   *)
(* register of the console.                                                *)
(***************************************************************************)
EXTENDS Integers, Sequences, FiniteSets

CONSTANTS FIFOLEN,    \* characters in each of the console's FIFOs
          Strings,    \* what the program prints
          MaxCalls, MaxTyped,
          HeapSize    \* bytes between _top_of_heap and _end_of_heap

Char == {"a", "nl", "cr", "sp"}

ASSUME ConsoleAssumption == Strings \subseteq Seq(Char) /\ HeapSize \in Nat

VARIABLES fifo, ps, shift, seen,   \* the way out: FIFO, wbuconsole, serial port, line
          rxq, typed,              \* characters typed: waiting, all that were taken
          call, str, out,          \* the call in progress; what it has still to print, to send
          tx_was_cr,               \* last_was_cr of txchr(); the next one is _inbyte()'s
          last_was_cr, buf, cnt, input,
          printed,                 \* all characters that were to be sent
          heap, blocks, errno, calls, halted

port == <<fifo, ps, shift, seen>>
consolevars == <<port, rxq, typed, call, str, out, tx_was_cr, last_was_cr, buf, cnt, input, printed,
                 heap, blocks, errno, calls, halted>>

ConsoleInit ==
  /\ fifo = <<>> /\ ps = <<>> /\ shift = <<>> /\ seen = <<>> /\ rxq = <<>> /\ typed = <<>>
  /\ call = "none" /\ str = <<>> /\ out = <<>> /\ tx_was_cr = FALSE
  /\ last_was_cr = FALSE /\ buf = <<>> /\ cnt = 0 /\ input = <<>>
  /\ printed = <<>> /\ heap = 0 /\ blocks = {} /\ errno = "" /\ calls = 0 /\ halted = FALSE

-----------------------------------------------------------------------------
\* The hardware.  The debug bus may take wbuconsole's register first, which only
\* delays the console.
ToPs ==
  /\ fifo # <<>> /\ ps = <<>> /\ ps' = <<Head(fifo)>> /\ fifo' = Tail(fifo)
  /\ UNCHANGED <<shift, seen>>
ToShift ==
  /\ ps # <<>> /\ shift = <<>> /\ shift' = ps /\ ps' = <<>> /\ UNCHANGED <<fifo, seen>>
ToLine ==
  /\ shift # <<>> /\ shift' = <<>> /\ seen' = seen \o shift /\ UNCHANGED <<fifo, ps>>
Hardware ==
  /\ ~halted /\ (ToPs \/ ToShift \/ ToLine)
  /\ UNCHANGED <<rxq, typed, call, str, out, tx_was_cr, last_was_cr, buf, cnt, input, printed, heap, blocks,
                 errno, calls, halted>>

\* A key is pressed; a full FIFO drops the character.
Typed(c) ==
  /\ Len(typed) + Len(rxq) < MaxTyped /\ Len(rxq) < FIFOLEN /\ rxq' = Append(rxq, c)
  /\ UNCHANGED <<port, typed, call, str, out, tx_was_cr, last_was_cr, buf, cnt, input, printed, heap, blocks,
                 errno, calls, halted>>

TXWAIT == Len(fifo) >= FIFOLEN
TXBUSY == fifo # <<>> \/ ps # <<>>

-----------------------------------------------------------------------------
\* _outbyte() and txchr(): a newline is sent after a carriage return; txchr() sends
\* none when it has just sent one.
_outbyte(c)   == IF c = "nl" THEN <<"cr", "nl">> ELSE <<c>>
txchr(was, c) == IF c = "nl" /\ ~was THEN <<"cr", "nl">> ELSE <<c>>

\* Each character waits for a place in the FIFO.
\* Variant: it does not.
OutNoWait ==
  /\ ~halted /\ out # <<>> /\ fifo' = IF TXWAIT THEN fifo ELSE Append(fifo, Head(out))
  /\ out' = Tail(out)
  /\ UNCHANGED <<ps, shift, seen, rxq, typed, call, str, tx_was_cr, last_was_cr, buf, cnt, input, printed,
                 heap, blocks, errno, calls, halted>>

Out ==
  /\ ~halted /\ out # <<>> /\ ~TXWAIT /\ fifo' = Append(fifo, Head(out)) /\ out' = Tail(out)
  /\ UNCHANGED <<ps, shift, seen, rxq, typed, call, str, tx_was_cr, last_was_cr, buf, cnt, input, printed,
                 heap, blocks, errno, calls, halted>>

Sends(s) == out' = s /\ printed' = printed \o s

Calls(name) ==
  /\ ~halted /\ call = "none" /\ out = <<>> /\ calls < MaxCalls /\ calls' = calls + 1
  /\ call' = name

\* A string is sent character by character.
SendsString(name) == \E s \in Strings : Calls(IF s = <<>> THEN "none" ELSE name) /\ str' = s

_write_r ==
  /\ \/ SendsString("write") /\ UNCHANGED errno
     \/ Calls("none") /\ errno' = "EBADF" /\ UNCHANGED str   \* neither stdout nor stderr
  /\ UNCHANGED <<port, rxq, typed, out, tx_was_cr, last_was_cr, buf, cnt, input, printed, heap, blocks, halted>>

txstr ==
  /\ SendsString("txstr")
  /\ UNCHANGED <<port, rxq, typed, out, tx_was_cr, last_was_cr, buf, cnt, input, printed, heap, blocks, errno, halted>>

NextChar ==
  /\ ~halted /\ str # <<>> /\ out = <<>> /\ str' = Tail(str)
  /\ call' = IF str' = <<>> THEN "none" ELSE call
  /\ IF call = "write"
     THEN Sends(_outbyte(Head(str))) /\ UNCHANGED tx_was_cr
     ELSE Sends(txchr(tx_was_cr, Head(str))) /\ tx_was_cr' = (Head(str) = "cr")
  /\ UNCHANGED <<port, rxq, typed, last_was_cr, buf, cnt, input, heap, blocks, errno, calls, halted>>

\* _read_r() waits for a character and takes what there is, up to len.
_read_r ==
  /\ \/ Calls("read") /\ cnt' \in 1 .. 2 /\ buf' = <<>> /\ UNCHANGED errno
     \/ Calls("none") /\ errno' = "ENOSYS" /\ UNCHANGED <<cnt, buf>>     \* not stdin
  /\ UNCHANGED <<port, rxq, typed, str, out, tx_was_cr, last_was_cr, input, printed, heap, blocks, halted>>

\* _inbyte(): the character it returns, "" for none, and last_was_cr.
\* Variant: a newline that is dropped leaves last_was_cr set.
_inbyte_sticky(c) ==
  IF c = "cr" THEN [rv |-> "nl", cr |-> TRUE]
  ELSE IF c = "nl" THEN [rv |-> IF last_was_cr THEN "" ELSE "nl", cr |-> last_was_cr]
  ELSE [rv |-> c, cr |-> FALSE]

_inbyte(c) ==
  IF c = "cr" THEN [rv |-> "nl", cr |-> TRUE]
  ELSE IF c = "nl" THEN [rv |-> IF last_was_cr THEN "" ELSE "nl", cr |-> FALSE]
  ELSE [rv |-> c, cr |-> FALSE]

InByte ==
  /\ ~halted /\ call = "read" /\ out = <<>> /\ rxq # <<>>
  /\ LET c   == Head(rxq)
         in  == _inbyte(c)
         all == IF in.rv = "" THEN buf ELSE Append(buf, in.rv)
     IN  /\ rxq' = Tail(rxq) /\ typed' = Append(typed, c) /\ last_was_cr' = in.cr
         /\ IF in.rv = "" THEN UNCHANGED <<out, printed>> ELSE Sends(_outbyte(in.rv))
         /\ IF (buf # <<>> /\ in.rv = "") \/ Len(all) >= cnt
            THEN call' = "none" /\ input' = input \o all /\ buf' = <<>>
            ELSE buf' = all /\ UNCHANGED <<call, input>>
  /\ UNCHANGED <<port, str, tx_was_cr, cnt, heap, blocks, errno, calls, halted>>

\* Nothing is left in the FIFO.
InEmpty ==
  /\ ~halted /\ call = "read" /\ out = <<>> /\ rxq = <<>> /\ buf # <<>>
  /\ call' = "none" /\ input' = input \o buf /\ buf' = <<>>
  /\ UNCHANGED <<port, rxq, typed, str, out, tx_was_cr, last_was_cr, cnt, printed, heap, blocks, errno, calls, halted>>

\* The calls of files, processes and clocks that the board does not have.
Fails(e) ==
  /\ Calls("none") /\ errno' = e
  /\ UNCHANGED <<port, rxq, typed, str, out, tx_was_cr, last_was_cr, buf, cnt, input, printed, heap, blocks, halted>>
_close_r        == Fails("EBADF")
_execve_r       == Fails("ENOSYS")
_fstat_r        == Fails("EBADF")    \* of a file that is not open
_gettimeofday_r == Fails("ENOSYS")
_kill_r         == Fails("ENOSYS")
_stat_r         == Fails("EIO")
_times          == Fails("EACCES")
_wait           == Fails("ECHILD")

\* _sbrk_r(): whole words, up to the end of the heap.
\* Variant: a part of a word is not counted.
_sbrk_r_down ==
  /\ Calls("none")
  /\ \E sz \in {1, 4, 6} : heap' = heap + 4 * (sz \div 4) /\ blocks' = blocks \cup {<<heap, heap + sz - 1>>}
  /\ UNCHANGED <<port, rxq, typed, str, out, tx_was_cr, last_was_cr, buf, cnt, input, printed, errno, halted>>

_sbrk_r ==
  /\ Calls("none")
  /\ \E sz \in {1, 4, 6} :
       LET words == (sz + 3) \div 4
           error == <<"a", "cr", "nl">>     \* txstr("SBRK: OUT-OF-MEMORY!!\n")
       IN  IF heap + 4 * words > HeapSize
           THEN Sends(error) /\ tx_was_cr' = FALSE /\ UNCHANGED <<heap, blocks>>
           ELSE /\ heap' = heap + 4 * words /\ blocks' = blocks \cup {<<heap, heap + sz - 1>>}
                /\ UNCHANGED <<out, printed, tx_was_cr>>
  /\ UNCHANGED <<port, rxq, typed, str, last_was_cr, buf, cnt, input, errno, halted>>

\* _exit() sends two characters more, waits and halts.
\* Variant: it does not send them.
_exit_quick ==
  /\ Calls("exit") /\ UNCHANGED <<out, printed>>
  /\ UNCHANGED <<port, rxq, typed, str, tx_was_cr, last_was_cr, buf, cnt, input, heap, blocks, errno, halted>>

_exit ==
  /\ Calls("exit") /\ out' = <<"sp", "sp">> /\ UNCHANGED printed
  /\ UNCHANGED <<port, rxq, typed, str, tx_was_cr, last_was_cr, buf, cnt, input, heap, blocks, errno, halted>>

ExitHalts ==
  /\ call = "exit" /\ out = <<>> /\ ~TXBUSY /\ ~halted /\ halted' = TRUE
  /\ UNCHANGED <<port, rxq, typed, call, str, out, tx_was_cr, last_was_cr, buf, cnt, input, printed, heap,
                 blocks, errno, calls>>

ConsoleNext ==
  \/ Hardware \/ (\E c \in {"a", "cr", "nl"} : ~halted /\ Typed(c)) \/ Out
  \/ _write_r \/ txstr \/ NextChar \/ _read_r \/ InByte \/ InEmpty \/ _sbrk_r
  \/ _close_r \/ _execve_r \/ _fstat_r \/ _gettimeofday_r \/ _kill_r \/ _stat_r \/ _times \/ _wait
  \/ _exit \/ ExitHalts

ConsoleSpec == ConsoleInit /\ [][ConsoleNext]_consolevars

-----------------------------------------------------------------------------
\* What the program prints and what is echoed goes out whole and in order: it is
\* on the line, or on its way through the port.
NothingDropped ==
  call # "exit" => seen \o shift \o ps \o fifo \o out = printed

\* "any last newline will at least have been received": when _exit() halts the
\* simulation, everything the program has printed has left the serial port.
ExitFlushes == halted => Len(printed) <= Len(seen) /\ SubSeq(seen, 1, Len(printed)) = printed

\* What was typed, but for the newlines after a carriage return; and where it is read.
Kept == {i \in 1 .. Len(typed) : ~(typed[i] = "nl" /\ i > 1 /\ typed[i - 1] = "cr")}
Place(i) == Cardinality({j \in Kept : j <= i})

\* A program reads what was typed, with "\r" and "\r\n" as newlines, whatever the
\* places where one call ended and the next began.
ReadsTranslated ==
  LET read == input \o buf
  IN  /\ Len(read) = Cardinality(Kept)
      /\ \A i \in Kept : read[Place(i)] = IF typed[i] = "cr" THEN "nl" ELSE typed[i]

\* Blocks of the heap do not share a byte and end before the stack's part.
BlocksApart ==
  \A b \in blocks : b[2] < HeapSize /\ \A c \in blocks : b # c => b[2] < c[1] \/ c[2] < b[1]

\* What the C runtime promises to a program: output, input and heap.
ConsoleRight == NothingDropped /\ ExitFlushes /\ ReadsTranslated /\ BlocksApart
=============================================================================
