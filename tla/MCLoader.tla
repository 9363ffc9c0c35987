------------------------------ MODULE MCLoader ------------------------------
(***************************************************************************)
(* Programs as the two linker scripts lay them out: code in flash, data    *)
(* after it and copied to RAM, BSS; or all of it in RAM.   The header      *)
(* without data stands last, or, in MCLeading, first.                      *)
(***************************************************************************)
EXTENDS Loader
Linked(s) == [i \in 1 .. Len(s) |-> <<s[i], "linked">>]
Seg(start, s) == [start |-> start, data |-> Linked(s)]
FlashProgram(code, data, bss, headers) ==
  [data |-> Linked(data), kram_start |-> ROMBASE + Len(code),
   ram_image_end |-> BKRAMBASE + Len(data), bss_image_end |-> BKRAMBASE + Len(data) + bss,
   phdrs |-> headers]
MCPrograms ==
  << FlashProgram(<<"a", "b">>, <<"c">>, 1,
       <<Seg(ROMBASE, <<"a", "b">>), Seg(ROMBASE + 2, <<"c">>), Seg(0, <<>>)>>),
     FlashProgram(<<"d">>, <<>>, 2, <<Seg(ROMBASE, <<"d">>), Seg(ROMBASE + 1, <<>>), Seg(0, <<>>)>>),
     FlashProgram(<<>>, <<"e", "f">>, 1, <<Seg(BKRAMBASE, <<"e", "f">>)>>),
     FlashProgram(<<"g">>, <<>>, 0, <<Seg(ROMBASE, <<"g">>), Seg(0, <<"n">>)>>) >>
MCLeading ==
  << FlashProgram(<<"d">>, <<>>, 2, <<Seg(BKRAMBASE, <<>>), Seg(ROMBASE, <<"d">>)>>) >>
=============================================================================
