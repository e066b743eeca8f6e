------------------------------ MODULE MCLoader ------------------------------
(* Loader for kernels of up to two sections in a memory of nineteen addresses,  *)
(* with the choices, media, texts and files that are tried.                     *)
EXTENDS Loader

(* Sections that touch, overlap or miss each other, the SBIOS, the loader and  *)
(* the end of the file; one that is not loaded, one outside main memory and two *)
(* whose end wraps around.                                                      *)
Shapes == {<<1, 1, 0>>, <<3, 1, 1>>, <<3, 0, 0>>, <<2, 3, 2>>, <<2, 2, 5>>}
Header(l, a, d, s) ==
  [load |-> l, area |-> a, dest |-> d, memsz |-> s[1], filesz |-> s[2], offset |-> s[3]]
MCHeaders ==
  {Header(TRUE, TRUE, d, s) : d \in {1, 2, 4, 5, 7, 9, 12, 14}, s \in Shapes}
    \cup {Header(FALSE, TRUE, 2, <<1, 1, 0>>), Header(TRUE, FALSE, 2, <<1, 1, 0>>),
           Header(TRUE, TRUE, 14, <<247, 3, 1>>), Header(TRUE, TRUE, 9, <<250, 2, 1>>)}

MCModules == {"ps2ip", "module1", "eedebug", "smaprpc"}
MCMediaSets == {{}, {"mc0", "usb"}, {"mc1", "dvd"}, {"host", "usb"}, {"ps2ns", "usb", "dvd"},
                {"dvd"}}
MCFiles == {<<"kernelFilename", "cdfs:">>, <<"initrdFilename", "mc0:">>}
MCTexts == {<<"a">>, <<"b", "n">>, <<"n", "c">>, <<"d", "e", "f">>}
MCImmediates == {-1, 1}
MCImages == {<<"x", "M", "x", "M">>, <<"M", "x", "x">>, <<"M", "M", "x">>, <<"x">>}
=============================================================================
