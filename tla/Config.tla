------------------------------- MODULE Config -------------------------------
(***************************************************************************)
(* loader/configuration.cpp and loadermenu.cpp: the settings and their file.   *)
(* A registered item names a variable; the file is one "name=value" line per   *)
(* item in the order of registration, and reading it applies every line to     *)
(* every item of that name.  Some variables have two items.                    *)
(***************************************************************************)
EXTENDS Integers, Sequences

CONSTANTS
  MaxFiles       \* bound: files written or edited

VARIABLES
  cfg,           \* the variables
  file,          \* lines of the file, <<name, value>>, one for each item, or <<>>
  saved,         \* history: the variables when the file was written
  whole,         \* history: how many of its lines the card took
  cutVar,        \* history: the variable of a line that was cut short, or "none"
  edited,        \* history: the line changed by hand since, or <<>>
  loaded,        \* history: the variables are those just read from the file
  files

vars == <<cfg, file, saved, whole, cutVar, edited, loaded, files>>

Item(n, v, k) == [name |-> n, var |-> v, kind |-> k]

(* registerLoaderConfigItems, then the check and multi selection entries of    *)
(* the menus.  The items left out are of the same kinds and have a variable    *)
(* of their own.                                                               *)
MenuItems == <<
  Item("KernelParameter", "kernelParameter", "text"),
  Item("VideoParameter", "videoParameter", "text"),
  Item("AutoBootTime", "autoBootTime", "check"),
  Item("EnableDev9", "enableDev9", "check"),
  Item("Enable hard disc and network", "enableDev9", "check"),
  Item("Auto Boot", "autoBootTime", "check") >>
VideoItem == Item("videomode", "currentMode", "video")

(* The items in the order of their registration: graphic_main has the first. *)
Items == <<VideoItem>> \o MenuItems

(* modeList and the parameter setDefaultVideoParameter derives from a mode.    *)
Modes == {"pal", "vga60"}
setDefaultVideoParameter(mode) == IF mode = "vga60" THEN "video=vesa" ELSE "video=pal"

Values == [kernelParameter |-> {"ramdisk_size=16384", "root=/dev/hda1"},
           videoParameter |-> {"video=pal", "video=vesa", "by hand"},
           currentMode |-> Modes, enableDev9 |-> {0, 1}, autoBootTime |-> {0, 5}]

(* writeData and readData of an item.  A line the card did not take, or only a  *)
(* part of its name, is as good as none; of a value that was cut short atoi or  *)
(* strncpy make something.                                                      *)
Line(item, c) == <<item.name, c[item.var]>>
NoLine == <<"none", "none">>
CutValues(item) ==
  IF item.kind = "text" THEN {"part"} ELSE IF item.kind = "check" THEN {0} ELSE Modes
readData(c, item, value) ==
  LET d == [c EXCEPT ![item.var] = value]
  IN IF item.kind = "video"
     THEN [d EXCEPT !.videoParameter = setDefaultVideoParameter(value)] ELSE d

(* applyConfigLine: every item with the line's name takes the value. *)
applyConfigLine(c, line) ==
  LET after[n \in 0..Len(Items)] ==
        IF n = 0 THEN c
        ELSE IF Items[n].name = line[1] THEN readData(after[n - 1], Items[n], line[2])
        ELSE after[n - 1]
  IN after[Len(Items)]

(* The loop of loadConfiguration over the lines of a file. *)
applyLines(c, f) ==
  LET after[n \in 0..Len(f)] == IF n = 0 THEN c ELSE applyConfigLine(after[n - 1], f[n])
  IN after[Len(f)]

-----------------------------------------------------------------------------
(* A menu entry: an edited text, a switched entry, the keys that change the    *)
(* video mode.                                                                 *)
Change ==
  /\ \E v \in DOMAIN cfg : \E x \in Values[v] :
       x # cfg[v] /\ cfg' = [cfg EXCEPT ![v] = x]
  /\ loaded' = FALSE /\ UNCHANGED <<file, saved, whole, cutVar, edited, files>>

(* "Restore defaults": the kernel's parameter and the video mode stay. *)
setDefaultConfiguration ==
  /\ cfg' = [cfg EXCEPT !.videoParameter = setDefaultVideoParameter(cfg.currentMode),
                        !.enableDev9 = 1, !.autoBootTime = 0]
  /\ loaded' = FALSE /\ UNCHANGED <<file, saved, whole, cutVar, edited, files>>

(* Nobody looks at the results of fwrite, fprintf and fclose: on a card that is *)
(* full or pulled the file ends anywhere.  When fopen fails nothing changes.     *)
Written(n, c) == [i \in DOMAIN Items |-> IF i <= n THEN Line(Items[i], c) ELSE NoLine]

saveConfiguration ==
  /\ files < MaxFiles
  /\ \E n \in 0..Len(Items) :
       /\ whole' = n
       /\ \/ file' = Written(n, cfg) /\ cutVar' = "none"
          \/ /\ n < Len(Items) /\ cutVar' = Items[n + 1].var
             /\ \E x \in CutValues(Items[n + 1]) :
                  file' = [Written(n, cfg) EXCEPT ![n + 1] = <<Items[n + 1].name, x>>]
  /\ saved' = cfg /\ edited' = <<>> /\ files' = files + 1
  /\ loaded' = FALSE /\ UNCHANGED cfg

(* Someone edits one line of the file on another computer (external). *)
HandEdit ==
  /\ files < MaxFiles /\ file # <<>> /\ edited = <<>>
  /\ \E i \in DOMAIN file : \E x \in Values[Items[i].var] :
       /\ file[i] # NoLine /\ x # file[i][2]
       /\ file' = [file EXCEPT ![i] = <<file[i][1], x>>]
       /\ edited' = file'[i]
  /\ files' = files + 1 /\ loaded' = FALSE /\ UNCHANGED <<cfg, saved, whole, cutVar>>

loadConfiguration ==
  /\ file # <<>>
  /\ cfg' = applyLines(cfg, file)
  /\ loaded' = TRUE /\ UNCHANGED <<file, saved, whole, cutVar, edited, files>>

-----------------------------------------------------------------------------
Init ==
  /\ \E m \in Modes :
       cfg = [kernelParameter |-> "ramdisk_size=16384", currentMode |-> m, enableDev9 |-> 1,
              videoParameter |-> setDefaultVideoParameter(m), autoBootTime |-> 0]
  /\ file = <<>> /\ saved = cfg /\ whole = 0 /\ cutVar = "none" /\ edited = <<>> /\ loaded = FALSE /\ files = 0

Next == Change \/ setDefaultConfiguration \/ saveConfiguration \/ HandEdit \/ loadConfiguration

Spec == Init /\ [][Next]_vars

-----------------------------------------------------------------------------
(* A file nobody touched gives back every setting whose line the card took,     *)
(* whatever was changed in between: in particular the video parameter of the    *)
(* user survives the video mode, which sets a default of its own when read.  A   *)
(* later line that was cut short may spoil a variable with two items.           *)
RoundTrip ==
  (loaded /\ edited = <<>>) =>
    \A n \in 1..whole :
      Items[n].var # cutVar => cfg[Items[n].var] = saved[Items[n].var]

=============================================================================
