----------------------------- MODULE BootModules -----------------------------
(***************************************************************************)
(* loader/loader.c and loader/loadermenu.cpp: the IOP modules of a boot.  The  *)
(* table says for which console each one is meant; setDefaultConfiguration     *)
(* selects by console, the configuration file and the menus change the choice  *)
(* afterwards, loadModules reads the files before the IOP is reset and         *)
(* startModules starts them after it.  Finally real_loader tells Linux which   *)
(* devices it will find.                                                       *)
(***************************************************************************)
EXTENDS Integers, Sequences, FiniteSets

CONSTANTS
  modules,       \* the table of the modules, a sequence of records (moduleEntry_t)
  Choices,       \* modules whose menu entry the user may change
  MaxBoots       \* bound: boots tried

VARIABLES
  slim, debug, network, dvdv, oldLibsd, adapter,   \* the console
  embedded,      \* the "host:" files found in the loader's own ROM
  pc,
  enableDev9, ipGiven,      \* settings of the configuration
  load,          \* modules[i].load
  chosen,        \* the user changed a module's entry
  buffer,        \* modules[i].buffer: "none", "rom" or "heap"
  lost,          \* buffers of the heap nothing points to any more
  started,       \* modules given to the IOP, in the order of the table
  pccard, ipOff, \* bootinfo.pccard_type and the option added to the command line
  boots

console == <<slim, debug, network, dvdv, oldLibsd, adapter, embedded>>
vars == <<console, pc, enableDev9, ipGiven, load, chosen, buffer, lost, started,
          pccard, ipOff, boots>>

-----------------------------------------------------------------------------
Ids == 1..Len(modules)
Id(p) == CHOOSE i \in Ids : modules[i].path = p

-----------------------------------------------------------------------------
(* setDefaultConfiguration: which modules a console gets. *)
DefaultLoad(e) ==
  LET generation == IF slim /\ ~debug THEN 1 ELSE -1
      chassis == IF slim THEN 1 ELSE -1
      meant == CASE e.defaultmod = 1 -> e.slim \in {0, generation}
                 [] e.defaultmod = 2 -> e.slim \in {0, chassis}
                 [] OTHER -> FALSE
  IN IF e.normal /\ debug THEN FALSE
     ELSE IF e.sound THEN oldLibsd ELSE meant

setDefaultConfiguration ==
  /\ pc = "reset"
  /\ pc' = "menu" /\ enableDev9' = ~debug
  /\ load' = {i \in Ids : DefaultLoad(modules[i])}
  /\ UNCHANGED <<console, ipGiven, chosen, buffer, lost, started, pccard, ipOff, boots>>

(* Configuration file and menus. *)
SetOptions ==
  /\ pc = "menu"
  /\ enableDev9' \in BOOLEAN /\ ipGiven' \in BOOLEAN
  /\ UNCHANGED <<console, pc, load, chosen, buffer, lost, started, pccard, ipOff, boots>>

ChooseModule ==
  /\ pc = "menu" /\ ~chosen
  /\ \E p \in Choices : load' = IF Id(p) \in load THEN load \ {Id(p)} ELSE load \cup {Id(p)}
  /\ chosen' = TRUE
  /\ UNCHANGED <<console, pc, enableDev9, ipGiven, buffer, lost, started, pccard, ipOff, boots>>

-----------------------------------------------------------------------------
(* loadModules.  Files not in the ROM are read to the heap; one of them may be *)
(* missing.  The clean-up after a failure walks over the earlier modules but   *)
(* passes the NULL of the failed one to free.                                  *)
MustLoad == {i \in load : modules[i].buffered /\ (modules[i].network => network)}
Source(i) == IF modules[i].host /\ modules[i].path \in embedded THEN "rom" ELSE "heap"

loadModules ==
  /\ pc = "menu" /\ boots < MaxBoots /\ boots' = boots + 1
  /\ \E missing \in {{}} \cup {{i} : i \in {j \in MustLoad : Source(j) = "heap"}} :
       LET fails == \E i \in missing : ~modules[i].optional
           got == IF fails THEN {i \in MustLoad : \A k \in missing : i < k} ELSE MustLoad \ missing
       IN /\ buffer' = [i \in Ids |->
                          IF i \in got THEN Source(i)
                          ELSE IF fails /\ \A k \in missing : i > k THEN buffer[i] ELSE "none"]
          /\ lost' = lost + Cardinality({i \in Ids : buffer[i] = "heap"
                                              /\ (~fails \/ \A k \in missing : i <= k)})
          /\ pc' = IF fails THEN "menu" ELSE "loaded"
  /\ UNCHANGED <<console, enableDev9, ipGiven, load, chosen, started, pccard, ipOff>>

(* A later step of the boot (initrd, checksum) may still give up. *)
GiveUp ==
  /\ pc = "loaded" /\ pc' = "menu"
  /\ UNCHANGED <<console, enableDev9, ipGiven, load, chosen, buffer, lost, started, pccard, ipOff, boots>>

dev9Matches_OnlyRequired(e) == e.dev9 # 1 \/ (slim /\ enableDev9)

(* dev9Matches.  Nothing probes a fat before, so ps2dev9_probed() is never > 0. *)
dev9Matches(e) ==
  LET available == slim /\ enableDev9
  IN e.dev9 = 0 \/ e.dev9 = (IF available THEN 1 ELSE -1)

(* startModules, in the order of the table. *)
MayStart(e) == (e.eromdrv => dvdv) /\ (e.network => network) /\ dev9Matches(e)

startModules ==
  /\ pc = "loaded" /\ pc' = "started"
  /\ started' = {i \in load : MayStart(modules[i])}
  /\ UNCHANGED <<console, enableDev9, ipGiven, load, chosen, buffer, lost, pccard, ipOff, boots>>

(* real_loader, in kernel mode: what Linux is told about DEV9.  On a fat the   *)
(* adapter is asked only now.                                                  *)
TellLinux ==
  /\ pc = "started" /\ pc' = "running"
  /\ pccard' = IF ~enableDev9 \/ ~network THEN 0
               ELSE IF slim THEN 512 ELSE IF adapter THEN 256 ELSE 0
  /\ ipOff' = (pccard' = 0 /\ ~ipGiven)
  /\ UNCHANGED <<console, enableDev9, ipGiven, load, chosen, buffer, lost, started, boots>>

-----------------------------------------------------------------------------
Init ==
  /\ slim \in BOOLEAN /\ debug \in BOOLEAN /\ network \in BOOLEAN /\ dvdv \in BOOLEAN
  /\ oldLibsd \in BOOLEAN /\ adapter \in BOOLEAN
  /\ embedded \in {{modules[i].path : i \in {j \in Ids : modules[j].host}} \ x :
                     x \in {{"eedebug", "audsrv", "TGE/dmarelay"},
                            {"eedebug", "audsrv", "TGE/dmarelay", "smaprpc"}}}
  /\ pc = "reset" /\ enableDev9 = FALSE /\ ipGiven = FALSE
  /\ load = {} /\ chosen = FALSE
  /\ buffer = [i \in Ids |-> "none"] /\ lost = 0 /\ started = {}
  /\ pccard = 0 /\ ipOff = FALSE /\ boots = 0

Next ==
  \/ setDefaultConfiguration \/ SetOptions \/ ChooseModule
  \/ loadModules \/ GiveUp \/ startModules \/ TellLinux

Spec == Init /\ [][Next]_vars

-----------------------------------------------------------------------------
Relays == {Id(p) : p \in {"intrelay-direct", "intrelay-direct-rpc",
                          "intrelay-dev9", "intrelay-dev9-rpc"}}
Before(a, b) == {a, b} \subseteq started /\ a < b

(* With the default selection every console without ps2link gets exactly one   *)
(* interrupt relay; one that needs the DEV9 driver comes after it, and a slim  *)
(* that tells Linux about its network started the driver for it, whatever the  *)
(* configuration file said after the selection was made.                       *)
DevicesServed ==
  pc \in {"started", "running"} /\ ~debug /\ ~chosen =>
    /\ \E r \in Relays : Relays \cap started = {r}
    /\ \A r \in Relays \cap started : modules[r].dev9 = 1 => Before(Id("ps2dev9"), r)
    /\ pccard = 512 => Before(Id("smaprpc"), Id("intrelay-dev9-rpc"))

(* A module the IOP is asked to start from memory was read, or is one that may *)
(* be missing, although it is loaded long before the decision to start it.     *)
StartedLoaded ==
  \A i \in started : modules[i].buffered => buffer[i] # "none" \/ modules[i].optional
=============================================================================
