------------------------------- MODULE Loader -------------------------------
(***************************************************************************)
(* The parts of the loader side by side.  It is one program that does one    *)
(* thing at a time; the parts meet only in the values named in their modules, *)
(* which each of them takes as an input, so one part moves while the others   *)
(* rest in an initial state.                                                  *)
(***************************************************************************)
EXTENDS BootImage

CONSTANTS MaxBoots, MaxPasses, MaxMessages, MaxInput, Lines, MaxReports, MaxPath, MaxFiles,
          BootlogLines, BootlogCols, MaxText, Word, MaxCode, Chunks,
          ModuleChoices, FileChoices, MediaSets, Texts, Immediates, Images

VARIABLES
  part,          \* the part in use
  slim, debug, network, dvdv, oldLibsd, adapter, embedded, bmPc, enableDev9, ipGiven,
  bmLoad, chosen, bmBuffer, lost, started, pccard, ipOff, boots,
  normal, cdrom, media, disc, lsPc, idx, passes, sms, client, lrv, lsCfg, loadCfg,
  loadNetsurf, loadUsb, loadDvd, eromdrv, eromdrvSupport, network_support, error,
  calledDead,
  errorMessage, readMsgPos, writeMsgPos, reports, pending, info, input, len, cursorpos,
  top, scrollPos, inputScrollPos, scMenu, selected, autoBoot, booting, logging,
  fmMenu, listOf, fileName, fsDirParam, target, spinning, failed,
  cfCfg, file, saved, whole, cutVar, edited, loaded, files,
  lines, first, count, partial, active, painting, text,
  regs, sbLoad, cpu, jumpBase, found, jumped, steps,
  rtePc, rteI, copied, card, spoiled, image, rtePart, cut

modulevars == <<slim, debug, network, dvdv, oldLibsd, adapter, embedded, bmPc,
                enableDev9, ipGiven, bmLoad, chosen, bmBuffer, lost, started, pccard,
                ipOff, boots>>
startvars == <<normal, cdrom, media, disc, lsPc, idx, passes, sms, client, lrv, lsCfg,
               loadCfg, loadNetsurf, loadUsb, loadDvd, eromdrv, eromdrvSupport,
               network_support, error, calledDead>>
screenvars == <<errorMessage, readMsgPos, writeMsgPos, reports, pending, info, input,
                len, cursorpos, top, scrollPos, inputScrollPos, scMenu, selected, autoBoot,
                booting, logging>>
menuvars == <<fmMenu, listOf, fileName, fsDirParam, target, spinning, failed>>
configvars == <<cfCfg, file, saved, whole, cutVar, edited, loaded, files>>
logvars == <<lines, first, count, partial, active, painting, text>>
scanvars == <<regs, sbLoad, cpu, jumpBase, found, jumped, steps>>
rtevars == <<rtePc, rteI, copied, card, spoiled, image, rtePart, cut>>
allvars == <<part, vars, modulevars, startvars, screenvars, menuvars, configvars,
             logvars, scanvars, rtevars>>

-----------------------------------------------------------------------------
(* loader.c: the table of the IOP modules a boot may load and start.           *)

(* moduleEntry_t.  defaultmod: 0 by hand only, 1 by the generation of the ROM  *)
(* modules, 2 by the chassis.  slim: 1 for a slim, -1 for a fat, 0 for both.   *)
(* normal: not with ps2link (debug_mode = -1).                                 *)
File(p) == [path |-> p, host |-> FALSE, buffered |-> TRUE, defaultmod |-> 0, slim |-> 0,
            dev9 |-> 0, network |-> FALSE, sound |-> FALSE, eromdrv |-> FALSE,
            normal |-> FALSE, optional |-> FALSE]
Host(p) == [File(p) EXCEPT !.host = TRUE]
Rom(p) == [File(p) EXCEPT !.buffered = FALSE]
Normal(e) == [e EXCEPT !.normal = TRUE]
Default(e, kind, s) == [e EXCEPT !.defaultmod = kind, !.slim = s]
Dev9(e, d) == [e EXCEPT !.dev9 = d]
Sound(e) == [e EXCEPT !.sound = TRUE]

(* Drivers of the controller port and the memory card, old and new.            *)
SystemModules == <<
  Normal(Host("eedebug")), File("init"),
  [Normal(Default(Rom("ADDDRV"), 1, 0)) EXCEPT !.optional = TRUE],
  [Normal(Default(Host("eromdrvloader"), 1, 0)) EXCEPT !.eromdrv = TRUE],
  Normal(File("sio2man")), Normal(Default(Rom("XSIO2MAN"), 1, 1)),
  Normal(Default(Rom("SIO2MAN"), 1, -1)), Normal(Rom("rom1:SIO2MAN")),
  Normal(File("mcman")), Normal(Default(Rom("XMCMAN"), 1, 1)),
  Normal(Default(Rom("MCMAN"), 1, -1)) >>

PortModules == <<
  Normal(File("mcserv")), Normal(Default(Rom("XMCSERV"), 1, 1)),
  Normal(Default(Rom("MCSERV"), 1, -1)), Normal(File("padman")),
  Normal(Default(Rom("XPADMAN"), 1, 1)), Normal(Default(Rom("PADMAN"), 1, -1)),
  Normal(Rom("rom1:PADMAN")), File("libsd"), File("LIBSD.IRX"), Rom("LIBSD"),
  Sound(Rom("rom1:LIBSD")), File("sdrdrv"), File("SDRDRV.IRX"), Sound(Rom("SDRDRV")),
  Host("audsrv"), Normal(Host("ioptrap")) >>

DeviceModules == <<
  Normal(Default(Host("iomanX"), 1, 1)), Normal(Default(Host("poweroff"), 1, 0)),
  Normal(Dev9(Default(Host("ps2dev9"), 2, 0), 1)),
  [Normal(Host("ps2ip")) EXCEPT !.network = TRUE],
  [Normal(Dev9(Default(Host("smaprpc"), 2, 1), 1)) EXCEPT !.network = TRUE, !.optional = TRUE],
  Host("sharedmem") >>

RelayModules == <<
  Normal(File("iopintr")),
  Normal(Dev9(Default(Host("intrelay-direct"), 2, -1), -1)),
  Normal(Dev9(Default(Host("intrelay-direct-rpc"), 2, 1), -1)),
  Dev9(Default(Host("intrelay-dev9"), 2, -1), 1),
  Dev9(Default(Host("intrelay-dev9-rpc"), 2, 1), 1),
  File("dmarelay"), Host("TGE/dmarelay"), Normal(File("cdvdman")), Normal(File("cdvdfsv")),
  Rom("RMMAN"), Rom("RMMAN2"), File("module1"), File("module2"), File("module3"),
  File("module4"), File("module5") >>

moduleTable == SystemModules \o PortModules \o DeviceModules \o RelayModules

-----------------------------------------------------------------------------
M == INSTANCE BootModules WITH modules <- moduleTable, Choices <- ModuleChoices, pc <- bmPc,
       load <- bmLoad, buffer <- bmBuffer
S == INSTANCE LoaderStart WITH pc <- lsPc, cfg <- lsCfg
W == INSTANCE Screen WITH menu <- scMenu
F == INSTANCE FileMenu WITH Choices <- FileChoices, menu <- fmMenu
G == INSTANCE Config WITH cfg <- cfCfg
L == INSTANCE Bootlog
X == INSTANCE SbiosScan WITH load <- sbLoad
R == INSTANCE RteCopy WITH pc <- rtePc, i <- rteI, part <- rtePart

(* The menu has its entries from the table. *)
ASSUME ChoicesAssumption == \A p \in ModuleChoices : \E row \in M!Ids : moduleTable[row].path = p

(* The ring holds a message and inputBuffer a character and its terminator. *)
ASSUME ScreenAssumption == MaxMessages \in Nat \ {0} /\ MaxInput \in Nat /\ MaxInput > 1

ASSUME LogAssumption ==
  BootlogLines \in Nat \ {0} /\ BootlogCols \in Nat \ {0} /\ Texts \subseteq Seq(STRING)

ASSUME ScanAssumption == Word \in Nat \ {0} /\ Immediates \subseteq Int

ASSUME RteAssumption == Chunks \in Nat /\ Images \subseteq Seq(STRING)

(* A part at rest is in one of its initial states. *)
LoaderInit ==
  /\ part \in {"image", "modules", "start", "screen", "menu", "config", "log", "scan", "rte"}
  /\ Init /\ (part # "image" => ~wide /\ entry = CHOOSE e \in Entries : TRUE)
  /\ M!Init /\ (part # "modules" =>
                  ~slim /\ ~debug /\ ~network /\ ~dvdv /\ ~oldLibsd /\ ~adapter
                    /\ "smaprpc" \in embedded)
  /\ S!Init /\ (part # "start" => ~normal /\ ~cdrom /\ ~disc
                                     /\ media = CHOOSE m \in MediaSets : TRUE)
  /\ W!Init /\ (part # "screen" => ~info /\ ~autoBoot /\ ~logging)
  /\ F!Init
  /\ G!Init /\ (part # "config" => cfCfg.currentMode = "pal")
  /\ L!Init /\ X!Init /\ R!Init

LoaderNext ==
  /\ UNCHANGED part
  /\ \/ /\ part = "image" /\ Next
        /\ UNCHANGED <<modulevars, startvars, screenvars, menuvars, configvars, logvars,
                       scanvars, rtevars>>
     \/ /\ part = "modules" /\ M!Next
        /\ UNCHANGED <<vars, startvars, screenvars, menuvars, configvars, logvars,
                       scanvars, rtevars>>
     \/ /\ part = "start" /\ S!Next
        /\ UNCHANGED <<vars, modulevars, screenvars, menuvars, configvars, logvars,
                       scanvars, rtevars>>
     \/ /\ part = "screen" /\ W!Next
        /\ UNCHANGED <<vars, modulevars, startvars, menuvars, configvars, logvars,
                       scanvars, rtevars>>
     \/ /\ part = "menu" /\ F!Next
        /\ UNCHANGED <<vars, modulevars, startvars, screenvars, configvars, logvars,
                       scanvars, rtevars>>
     \/ /\ part = "config" /\ G!Next
        /\ UNCHANGED <<vars, modulevars, startvars, screenvars, menuvars, logvars,
                       scanvars, rtevars>>
     \/ /\ part = "log" /\ L!Next
        /\ UNCHANGED <<vars, modulevars, startvars, screenvars, menuvars, configvars,
                       scanvars, rtevars>>
     \/ /\ part = "scan" /\ X!Next
        /\ UNCHANGED <<vars, modulevars, startvars, screenvars, menuvars, configvars,
                       logvars, rtevars>>
     \/ /\ part = "rte" /\ R!Next
        /\ UNCHANGED <<vars, modulevars, startvars, screenvars, menuvars, configvars,
                       logvars, scanvars>>

LoaderSpec == LoaderInit /\ [][LoaderNext]_allvars

-----------------------------------------------------------------------------
(* See BootModules and LoaderStart: the modules started serve the devices Linux *)
(* is told of, in the right order, none is started from a buffer that was never *)
(* filled, and the loader's own disc calls reach a server that runs.            *)
ModulesServe == M!DevicesServed /\ M!StartedLoaded /\ S!DiscServed

(* See LoaderStart and Config: at the first start the settings come from the    *)
(* first place that has a file, and a file gives back the settings whose lines   *)
(* the card took.                                                               *)
ConfigTrue == S!FirstConfigWins /\ G!RoundTrip

(* See Screen: errors are shown in order, and editing writes no further than one *)
(* byte behind the text's buffer.                                               *)
ScreenTrue == W!ErrorsInOrder /\ W!CursorInText

(* See FileMenu and RteCopy: the directory shown is the one the next entry is   *)
(* added to, and what is copied from the disc to the card is whole.             *)
FilesTrue == F!ListingTrue /\ R!CardWhole /\ R!PartCut

(* See Bootlog: the panel shows the last lines that were written. *)
LogIsTail == L!LogIsTail

(* See SbiosScan: the table of SBIOS calls found in the code is the one it uses. *)
TableFound == X!TableFound
=============================================================================
