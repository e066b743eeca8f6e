----------------------------- MODULE LoaderStart -----------------------------
(***************************************************************************)
(* loader/modules.c, main.cpp, loadermenu.cpp, SMS_CDDA.c and SMS_CDVD.c: how  *)
(* the loader brings up the IOP, finds its configuration and its disc driver,  *)
(* and does it again when the user reloads the modules.                        *)
(* Every reset of the IOP ends the servers of the modules loaded before.       *)
(***************************************************************************)
EXTENDS Integers, Sequences

CONSTANTS
  MediaSets,     \* which places may hold a configuration file
  MaxPasses      \* bound: passes of loadLoaderModules

VARIABLES
  normal, cdrom,   \* not started with -d, not started with --no-cdvd
  media,           \* where a configuration file is
  disc,            \* a readable disc is in the drive
  pc, idx,         \* progress of loadLoaderModules
  passes,          \* calls of loadLoaderModules, each with a reset of the IOP unless -d
  sms,             \* generation whose SMSCDVD serves the disc, 0 for none
  client,          \* generation the clients of CDDA_Init, CDVD_Init bound to, 0 for none
  lrv,             \* a configuration was read in this pass
  cfg,             \* where the settings come from
  loadCfg, loadNetsurf, loadUsb, loadDvd,     \* still to do on startup
  eromdrv,         \* the EROM driver was already looked for
  eromdrvSupport,
  network_support,
  error,           \* an error waits to be shown
  calledDead       \* a disc call went to a server of an earlier generation

env == <<normal, cdrom, media, disc>>
vars == <<env, pc, idx, passes, sms, client, lrv, cfg, loadCfg, loadNetsurf, loadUsb, loadDvd,
          eromdrv, eromdrvSupport, network_support, error, calledDead>>

(* moduleList: the attributes that matter for the order of things. *)
Module(p) == [path |-> p, normal |-> FALSE, cfg |-> FALSE, sms |-> FALSE, erom |-> FALSE,
              network |-> FALSE, optional |-> FALSE]
Normal(p) == [Module(p) EXCEPT !.normal = TRUE]
Sms(p) == [Module(p) EXCEPT !.sms = TRUE]

moduleList == <<
  Module("CLEARSPU"), [Module("ADDDRV") EXCEPT !.optional = TRUE],
  [Module("eromdrvloader") EXCEPT !.erom = TRUE],
  Normal("SIO2MAN"), Normal("MCMAN"), Normal("MCSERV"),
  [Module("PADMAN") EXCEPT !.cfg = TRUE],
  Sms("SMSUTILS"), Sms("SMSCDVD"),
  Normal("ioptrap"), Normal("iomanX"), Normal("poweroff"), Normal("ps2dev9"), Normal("ps2ip"),
  [Module("ps2http") EXCEPT !.network = TRUE] >>

usbModules == << Module("bdm"), Module("bdmfs_fatfs"), Module("usbd"), Module("usbmass_bd"),
                 Module("fileXio"), Module("ps2kbd") >>

List == moduleList \o usbModules

-----------------------------------------------------------------------------
(* ps2link keeps the IOP as it is. *)
Generation == IF normal THEN passes ELSE 1

(* The first file found wins. *)
Search(order) ==
  LET found == {n \in DOMAIN order : order[n] \in media}
  IN IF found = {} THEN "" ELSE order[CHOOSE n \in found : \A k \in found : n <= k]

(* Start of loadLoaderModules: the IOP is reset unless ps2link needs it. *)
ResetIop ==
  /\ passes' = passes + 1
  /\ sms' = IF normal THEN 0 ELSE sms
  /\ network_support' = (network_support /\ normal)
  /\ eromdrvSupport' = FALSE /\ lrv' = FALSE
  /\ pc' = "modules" /\ idx' = 1

main ==
  /\ pc = "off" /\ ResetIop
  /\ UNCHANGED <<env, client, cfg, loadCfg, loadNetsurf, loadUsb, loadDvd, eromdrv, error, calledDead>>

(* CDVD_Stop, CDVD_FlushCache, CDDA_DiskType and the others call through the   *)
(* client whatever the IOP did meanwhile.                                      *)
Dead(c) == c # 0 /\ c # Generation
DiscCall == calledDead' = (calledDead \/ Dead(client))

-----------------------------------------------------------------------------
Skip(e) == (e.normal /\ ~normal) \/ (e.network /\ ~network_support)

(* One entry of moduleList.  PADMAN's also reads the configuration: the cards  *)
(* can be read from here on.  Only the first pass does so, and only the first  *)
(* pass looks for the name of the EROM driver.                                 *)
ReadConfig ==
  LET found == Search(<<"mc0", "mc1", "host">>)
  IN /\ loadCfg' = FALSE
     /\ cfg' = IF found = "" THEN "default" ELSE found
     /\ lrv' = (found # "")

LoadEntry(e) ==
  /\ \E loaded \in BOOLEAN :
       /\ error' = (error \/ (~loaded /\ ~e.optional /\ ~e.erom))
       /\ eromdrvSupport' = IF e.erom THEN loaded ELSE eromdrvSupport
       /\ sms' = IF e.path = "SMSCDVD" /\ loaded THEN Generation ELSE sms
  /\ eromdrv' = (eromdrv \/ e.erom)
  /\ UNCHANGED <<client, calledDead>>

KeepEntry(e) ==
  /\ eromdrv' = (eromdrv \/ e.erom)
  /\ UNCHANGED <<sms, client, eromdrvSupport, error, calledDead>>

loadLoaderModules ==
  /\ pc = "modules" /\ idx <= Len(List)
  /\ LET e == List[idx]
         reads == e.cfg /\ loadCfg
         tried == ~Skip(e) /\ (e.sms => eromdrvSupport)
     IN /\ IF reads THEN ReadConfig ELSE UNCHANGED <<loadCfg, cfg, lrv>>
        /\ \/ tried /\ (e.erom /\ ~eromdrv => cdrom) /\ LoadEntry(e)
           \/ ~tried /\ UNCHANGED <<sms, client, eromdrv, eromdrvSupport, error, calledDead>>
           \/ /\ ~tried /\ ~Skip(e)                            \* found on the card
              /\ sms' = IF e.path = "SMSCDVD" THEN Generation ELSE sms
              /\ UNCHANGED <<client, eromdrv, eromdrvSupport, error, calledDead>>
           \/ tried /\ e.erom /\ ~eromdrv /\ KeepEntry(e)    \* disabled, or no driver of this region
  /\ idx' = idx + 1
  /\ UNCHANGED <<env, pc, passes, loadNetsurf, loadUsb, loadDvd, network_support>>

ModulesLoaded ==
  /\ pc = "modules" /\ idx > Len(List) /\ pc' = "usb"
  /\ UNCHANGED <<env, idx, passes, sms, client, lrv, cfg, loadCfg, loadNetsurf, loadUsb, loadDvd,
                 eromdrv, eromdrvSupport, network_support, error, calledDead>>

(* The stick, with NetSurf's directory first. *)
UsbConfig ==
  /\ pc = "usb" /\ pc' = "dvd"
  /\ LET found == Search((IF loadNetsurf THEN <<"ps2ns">> ELSE <<>>)
                         \o (IF loadUsb THEN <<"usb">> ELSE <<>>))
     IN IF lrv \/ found = "" THEN UNCHANGED <<lrv, cfg>> ELSE lrv' = TRUE /\ cfg' = found
  /\ loadNetsurf' = FALSE /\ loadUsb' = FALSE
  /\ UNCHANGED <<env, idx, passes, sms, client, loadCfg, loadDvd, eromdrv, eromdrvSupport,
                 network_support, error, calledDead>>

DvdConfig_AlwaysReads ==
  /\ pc = "dvd" /\ pc' = "rom"
  /\ IF loadDvd /\ eromdrvSupport
     THEN /\ loadDvd' = FALSE /\ client' = (IF client = 0 THEN sms ELSE client)
          /\ calledDead' = (calledDead \/ Dead(client'))
          /\ IF disc /\ "dvd" \in media THEN lrv' = TRUE /\ cfg' = "dvd"
                                        ELSE UNCHANGED <<lrv, cfg>>
     ELSE UNCHANGED <<loadDvd, client, calledDead, lrv, cfg>>
  /\ UNCHANGED <<env, idx, passes, sms, loadCfg, loadNetsurf, loadUsb, eromdrv, eromdrvSupport,
                 network_support, error>>

(* The disc.  CDDA_Init and CDVD_Init bind only clients that are not bound.    *)
DvdConfig ==
  /\ pc = "dvd" /\ pc' = "rom"
  /\ IF loadDvd /\ eromdrvSupport
     THEN /\ loadDvd' = FALSE /\ client' = (IF client = 0 THEN sms ELSE client)
          /\ calledDead' = (calledDead \/ (~lrv /\ Dead(client')))
          /\ IF ~lrv /\ disc /\ "dvd" \in media THEN lrv' = TRUE /\ cfg' = "dvd"
                                                ELSE UNCHANGED <<lrv, cfg>>
     ELSE UNCHANGED <<loadDvd, client, calledDead, lrv, cfg>>
  /\ UNCHANGED <<env, idx, passes, sms, loadCfg, loadNetsurf, loadUsb, eromdrv, eromdrvSupport,
                 network_support, error>>

(* The configuration built into the loader, when no other was read. *)
RomConfig ==
  /\ pc = "rom" /\ pc' = "menu"
  /\ IF lrv THEN UNCHANGED <<lrv, cfg>> ELSE lrv' = TRUE /\ cfg' = "rom"
  /\ UNCHANGED <<env, idx, passes, sms, client, loadCfg, loadNetsurf, loadUsb, loadDvd,
                 eromdrv, eromdrvSupport, network_support, error, calledDead>>

-----------------------------------------------------------------------------
(* In the menu: settings changed or loaded by hand, a directory of the disc    *)
(* listed (fsroot, loader), the modules loaded again.                          *)
ChangeSettings ==
  /\ pc = "menu" /\ cfg' = "user"
  /\ UNCHANGED <<env, pc, idx, passes, sms, client, lrv, loadCfg, loadNetsurf, loadUsb, loadDvd,
                 eromdrv, eromdrvSupport, network_support, error, calledDead>>

UseDisc ==
  /\ pc = "menu" /\ eromdrvSupport /\ DiscCall
  /\ UNCHANGED <<env, pc, idx, passes, sms, client, lrv, cfg, loadCfg, loadNetsurf, loadUsb, loadDvd,
                 eromdrv, eromdrvSupport, network_support, error>>

reloadModules ==
  /\ pc = "menu" /\ passes < MaxPasses
  /\ IF eromdrvSupport THEN DiscCall ELSE calledDead' = calledDead
  /\ ResetIop
  /\ UNCHANGED <<env, client, cfg, loadCfg, loadNetsurf, loadUsb, loadDvd, eromdrv, error>>

-----------------------------------------------------------------------------
Init ==
  /\ normal \in BOOLEAN /\ cdrom \in BOOLEAN /\ disc \in BOOLEAN
  /\ media \in MediaSets
  /\ pc = "off" /\ idx = 1 /\ passes = 0 /\ sms = 0 /\ client = 0
  /\ lrv = FALSE /\ cfg = "none"
  /\ loadCfg = TRUE /\ loadNetsurf = TRUE /\ loadUsb = TRUE /\ loadDvd = TRUE
  /\ eromdrv = FALSE /\ eromdrvSupport = FALSE /\ network_support = TRUE
  /\ error = FALSE /\ calledDead = FALSE

Next ==
  \/ main \/ loadLoaderModules \/ ModulesLoaded \/ UsbConfig \/ DvdConfig \/ RomConfig
  \/ ChangeSettings \/ UseDisc \/ reloadModules

Spec == Init /\ [][Next]_vars

-----------------------------------------------------------------------------
(* The first time the menu opens the settings are those of the first place of  *)
(* the search that had a file: cards, host, stick, disc, built in.             *)
FirstConfigWins ==
  pc = "menu" /\ passes = 1 /\ cfg # "user" =>
    LET order == <<"mc0", "mc1", "host", "ps2ns", "usb">>
                 \o (IF eromdrvSupport /\ disc THEN <<"dvd">> ELSE <<>>)
    IN cfg = IF Search(order) = "" THEN "rom" ELSE Search(order)

(* CDDA_Init and CDVD_Init keep the clients they bound once, which reset IOPs  *)
(* do not answer: until the modules are loaded again, and always under         *)
(* ps2link, no disc call goes to a server that is gone.                        *)
DiscServed == calledDead => normal /\ passes > 1
=============================================================================
