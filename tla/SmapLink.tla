------------------------------- MODULE SmapLink -------------------------------
(***************************************************************************)
(* How the Ethernet module of the IOP (iop/smaprpc/smap.c) brings up its   *)
(* link: it resets the chip and the phy, waits for the auto-negotiation,   *)
(* restarts it when it takes too long, then forces 100 and 10 Mbit, and    *)
(* sets the chip to the speed and duplex mode the phy ended with.  The     *)
(* phy's own answers are external and may be anything the cable allows; a  *)
(* phy register that stays busy reads as -1, every bit set, and a write to  *)
(* it may be lost, which no caller of WritePhy looks at.                   *)
(***************************************************************************)
EXTENDS Naturals

CONSTANT Retries          \* SMAP_AUTONEGO_RETRY

VARIABLES pc,             \* where SMapInit is
          tries,          \* auto-negotiations restarted so far
          flags,          \* u32Flags
          mode1,          \* SMAP_EMAC3_MODE1 of the chip
          txMode,         \* u32TXMode
          phy,            \* speed and duplex mode the phy works with
          doubt,          \* why the phy may be in another mode than the driver thinks
          newChip,        \* SPD_R_REV_1 is 0x13 or later
          enabled         \* transmitter, receiver and interrupts are on

vars == <<pc, tries, flags, mode1, txMode, phy, doubt, newChip, enabled>>

Mode(media, fdx) == [media |-> media, fdx |-> fdx]
NoMode == Mode(0, FALSE)
PhyModes == {Mode(media, fdx) : media \in {10, 100}, fdx \in BOOLEAN}

Init ==
  /\ pc = "init" /\ tries = 0 /\ flags = {}
  /\ mode1 = NoMode /\ txMode = NoMode
  /\ phy \in PhyModes
  /\ doubt = "none"
  /\ newChip \in BOOLEAN
  /\ enabled = FALSE

\* GetNodeAddr: the checksum of the address in the EEPROM is wrong, or the address is kept
GetNodeAddr(ok) ==
  /\ pc = "init"
  /\ pc' = IF ok THEN "emac" ELSE "failed"
  /\ UNCHANGED <<tries, flags, mode1, txMode, phy, doubt, newChip, enabled>>

\* Reset: interrupts off, FIFOs and chip reset, the chip set to its default mode
EMAC3Init ==
  /\ pc = "emac"
  /\ mode1' = Mode(100, TRUE)
  /\ enabled' = FALSE
  /\ pc' = "phy"
  /\ UNCHANGED <<tries, flags, txMode, phy, doubt, newChip>>

\* the phy comes out of its reset, or PhyInit gives up
PhyReset(done) ==
  /\ pc = "phy"
  /\ pc' = IF done THEN "nego" ELSE "reinit"
  /\ UNCHANGED <<tries, flags, mode1, txMode, phy, doubt, newChip, enabled>>

\* PhySetDSP keeps the mode for EMAC3ReInit and declares the link valid
PhySetDSP(established, mode) ==
  /\ txMode' = mode
  /\ flags' = established \cup {"LINKESTABLISH", "LINKVALID"}
  /\ pc' = "defaults"

\* the partners agreed on a mode: the chip follows, except on newer hardware, where
\* ConfirmAutoNegotiation returns before it reads the phy's status
ConfirmAutoNegotiation ==
  /\ pc = "nego"
  /\ phy' \in PhyModes
  /\ mode1' = IF newChip THEN mode1 ELSE phy'
  /\ doubt' = IF newChip THEN "skipped" ELSE "none"
  /\ PhySetDSP(flags, mode1')
  /\ UNCHANGED <<tries, newChip, enabled>>

\* complete, but the status register shows no link, or a read stayed busy
ConfirmAutoNegotiation_Unsure ==
  /\ pc = "nego" /\ ~newChip
  /\ phy' \in PhyModes
  /\ mode1' \in {mode1, Mode(10, TRUE)}
  /\ doubt' = "unread"
  /\ PhySetDSP(flags, mode1')
  /\ UNCHANGED <<tries, newChip, enabled>>

\* WritePhy of a forced mode: its result is ignored.  When the write was lost, the phy
\* stays as it was, or where its auto-negotiation takes it.
WritePhy(mode) ==
  \/ phy' = mode /\ doubt' = "none"
  \/ phy' \in PhyModes /\ doubt' = "unwritten"

\* three seconds passed: restart, and in the end force 100 Mbit half duplex
AutoNegotiation_Timeout ==
  /\ pc = "nego"
  /\ \/ /\ tries < Retries
        /\ tries' = tries + 1
        /\ UNCHANGED <<pc, flags, phy, doubt>>
     \/ /\ tries = Retries
        /\ pc' = "forced"
        /\ flags' = flags \cup {"FORCE100M"}
        /\ WritePhy(Mode(100, FALSE))
        /\ UNCHANGED tries
  /\ UNCHANGED <<mode1, txMode, newChip, enabled>>

ForcedMode(set) == CASE "FORCE100M" \in set -> Mode(100, FALSE)
                     [] "FORCE100M" \notin set /\ "FORCE10M" \in set -> Mode(10, FALSE)
                     [] OTHER -> Mode(0, FALSE)

\* the link came up in the mode that was forced
ConfirmForceSPD ==
  /\ pc = "forced"
  /\ mode1' = ForcedMode(flags)
  /\ PhySetDSP(flags \ {"FORCE100M", "FORCE10M"}, mode1')
  /\ UNCHANGED <<tries, phy, doubt, newChip, enabled>>

ConfirmForceSPD_Timeout_Keeps100M ==
  /\ pc = "forced" /\ "FORCE100M" \in flags /\ "FORCE10M" \notin flags
  /\ flags' = flags \cup {"FORCE10M"}
  /\ WritePhy(Mode(10, FALSE))
  /\ UNCHANGED <<pc, tries, mode1, txMode, newChip, enabled>>

\* no link at 100 Mbit: ForceSPD10M
ConfirmForceSPD_Timeout ==
  /\ pc = "forced" /\ "FORCE100M" \in flags
  /\ flags' = (flags \ {"FORCE100M"}) \cup {"FORCE10M"}
  /\ WritePhy(Mode(10, FALSE))
  /\ UNCHANGED <<pc, tries, mode1, txMode, newChip, enabled>>

\* no link at 10 Mbit either, nor in the phy's status
ConfirmForceSPD_Fails ==
  /\ pc = "forced" /\ "FORCE100M" \notin flags
  /\ flags' = flags \ {"FORCE10M"}
  /\ pc' = "defaults"
  /\ UNCHANGED <<tries, mode1, txMode, phy, doubt, newChip, enabled>>

\* EMAC3SetDefValue, with interrupts off and cleared
EMAC3SetDefValue ==
  /\ pc = "defaults"
  /\ pc' = "reinit"
  /\ UNCHANGED <<tries, flags, mode1, txMode, phy, doubt, newChip, enabled>>

\* the second reset of the chip: its mode is lost and set from the saved one
EMAC3ReInit ==
  /\ pc = "reinit"
  /\ mode1' = txMode
  /\ pc' = "start"
  /\ UNCHANGED <<tries, flags, txMode, phy, doubt, newChip, enabled>>

\* SMapIFInit, once handler and timer are installed
SMap_Start ==
  /\ pc = "start"
  /\ enabled' = TRUE
  /\ flags' = flags \cup {"OPENED"}
  /\ pc' = "open"
  /\ UNCHANGED <<tries, mode1, txMode, phy, doubt, newChip>>

Next ==
  \/ \E ok \in BOOLEAN : GetNodeAddr(ok)
  \/ EMAC3Init
  \/ \E done \in BOOLEAN : PhyReset(done)
  \/ ConfirmAutoNegotiation \/ ConfirmAutoNegotiation_Unsure \/ AutoNegotiation_Timeout
  \/ ConfirmForceSPD \/ ConfirmForceSPD_Timeout \/ ConfirmForceSPD_Fails
  \/ EMAC3SetDefValue \/ EMAC3ReInit \/ SMap_Start

Fairness == WF_vars(Next)

Spec == Init /\ [][Next]_vars /\ Fairness

-----------------------------------------------------------------------------
\* When the link is declared valid and frames can be sent, the chip works with the
\* speed and duplex mode of the phy, however many of the ways to get there failed and
\* although the chip was reset once more; or else the phy's status was not read (newer
\* hardware, for which the chip keeps 100 Mbit full duplex, or a busy register), or the
\* write of the mode the chip was set to was lost.
LinkAgrees == enabled /\ "LINKVALID" \in flags =>
  \/ mode1 = phy
  \/ doubt = "skipped" /\ newChip /\ mode1 = Mode(100, TRUE)
  \/ doubt = "unread" /\ ~newChip
  \/ doubt = "unwritten" /\ mode1 \in {Mode(100, FALSE), Mode(10, FALSE)}
=============================================================================
