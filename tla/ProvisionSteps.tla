--------------------------- MODULE ProvisionSteps ---------------------------
(***************************************************************************)
(* What the steps of a provisioning run write: the board's disk (steps     *)
(* disk, overlay, software, encryption and tailscale), the HAT EEPROM      *)
(* (eeprom) and the bootloader's flash (bootloader).  A step is carried    *)
(* out one durable write at a time, and at any moment it may fail or the   *)
(* power may be cut, after which any step may be carried out again.  Steps *)
(* never overlap, but the done-states may be being read meanwhile          *)
(* (run.rs, determine), which holds the mapping of the root volume.        *)
(*                                                                         *)
(* The disk is its firmware partition fw and its root partition rt, the    *)
(* two units in which what is written to the raw disk reaches it, in       *)
(* either order (the kernel's cache).  The root partition's LUKS volume    *)
(* is its keyslots, each named by what opens it, and whether it has a key  *)
(* and an identifier of its own.                                           *)
(***************************************************************************)
EXTENDS Naturals, Sequences

CONSTANTS
    MaxTries,   \* bound: recovery passphrases generated
    Selections, \* the sets of steps a person may choose to carry out, again and again
    Faulty      \* whether a write to the disk may go wrong and not say so

StepIds == {"disk", "overlay", "software", "encryption", "tailscale", "eeprom", "bootloader"}

ASSUME StepsAssumption ==
    MaxTries \in Nat \ {0} /\ Faulty \in BOOLEAN /\ Selections \subseteq SUBSET StepIds

VARIABLES
    fw,         \* the firmware partition
    rt,         \* the root partition
    dirty,      \* the parts of the raw disk written to and not yet on it
    records,    \* the passphrases in the records file of the medium
    tries,      \* passphrases generated so far
    eeprom,     \* what the HAT EEPROM holds
    flash,      \* what the bootloader's flash holds
    chosen,     \* the steps a person chooses among
    work,       \* where the step being carried out is
    mapping     \* who has the root volume open

boardVars == <<fw, rt, dirty, records, tries, eeprom, flash, chosen>>
stepVars == <<fw, rt, dirty, records, tries, eeprom, flash, chosen, work, mapping>>

Passphrases == 1 .. MaxTries
Contents == {"other", "earlier", "medium", "bad"}
SoftwareOrder == <<"files", "link", "unpacked", "packages", "units">>
Software == {SoftwareOrder[i] : i \in DOMAIN SoftwareOrder}

Firmware(image) == [image |-> image, marker |-> "none", has |-> {}]
Root(image) ==
    [image |-> image, own |-> FALSE, reencrypting |-> FALSE, uuid |-> FALSE, empty |-> TRUE,
     tpm |-> FALSE, phrases |-> {}, has |-> {}]

(* A board comes with a disk of another system, or one this step wrote     *)
(* from an earlier medium.                                                 *)
StepsInit ==
    /\ \E image \in {"other", "earlier"} :
          /\ fw = [Firmware(image) EXCEPT !.marker = IF image = "earlier" THEN "earlier" ELSE "none"]
          /\ rt = Root(image)
    /\ dirty = {}
    /\ records = {}
    /\ tries = 0
    /\ eeprom \in {"blank", "other"}
    /\ flash = "older"
    /\ chosen \in Selections
    /\ work = "none"
    /\ mapping = "free"

(* The work goes on to its next write, none once the step is over.         *)
To(next) == work' = next
Over == work' = "none" /\ mapping' = IF mapping = "step" THEN "free" ELSE mapping

Carries(step) == work = "none" /\ step \in chosen

Volume == rt.image \in {"earlier", "medium"}
RootOpens == Volume /\ (rt.empty \/ rt.tpm)

(***************************************************************************)
(* The step disk.                                                          *)
(***************************************************************************)
(* What the disk is reported to hold decides whether a person is asked     *)
(* first; the answer may be no.                                            *)
DiskBegins ==
    /\ Carries("disk")
    /\ \E confirmed \in BOOLEAN :
          To(IF fw.marker # "none" THEN "unmark"
             ELSE IF rt.image = "other" /\ ~confirmed THEN "none" ELSE "write fw")
    /\ UNCHANGED <<boardVars, mapping>>

RemovesMarker ==
    /\ work = "unmark"
    /\ fw' = [fw EXCEPT !.marker = "none"]
    /\ To("write fw")
    /\ UNCHANGED <<rt, dirty, records, tries, eeprom, flash, mapping, chosen>>

WritesDisk ==
    /\ \/ work = "write fw" /\ dirty' = dirty \cup {"fw"} /\ To("write rt")
       \/ work = "write rt" /\ dirty' = dirty \cup {"rt"} /\ To("sync")
    /\ UNCHANGED <<fw, rt, records, tries, eeprom, flash, mapping, chosen>>

(* The kernel writes a part out, when it likes.                            *)
ReachesDisk ==
    /\ \E image \in IF Faulty THEN {"medium", "bad"} ELSE {"medium"} :
          \/ "fw" \in dirty /\ fw' = Firmware(image) /\ dirty' = dirty \ {"fw"} /\ UNCHANGED rt
          \/ "rt" \in dirty /\ rt' = Root(image) /\ dirty' = dirty \ {"rt"} /\ UNCHANGED fw
    /\ UNCHANGED <<records, tries, eeprom, flash, work, mapping, chosen>>

(* The disk is flushed, read back and, where it holds the payload, marked. *)
Verified == fw.image = "medium" /\ rt.image = "medium"

Verifies ==
    /\ work = "sync"
    /\ dirty = {}
    /\ To(IF Verified THEN "mark" ELSE "none")
    /\ UNCHANGED <<boardVars, mapping>>

(* The table is read again first, which the kernel refuses while the root  *)
(* volume of what was there before is open.                                *)
Marks ==
    /\ work = "mark"
    /\ mapping = "free"
    /\ fw' = [fw EXCEPT !.marker = "medium"]
    /\ Over
    /\ UNCHANGED <<rt, dirty, records, tries, eeprom, flash, chosen>>

(***************************************************************************)
(* The steps overlay, software and tailscale, in the mounted root volume.  *)
(***************************************************************************)
OpensRoot(step) ==
    /\ Carries(step)
    /\ mapping = "free"
    /\ RootOpens
    /\ To(step)
    /\ mapping' = "step"
    /\ UNCHANGED boardVars

Installs ==
    /\ work = "overlay"
    /\ IF "overlay" \notin fw.has
          THEN fw' = [fw EXCEPT !.has = @ \cup {"overlay"}] /\ UNCHANGED <<rt, work, mapping>>
          ELSE IF "overlay" \notin rt.has
                  THEN rt' = [rt EXCEPT !.has = @ \cup {"overlay"}] /\ UNCHANGED <<fw, work, mapping>>
                  ELSE Over /\ UNCHANGED <<fw, rt>>
    /\ UNCHANGED <<dirty, records, tries, eeprom, flash, chosen>>

(* The first part of the software the root filesystem lacks; the packages  *)
(* are unpacked and then configured, and either may be what was cut off.   *)
Missing(i) == SoftwareOrder[i] \notin rt.has /\ \A j \in 1 .. (i - 1) : SoftwareOrder[j] \in rt.has

InstallsSoftware ==
    /\ work = "software"
    /\ \/ \E i \in DOMAIN SoftwareOrder :
            Missing(i) /\ rt' = [rt EXCEPT !.has = @ \cup {SoftwareOrder[i]}] /\ UNCHANGED <<work, mapping>>
       \/ Software \subseteq rt.has /\ Over /\ UNCHANGED rt
    /\ UNCHANGED <<fw, dirty, records, tries, eeprom, flash, chosen>>

SignsIn ==
    /\ work = "tailscale"
    /\ rt' = [rt EXCEPT !.has = @ \cup {"signed"}]
    /\ Over
    /\ UNCHANGED <<fw, dirty, records, tries, eeprom, flash, chosen>>

(***************************************************************************)
(* The step encryption.                                                    *)
(***************************************************************************)
(* What the volume lacks of what the step leaves.                          *)
Encrypted == Volume /\ ~rt.empty /\ rt.tpm /\ rt.own /\ ~rt.reencrypting

(* A volume the empty passphrase does not open is left alone: the step     *)
(* passes where it is set up already and fails otherwise.  One it opens    *)
(* must be one whose system can be made to unlock from the TPM, which is   *)
(* looked at in the mounted root.                                          *)
EncryptionBegins ==
    /\ Carries("encryption")
    /\ mapping = "free"
    /\ Volume /\ rt.empty
    /\ To("rotate")
    /\ UNCHANGED <<boardVars, mapping>>

Rotates ==
    /\ work = "rotate"
    /\ \/ /\ rt.reencrypting
          /\ rt' = [rt EXCEPT !.reencrypting = FALSE, !.own = TRUE] /\ UNCHANGED work
       \/ /\ ~rt.reencrypting /\ ~rt.own
          /\ rt' = [rt EXCEPT !.reencrypting = TRUE] /\ UNCHANGED work
       \/ /\ rt.own /\ ~rt.reencrypting /\ ~rt.uuid
          /\ rt' = [rt EXCEPT !.uuid = TRUE] /\ UNCHANGED work
       \/ rt.own /\ ~rt.reencrypting /\ rt.uuid /\ To("clear") /\ UNCHANGED rt
    /\ UNCHANGED <<fw, dirty, records, tries, eeprom, flash, mapping, chosen>>

(* The keyslots an earlier try left go, one at a time.                     *)
ClearsSlots ==
    /\ work = "clear"
    /\ \/ rt.tpm /\ rt' = [rt EXCEPT !.tpm = FALSE] /\ UNCHANGED work
       \/ \E p \in rt.phrases : rt' = [rt EXCEPT !.phrases = @ \ {p}] /\ UNCHANGED work
       \/ ~rt.tpm /\ rt.phrases = {} /\ To("add") /\ UNCHANGED rt
    /\ UNCHANGED <<fw, dirty, records, tries, eeprom, flash, mapping, chosen>>

AddsPassphrase ==
    /\ work = "add"
    /\ tries < MaxTries
    /\ tries' = tries + 1
    /\ rt' = [rt EXCEPT !.phrases = @ \cup {tries + 1}]
    /\ To("enrol")
    /\ UNCHANGED <<fw, dirty, records, eeprom, flash, mapping, chosen>>

EnrolsTpm ==
    /\ work = "enrol"
    /\ rt' = [rt EXCEPT !.tpm = TRUE]
    /\ To("rewire")
    /\ UNCHANGED <<fw, dirty, records, tries, eeprom, flash, mapping, chosen>>

(* In the mounted root: the crypttab and what embeds it, then the          *)
(* initramfs of the current boot slot.                                     *)
Rewires ==
    /\ work = "rewire"
    /\ mapping # "look"
    /\ IF "crypttab" \notin rt.has
          THEN /\ rt' = [rt EXCEPT !.has = @ \cup {"crypttab"}]
               /\ mapping' = "step" /\ UNCHANGED <<fw, work>>
          ELSE /\ fw' = [fw EXCEPT !.has = @ \cup {"initrd"}]
               /\ mapping' = "free" /\ To("record") /\ UNCHANGED rt
    /\ UNCHANGED <<dirty, records, tries, eeprom, flash, chosen>>

(* Mutant: the record is left until the step has done the rest.            *)
RecordsLast ==
    /\ work = "record"
    /\ tries \in rt.phrases /\ rt.tpm
    /\ To("replace")
    /\ UNCHANGED <<boardVars, mapping>>

(* Both keys are tried, and the record is appended and flushed.            *)
SavesRecord ==
    /\ work = "record"
    /\ tries \in rt.phrases /\ rt.tpm
    /\ records' = records \cup {tries}
    /\ To("replace")
    /\ UNCHANGED <<fw, rt, dirty, tries, eeprom, flash, mapping, chosen>>

RemovesEmpty ==
    /\ work = "replace"
    /\ rt' = [rt EXCEPT !.empty = FALSE]
    /\ Over
    /\ UNCHANGED <<fw, dirty, records, tries, eeprom, flash, chosen>>

(***************************************************************************)
(* The steps eeprom and bootloader, whose writes are whole and read back;  *)
(* hardware and label change nothing.                                      *)
(***************************************************************************)
(* A person is asked before a HAT that is not this one is written over.    *)
EepromBegins ==
    /\ Carries("eeprom")
    /\ eeprom # "image"
    /\ \E confirmed \in BOOLEAN : To(IF eeprom = "other" /\ ~confirmed THEN "none" ELSE "eeprom")
    /\ UNCHANGED <<boardVars, mapping>>

(* The pages are written in order, and the whole again until they read     *)
(* back: what is cut off leaves a HAT it can no longer tell.               *)
WritesEeprom ==
    /\ work = "eeprom"
    /\ \/ eeprom' = "part" /\ UNCHANGED <<work, mapping>>
       \/ eeprom = "part" /\ eeprom' = "image" /\ Over
    /\ UNCHANGED <<fw, rt, dirty, records, tries, flash, chosen>>

BootloaderBegins ==
    /\ Carries("bootloader")
    /\ flash # "set"
    /\ To("bootloader")
    /\ UNCHANGED <<boardVars, mapping>>

WritesFlash ==
    /\ work = "bootloader"
    /\ \/ flash' = "part" /\ UNCHANGED <<work, mapping>>
       \/ flash = "part" /\ flash' = "set" /\ Over
    /\ UNCHANGED <<fw, rt, dirty, records, tries, eeprom, chosen>>

(***************************************************************************)
(* What else happens.                                                      *)
(***************************************************************************)
(* A call the step makes fails, or a person does not do what it waits for. *)
(* The disk is closed, and so flushed, before the step has failed.         *)
StepFails ==
    /\ work # "none"
    /\ dirty = {}
    /\ Over
    /\ UNCHANGED boardVars

(* The power is cut: what had not reached the disk never does.             *)
PowerCut ==
    /\ work # "none" \/ mapping # "free"
    /\ dirty' = {}
    /\ work' = "none"
    /\ mapping' = "free"
    /\ UNCHANGED <<fw, rt, records, tries, eeprom, flash, chosen>>

(* The done-state of a step in the root volume is read.                    *)
LooksAtRoot ==
    /\ \/ mapping = "free" /\ RootOpens /\ mapping' = "look"
       \/ mapping = "look" /\ mapping' = "free"
    /\ UNCHANGED <<boardVars, work>>

StepsNext ==
    \/ DiskBegins \/ RemovesMarker \/ WritesDisk \/ ReachesDisk \/ Verifies \/ Marks
    \/ \E step \in {"overlay", "software", "tailscale"} : OpensRoot(step)
    \/ Installs \/ InstallsSoftware \/ SignsIn
    \/ EncryptionBegins \/ Rotates \/ ClearsSlots \/ AddsPassphrase \/ EnrolsTpm \/ Rewires
    \/ SavesRecord \/ RemovesEmpty
    \/ EepromBegins \/ WritesEeprom \/ BootloaderBegins \/ WritesFlash
    \/ StepFails \/ PowerCut \/ LooksAtRoot

StepsSpec == StepsInit /\ [][StepsNext]_stepVars

(* A step reported done is done, however it was cut off before: the disk   *)
(* holds the whole of the payload, and a system reported encrypted unlocks *)
(* from the TPM at boot and has its recovery passphrase in the records     *)
(* (run.rs, undone; disk.rs, inspect; encryption.rs, lacks, which looks at *)
(* neither the initramfs nor the records).                                 *)
DiskDone == fw.marker = "medium"

DoneIsTrue ==
    DiskDone => /\ Verified
                /\ Encrypted => /\ "initrd" \in fw.has /\ "crypttab" \in rt.has
                                /\ rt.phrases \cap records # {}

(* A volume that the empty passphrase no longer opens is never lost: the   *)
(* TPM opens it, and so does a passphrase the medium's records hold        *)
(* (encryption.rs, carry_out: the order of its writes).                    *)
NeverLockedOut == (Volume /\ ~rt.empty) => rt.tpm /\ rt.phrases \cap records # {}

(* Cut off at any write and begun again, the steps leave a board that is   *)
(* what it is reported to be and that its holder can open.                 *)
BoardIsSafe == DoneIsTrue /\ NeverLockedOut
=============================================================================
