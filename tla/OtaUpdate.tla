----------------------------- MODULE OtaUpdate -----------------------------
(***************************************************************************)
(* The firmware update: ota_flash_task copies a file of the SD card, block *)
(* by block, to the application partition that is next in turn, has it     *)
(* verified, makes it the boot partition and restarts.  Reads and writes   *)
(* may fail, and the power may go at any moment: a cut cable, or the power *)
(* manager's own deep sleep, which does not ask whether a flash is under   *)
(* way.                                                                    *)
(*                                                                         *)
(* The ESP-IDF calls (next partition, begin, write, end, set boot) are     *)
(* external: they are modelled by their documented contract.               *)
(***************************************************************************)
EXTENDS Integers

CONSTANTS
  OtaCount,     \* update partitions; partition 0 is the factory partition
  Files,        \* firmware files of the SD card root
  Firmware,     \* the firmware the device was flashed with at the factory
  Blocks,       \* 4 KB blocks of an image
  HasMagic(_),  \* the file begins with ESP_IMAGE_HEADER_MAGIC
  IsSound(_),   \* all of the file is a valid image
  NoFile        \* no file, or an erased partition

ASSUME OtaAssumption ==
  /\ OtaCount \in Nat /\ OtaCount >= 2
  /\ Blocks \in Nat \ {0}
  /\ NoFile \notin Files \cup {Firmware}
  /\ \A f \in Files \cup {Firmware} : HasMagic(f) \in BOOLEAN /\ IsSound(f) \in BOOLEAN
  /\ IsSound(Firmware)

VARIABLES
  flash,    \* what each partition holds
  boot,     \* the partition the bootloader starts (otadata)
  running,  \* the partition of the running firmware
  flasher,  \* where ota_flash_task is; "none" when there is no such task
  path,     \* s_ota_args.path: the file it flashes
  copied    \* blocks written so far

otaVars == <<flash, boot, running, flasher, path, copied>>
persistent == <<flash, boot, running>>

Partitions == 0 .. OtaCount

Complete(p) == IsSound(flash[p].image) /\ flash[p].blocks = Blocks

(* esp_ota_get_next_update_partition: round robin, never the running one. *)
NextPartition == IF running \in {0, OtaCount} THEN 1 ELSE running + 1

OtaInit ==
  /\ flash = [p \in Partitions |->
                IF p = 0 THEN [image |-> Firmware, blocks |-> Blocks]
                         ELSE [image |-> NoFile, blocks |-> 0]]
  /\ boot = 0
  /\ running = 0
  /\ flasher = "none"
  /\ path = NoFile
  /\ copied = 0

-----------------------------------------------------------------------------
(* The steps of ota_update_flash.  Each names where the task is.           *)

(* ota_flash_cb fills s_ota_args and creates the task. *)
StartFlash(file) ==
  /\ flasher = "none"
  /\ path' = file
  /\ flasher' = "open"
  /\ UNCHANGED <<persistent, copied>>

(* ota_update_flash returns an error. *)
Fail == flasher' = "failed"

(* A file that cannot be opened or read, or without the magic byte, is     *)
(* refused before the flash is touched.                                    *)
OpenFile ==
  /\ flasher = "open"
  /\ \/ flasher' = "begin" /\ HasMagic(path)
     \/ Fail
  /\ UNCHANGED <<persistent, path, copied>>

SwitchFirst ==
  /\ flasher = "begin"
  /\ \/ /\ flash' = [flash EXCEPT ![NextPartition] = [image |-> NoFile, blocks |-> 0]]
        /\ boot' = IF Complete(NextPartition) THEN NextPartition ELSE boot
        /\ flasher' = "write"
        /\ copied' = 0
     \/ Fail /\ UNCHANGED <<flash, boot, copied>>
  /\ UNCHANGED <<running, path>>

(* esp_ota_begin erases the partition; it fails for want of memory, before *)
(* that.                                                                   *)
BeginFlash ==
  /\ flasher = "begin"
  /\ \/ /\ flash' = [flash EXCEPT ![NextPartition] = [image |-> NoFile, blocks |-> 0]]
        /\ flasher' = "write"
        /\ copied' = 0
     \/ Fail /\ UNCHANGED <<flash, copied>>
  /\ UNCHANGED <<boot, running, path>>

(* One round of the copying loop.  A write that fails aborts the update. *)
CopyBlock ==
  /\ flasher = "write"
  /\ copied < Blocks
  /\ \/ /\ flash' = [flash EXCEPT ![NextPartition] =
                       [image |-> path, blocks |-> copied + 1]]
        /\ copied' = copied + 1
        /\ UNCHANGED flasher
     \/ Fail /\ UNCHANGED <<flash, copied>>
  /\ UNCHANGED <<boot, running, path>>

(* fread returns 0: at the end of the file, or because the card failed,    *)
(* which the loop does not tell apart.                                     *)
EndOfFile ==
  /\ flasher = "write"
  /\ flasher' = "verify"
  /\ UNCHANGED <<persistent, path, copied>>

(* esp_ota_end reads the partition back and verifies the image. *)
VerifyImage ==
  /\ flasher = "verify"
  /\ IF Complete(NextPartition) THEN flasher' = "switch"
                                ELSE Fail
  /\ UNCHANGED <<persistent, path, copied>>

(* esp_ota_set_boot_partition verifies again and writes otadata, or fails. *)
SetBoot ==
  /\ flasher = "switch"
  /\ \/ /\ Complete(NextPartition)
        /\ boot' = NextPartition
        /\ flasher' = "restart"
     \/ Fail /\ UNCHANGED boot
  /\ UNCHANGED <<flash, running, path, copied>>

(* What is in RAM is gone; the bootloader starts the boot partition. *)
Reboot ==
  /\ running' = boot
  /\ flasher' = "none"
  /\ path' = NoFile
  /\ copied' = 0
  /\ UNCHANGED <<flash, boot>>

(* 100 %, half a second, esp_restart. *)
Restart == flasher = "restart" /\ Reboot

FlashStep ==
  \/ OpenFile \/ BeginFlash \/ CopyBlock \/ EndOfFile \/ VerifyImage \/ SetBoot

(* The task deletes itself after it has asked for the failure to be shown. *)
EndFlashTask ==
  /\ flasher = "failed"
  /\ flasher' = "none"
  /\ path' = NoFile
  /\ copied' = 0
  /\ UNCHANGED persistent

OtaNext ==
  \/ \E file \in Files : StartFlash(file)
  \/ FlashStep
  \/ EndFlashTask
  \/ Reboot

OtaSpec == OtaInit /\ [][OtaNext]_otaVars

-----------------------------------------------------------------------------
(* Properties.                                                             *)

Content == [image : Files \cup {Firmware, NoFile}, blocks : 0 .. Blocks]

Places == {"none", "open", "begin", "write", "verify", "switch", "restart", "failed"}

OtaTypeOK ==
  /\ flash \in [Partitions -> Content]
  /\ boot \in Partitions /\ running \in Partitions
  /\ flasher \in Places
  /\ path \in Files \cup {NoFile}
  /\ copied \in 0 .. Blocks

(* Whatever fails and whenever the power goes, the bootloader is left with *)
(* a partition that holds a complete, valid image, and so is the firmware  *)
(* that is running: an update never bricks the device.                     *)
BootSafe == Complete(boot) /\ Complete(running)

=============================================================================
