------------------------------ MODULE OtaBoot ------------------------------
(***************************************************************************)
(* The boot loader (projects/boot_k210: ota_main.c, bootloader.c): check   *)
(* the download partition, install what it holds, verify the application   *)
(* and start it, with power cuts between and inside the writes.            *)
(*                                                                         *)
(* rt_ota is a binary library and external: its calls are modelled by what *)
(* ota_main.c and rt_ota.h say of them.  A firmware is a header and a      *)
(* number of sectors; the header is saved after the body.  The erase that  *)
(* rt_ota_upgrade begins with does nothing, because erase of               *)
(* drv_qspiflash.c does nothing outside a download: until the new header   *)
(* is saved the partition keeps the old one.  A power cut damages at most  *)
(* the sector being written (QspiFlash, OutsideIntact).                    *)
(***************************************************************************)
EXTENDS Naturals

CONSTANTS Versions,   \* firmware images
          Junk,       \* what no image contains
          Sectors,    \* sectors of a firmware body
          MaxCuts,    \* bound: power cuts
          MaxLoads    \* bound: downloads

ASSUME OtaBootAssumption ==
    /\ Junk \notin Versions /\ Sectors \in Nat \ {0}
    /\ MaxCuts \in Nat /\ MaxLoads \in Nat

Body == 1..Sectors
Parts == {"bl", "app"}
Contents == Versions \union {Junk}

VARIABLES
    part,        \* part[p]: header and body of a partition
    download,    \* the download partition: header, intact body, destination, encryption
    stage,       \* where the boot loader is
    copied,      \* sectors rt_ota_upgrade has copied
    auto,        \* the application was started by load_application
    installing,  \* history: the version an unfinished upgrade was installing
    cuts, loads

bounds == <<cuts, loads>>
otaVars == <<part, download, stage, copied, auto, installing, bounds>>

Image(v) == [hdr |-> v, body |-> [s \in Body |-> v]]
NoDownload == [hdr |-> Junk, whole |-> FALSE, dest |-> "app", crypt |-> FALSE]
Downloads == [hdr : Versions, whole : BOOLEAN, dest : Parts, crypt : BOOLEAN] \union {NoDownload}

\* A board from the factory: boot loader and application of one version, or
\* no application yet.
OtaInit ==
    /\ \E v \in Versions, w \in Contents : part = [p \in Parts |-> Image(IF p = "bl" THEN v ELSE w)]
    /\ download = NoDownload /\ stage = "off" /\ copied = 0 /\ auto = FALSE
    /\ installing = Junk /\ cuts = 0 /\ loads = 0

----------------------------------------------------------------------------
(* rt_ota *)

\* rt_ota_part_fw_verify: header and body belong together.
Verified(f) == f.hdr # Junk /\ \A s \in Body : f.body[s] = f.hdr
DlVerified == download.hdr # Junk /\ download.whole

\* rt_ota_check_upgrade: -1 without a header in the download partition; 1 if
\* the destination has no header or one of another version.
CheckUpgrade == IF download.hdr = Junk THEN "error"
                ELSE IF part[download.dest].hdr # download.hdr THEN "upgrade" ELSE "none"

----------------------------------------------------------------------------
(* load_application, ota_main *)

Goto(l) == stage' = l

\* A board whose boot loader is damaged does not start.
PowerOn ==
    /\ stage = "off"
    /\ Goto(IF \A s \in Body : part["bl"].body[s] = part["bl"].body[1] /\ part["bl"].body[s] # Junk
            THEN "init" ELSE "dead")
    /\ UNCHANGED <<part, download, copied, auto, installing, bounds>>

\* Fault: only an application that verifies is upgraded.
CheckVerified ==
    /\ stage = "init"
    /\ Goto(IF CheckUpgrade = "upgrade" /\ download.crypt /\ Verified(part["app"])
            THEN "verify" ELSE "app_check")
    /\ UNCHANGED <<part, download, copied, auto, installing, bounds>>

\* rt_ota_init, rt_ota_check_upgrade and the look at the encryption; the
\* destination is read and not looked at.
Check ==
    /\ stage = "init"
    /\ Goto(IF CheckUpgrade = "upgrade" /\ download.crypt THEN "verify" ELSE "app_check")
    /\ UNCHANGED <<part, download, copied, auto, installing, bounds>>

\* rt_ota_init fails, or rt_ota_check_upgrade with an unknown result: ota_main
\* returns -1 without a look at the application.
OtaError ==
    /\ stage = "init"
    /\ Goto("error")
    /\ UNCHANGED <<part, download, copied, auto, installing, bounds>>

VerifyDownload ==
    /\ stage = "verify"
    /\ IF DlVerified
         THEN Goto("upgrade") /\ copied' = 0 /\ installing' = download.hdr
         ELSE Goto("app_check") /\ UNCHANGED <<copied, installing>>
    /\ UNCHANGED <<part, download, auto, bounds>>

\* rt_ota_upgrade, sector by sector; what a body that is not whole decrypts
\* to is junk.
CopySector ==
    /\ stage = "upgrade" /\ copied < Sectors
    /\ part' = [part EXCEPT ![download.dest].body[copied + 1] = IF download.whole THEN download.hdr ELSE Junk]
    /\ copied' = copied + 1
    /\ UNCHANGED <<download, stage, auto, installing, bounds>>

\* Fault: the header is saved before the body is copied.
SaveHeaderFirst ==
    /\ stage = "upgrade"
    /\ part' = [part EXCEPT ![download.dest].hdr = download.hdr]
    /\ IF copied = Sectors THEN Goto("app_check") /\ installing' = Junk
       ELSE UNCHANGED <<stage, installing>>
    /\ UNCHANGED <<download, copied, auto, bounds>>

SaveHeader ==
    /\ stage = "upgrade" /\ copied = Sectors
    /\ part' = [part EXCEPT ![download.dest].hdr = download.hdr]
    /\ Goto("app_check") /\ installing' = Junk
    /\ UNCHANGED <<download, copied, auto, bounds>>

\* rt_ota_upgrade returns an error at any point: on to the check.
UpgradeFails ==
    /\ stage = "upgrade"
    /\ Goto("failed")
    /\ UNCHANGED <<part, download, copied, auto, installing, bounds>>

\* Fault: an upgrade that went through counts as verified.
AppCheckHeader ==
    /\ stage \in {"app_check", "failed"}
    /\ Goto(IF part["app"].hdr # Junk THEN "run" ELSE "shell")
    /\ UNCHANGED <<part, download, copied, auto, installing, bounds>>

\* _app_check: without an application that verifies, the shell remains.
AppCheck ==
    /\ stage \in {"app_check", "failed"}
    /\ Goto(IF Verified(part["app"]) THEN "run" ELSE "shell")
    /\ UNCHANGED <<part, download, copied, auto, installing, bounds>>

\* run_application; bl_delay is 0, nobody can stop it.
RunApplication ==
    /\ stage = "run"
    /\ Goto("running") /\ auto' = TRUE
    /\ UNCHANGED <<part, download, copied, installing, bounds>>

\* The shell's run_application checks nothing but the header.
MshRunApplication ==
    /\ stage \in {"shell", "error"} /\ part["app"].hdr # Junk
    /\ Goto("running") /\ auto' = FALSE
    /\ UNCHANGED <<part, download, copied, installing, bounds>>

\* A download from the shell or the application, whole or not.
Load(d) ==
    /\ stage \in {"shell", "error", "running"} /\ loads < MaxLoads
    /\ download' = d /\ loads' = loads + 1
    /\ installing' = Junk
    /\ UNCHANGED <<part, stage, copied, auto, cuts>>

Reboot ==
    /\ stage \in {"shell", "error", "running"}
    /\ Goto("off") /\ auto' = FALSE
    /\ UNCHANGED <<part, download, copied, installing, bounds>>

\* The supply fails; a sector or a header that is being written is junk, a
\* download that is being written too.
PowerCut ==
    /\ stage # "off" /\ cuts < MaxCuts
    /\ Goto("off") /\ cuts' = cuts + 1 /\ auto' = FALSE
    /\ \/ UNCHANGED <<part, download, installing>>
       \/ /\ stage = "upgrade" /\ UNCHANGED <<download, installing>>
          /\ part' = [part EXCEPT ![download.dest] =
                 IF copied < Sectors THEN [@ EXCEPT !.body[copied + 1] = Junk]
                 ELSE [@ EXCEPT !.hdr = Junk]]
       \/ /\ stage \in {"shell", "error", "running"} /\ UNCHANGED part
          /\ download' = NoDownload /\ installing' = Junk
    /\ UNCHANGED <<copied, loads>>

----------------------------------------------------------------------------
Boot ==
    \/ PowerOn \/ Check \/ VerifyDownload \/ CopySector \/ SaveHeader
    \/ AppCheck \/ RunApplication

OtaNext ==
    \/ Boot \/ OtaError \/ UpgradeFails \/ MshRunApplication \/ Reboot \/ PowerCut
    \/ \E d \in Downloads : Load(d)

OtaSpec == OtaInit /\ [][OtaNext]_otaVars

\* The boot loader runs by itself; nobody has to type anything.
OtaFairSpec == OtaSpec /\ WF_otaVars(Boot)

----------------------------------------------------------------------------
(* Properties *)

TypeOK ==
    /\ part \in [Parts -> [hdr : Contents, body : [Body -> Contents]]]
    /\ download \in Downloads
    /\ stage \in {"off", "init", "verify", "upgrade", "failed", "app_check", "run", "running", "shell", "error", "dead"}
    /\ copied \in 0..Sectors /\ auto \in BOOLEAN /\ installing \in Contents
    /\ cuts \in 0..MaxCuts /\ loads \in 0..MaxLoads

(* What load_application starts is the whole firmware of one version, after *)
(* whatever sequence of upgrades, failures and power cuts.                  *)
AutobootWhole == stage = "running" /\ auto => Verified(part["app"])

(* A partition is only ever changed to install an encrypted download that   *)
(* verifies, and only the partition its header names.                       *)
OnlyGoodDownloads ==
    [][\A p \in Parts : part'[p] # part[p] => DlVerified /\ download.crypt /\ download.dest = p]_otaVars

(* An image whose upgrade was cut off or failed is installed at the next    *)
(* boot: until its header is saved, or another image is downloaded, the     *)
(* check asks for the upgrade again.                                        *)
Resumable ==
    installing # Junk => /\ download.hdr = installing /\ DlVerified /\ download.crypt
                         /\ CheckUpgrade = "upgrade"

(* An upgrade of the application that was cut off goes on by itself at the  *)
(* next boot until it is complete, unless rt_ota reports an error.          *)
Completes ==
    (stage = "off" /\ installing # Junk /\ download.dest = "app")
        ~> (installing = Junk \/ stage \in {"failed", "error"})
=============================================================================
