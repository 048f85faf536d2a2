-------------------------- MODULE SetupGeneration --------------------------
(* dns-setup: the init container that copies the controller's script into    *)
(* the Pod and prepares the state directory.  It runs as root without the    *)
(* capability to overlook file modes, is started over when it is killed, and *)
(* runs again, over what the last run left, when the sandbox is recreated.   *)
EXTENDS Integers

CONSTANTS
    Versions,   \* generations of the ConfigMap
    None,
    MaxKills    \* bound: kills and recreated sandboxes

ASSUME SetupAssumption ==
    /\ None \notin Versions
    /\ MaxKills \in Nat

VARIABLES
    configmap,  \* the generation the source volume shows now
    step,       \* the command that is next, or "running"
    denied,     \* a command failed for its rights (history)
    codeMode,   \* of /opt/gpubox-dns
    new,        \* .dns-controller.py.new
    script,     \* dns-controller.py
    stateDir,   \* owner and mode of /var/run/gpubox-dns
    kills,
    first       \* the generation this Pod ran first (history)

volumes   == <<codeMode, new, script, stateDir>>
setupVars == <<configmap, step, denied, volumes, kills, first>>

\* A copy is whole or was cut off; it is created with the source's mode, 0444.
File == [version : Versions, whole : BOOLEAN]
NoFile == [version |-> None, whole |-> FALSE]

Commands == {"unlock", "discard", "create", "fill", "readonly", "rename",
             "seal", "take", "mode", "give"}

\* Two new emptyDir volumes, owned by root and open to all.
SetupInit ==
    /\ configmap \in Versions
    /\ step = "unlock" /\ denied = FALSE
    /\ codeMode = "0777"
    /\ new = NoFile /\ script = NoFile
    /\ stateDir = [owner |-> "root", mode |-> "0777"]
    /\ kills = 0 /\ first = None

\* Root owns the directory of the script, but its mode binds root too.
MayWrite == codeMode # "0555"

\* Command c ends well, or, when it may not do what it wants, the script ends
\* and the kubelet runs the container again.
Command(c, allowed, then) ==
    /\ step = c
    /\ step' = IF allowed THEN then ELSE "unlock"
    /\ denied' = (denied \/ ~allowed)
    /\ UNCHANGED <<configmap, kills>>

\* chmod 0755 /opt/gpubox-dns
Unlock ==
    /\ Command("unlock", TRUE, "discard")
    /\ codeMode' = "0755"
    /\ UNCHANGED <<new, script, stateDir, first>>

\* Mutant of Removed: what a killed run left is not removed.
RemovedNot == new

Removed == NoFile

\* rm -f
Discard ==
    /\ Command("discard", MayWrite \/ new = NoFile, "create")
    /\ new' = IF MayWrite THEN Removed ELSE new
    /\ UNCHANGED <<codeMode, script, stateDir, first>>

\* Mutant of Copied: the source is not there.
CopiedNothing == NoFile

Copied == [version |-> configmap, whole |-> FALSE]

\* cp opens the copy for writing: an old one is read-only.
Create ==
    /\ Command("create", MayWrite /\ new = NoFile, "fill")
    /\ new' = IF MayWrite /\ new = NoFile THEN Copied ELSE new
    /\ UNCHANGED <<codeMode, script, stateDir, first>>

\* ... of the file it has opened, whatever the volume shows by now.
Fill ==
    /\ Command("fill", TRUE, "readonly")
    /\ new' = [new EXCEPT !.whole = TRUE]
    /\ UNCHANGED <<codeMode, script, stateDir, first>>

ReadOnly ==
    /\ Command("readonly", TRUE, "rename")
    /\ UNCHANGED <<volumes, first>>

\* mv -f
Rename ==
    /\ Command("rename", MayWrite, "seal")
    /\ script' = IF MayWrite THEN new ELSE script
    /\ new' = IF MayWrite THEN NoFile ELSE new
    /\ UNCHANGED <<codeMode, stateDir, first>>

\* Mutant of Sealed: the directory stays writable.
SealedNot == codeMode

Sealed == "0555"

\* chmod 0555 /opt/gpubox-dns
Seal ==
    /\ Command("seal", TRUE, "take")
    /\ codeMode' = Sealed
    /\ UNCHANGED <<new, script, stateDir, first>>

\* Mutant of Taker: the directory stays with its owner.
TakerNobody == stateDir.owner

Taker == "root"

\* chown 0:0 of the state directory
Take ==
    /\ Command("take", TRUE, "mode")
    /\ stateDir' = [stateDir EXCEPT !.owner = Taker]
    /\ UNCHANGED <<codeMode, new, script, first>>

\* chmod 0750 of it: only its owner may.
Mode ==
    /\ Command("mode", stateDir.owner = "root", "give")
    /\ stateDir' = IF stateDir.owner = "root"
                   THEN [stateDir EXCEPT !.mode = "0750"] ELSE stateDir
    /\ UNCHANGED <<codeMode, new, script, first>>

\* chown 65532:65532; then the controller starts, from the script as it is.
Give ==
    /\ Command("give", TRUE, "running")
    /\ stateDir' = [stateDir EXCEPT !.owner = "dns"]
    /\ first' = IF first = None THEN script.version ELSE first
    /\ UNCHANGED <<codeMode, new, script>>

-----------------------------------------------------------------------------
(* The environment *)

\* helm upgrade: the kubelet updates the volume by and by.
Upgrade ==
    /\ configmap' \in Versions \ {configmap}
    /\ UNCHANGED <<step, denied, volumes, kills, first>>

SetupRestart ==
    /\ kills < MaxKills
    /\ kills' = kills + 1
    /\ step' = "unlock"
    /\ UNCHANGED <<configmap, denied, codeMode, new, stateDir, first>>

\* dns-setup is killed, or the sandbox is recreated under running containers;
\* the volumes live as long as the Pod.
SetupAgain == SetupRestart /\ UNCHANGED script

\* The node loses power: nothing has synced the script to disk.
SetupPowerLoss == script # NoFile /\ SetupRestart /\ script' = [script EXCEPT !.whole = FALSE]

Setup == Unlock \/ Discard \/ Create \/ Fill \/ ReadOnly \/ Rename \/ Seal
         \/ Take \/ Mode \/ Give

SetupNext == Setup \/ Upgrade \/ SetupAgain \/ SetupPowerLoss

\* The kubelet starts the container and the container runs.
SetupSpec == SetupInit /\ [][SetupNext]_setupVars /\ WF_setupVars(Setup)

-----------------------------------------------------------------------------
(* Properties *)

SetupTypeOK ==
    /\ configmap \in Versions
    /\ step \in Commands \union {"running"} /\ denied \in BOOLEAN
    /\ codeMode \in {"0777", "0755", "0555"}
    /\ new \in File \union {NoFile} /\ script \in File \union {NoFile}
    /\ stateDir \in [owner : {"root", "dns"}, mode : {"0777", "0750"}]
    /\ kills \in 0 .. MaxKills
    /\ first \in Versions \union {None}

\* Wherever the last run was killed, and whatever state it or the controller's
\* user left the volumes in, no command of the next run fails for its rights.
NothingIsDenied == ~denied

\* The controller and its probes never run half a script, and find the script
\* sealed and a state directory that is theirs and nobody else's.
RunsWhole ==
    step = "running" => /\ script \in File /\ script.whole
                        /\ codeMode = "0555"
                        /\ stateDir = [owner |-> "dns", mode |-> "0750"]

\* However often setup was killed, the controller comes up.
ComesUp == []<>(step = "running")

\* What the chart's README says: the controller of an existing Pod stays the
\* generation that the Pod was initialised with.
OneGeneration == step = "running" => script.version = first
=============================================================================
