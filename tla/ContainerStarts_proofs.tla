----------------------- MODULE ContainerStarts_proofs -----------------------
(* Proofs about the containers that are started again over what their last   *)
(* start left, for any number of ConfigMap generations, kills, power losses  *)
(* and edits, and any list of key types.                                     *)
EXTENDS MCContainerStarts, FiniteSetTheorems, TLAPS

-----------------------------------------------------------------------------
(* SetupGeneration: each command finds what the ones before it have done,    *)
(* for a run that is cut off begins again with the first.                    *)

Unlocked == {"discard", "create", "fill", "readonly", "rename", "seal"}
Sealing  == {"take", "mode", "give", "running"}

\* What the directory of the script holds when a command is next.
ScriptReady ==
    /\ step \in Unlocked => codeMode = "0755"
    /\ step = "create" => new = NoFile
    /\ step \in {"fill", "readonly", "rename"} => new \in File
    /\ step \in {"readonly", "rename"} => new.whole
    /\ step \in Sealing \union {"seal"} => script \in File /\ script.whole
    /\ step \in Sealing => codeMode = "0555"

\* Who has the state directory.
StateReady ==
    /\ step \in {"mode", "give"} => stateDir.owner = "root"
    /\ step = "give" => stateDir.mode = "0750"
    /\ step = "running" => stateDir = [owner |-> "dns", mode |-> "0750"]

SetupInv ==
    /\ SetupTypeOK
    /\ NothingIsDenied
    /\ ScriptReady
    /\ StateReady

LEMMA FileType ==
  /\ \A v \in Versions, w \in BOOLEAN : [version |-> v, whole |-> w] \in File
  /\ \A f \in File : /\ f.version \in Versions /\ f.whole \in BOOLEAN
                     /\ \A w \in BOOLEAN : [f EXCEPT !.whole = w] \in File
                     /\ [f EXCEPT !.whole = TRUE].whole
  /\ NoFile \notin File
  BY SetupAssumption DEF File, NoFile

LEMMA CommandsKeep ==
  ASSUME SetupInv, Unlock \/ Discard \/ Create \/ Fill \/ ReadOnly \/ Rename \/ Seal
  PROVE  SetupInv'
  <1> USE DEF Command, MayWrite, volumes
  <1>0. SetupTypeOK /\ NothingIsDenied /\ ScriptReady /\ StateReady
    BY DEF SetupInv
  <1>1. CASE Unlock
    <2>1. SetupTypeOK' /\ NothingIsDenied'
      BY <1>0, <1>1 DEF Unlock, SetupTypeOK, NothingIsDenied, Commands
    <2>2. ScriptReady' /\ StateReady'
      BY <1>0, <1>1 DEF Unlock, ScriptReady, StateReady, Unlocked, Sealing
    <2> QED BY <2>1, <2>2 DEF SetupInv
  <1>2. CASE Discard
    <2>1. codeMode = "0755"
      BY <1>0, <1>2 DEF Discard, ScriptReady, Unlocked
    <2>2. new' = NoFile /\ step = "discard" /\ step' = "create"
      BY <1>2, <2>1 DEF Discard, Removed
    <2>3. SetupTypeOK' /\ NothingIsDenied'
      BY <1>0, <1>2, <2>1, <2>2 DEF Discard, SetupTypeOK, NothingIsDenied, Commands
    <2>4. ScriptReady' /\ StateReady'
      BY <1>0, <1>2, <2>1, <2>2 DEF Discard, ScriptReady, StateReady, Unlocked, Sealing
    <2> QED BY <2>3, <2>4 DEF SetupInv
  <1>3. CASE Create
    <2>1. codeMode = "0755" /\ new = NoFile
      BY <1>0, <1>3 DEF Create, ScriptReady, Unlocked
    <2>2. new' \in File /\ step = "create" /\ step' = "fill"
      BY <1>0, <1>3, <2>1, FileType DEF Create, Copied, SetupTypeOK
    <2>3. SetupTypeOK' /\ NothingIsDenied'
      BY <1>0, <1>3, <2>1, <2>2 DEF Create, SetupTypeOK, NothingIsDenied, Commands
    <2>4. ScriptReady' /\ StateReady'
      BY <1>0, <1>3, <2>1, <2>2 DEF Create, ScriptReady, StateReady, Unlocked, Sealing
    <2> QED BY <2>3, <2>4 DEF SetupInv
  <1>4. CASE Fill
    <2>1. codeMode = "0755" /\ new \in File
      BY <1>0, <1>4 DEF Fill, ScriptReady, Unlocked
    <2>2. new' \in File /\ new'.whole /\ step = "fill" /\ step' = "readonly"
      BY <1>4, <2>1, FileType DEF Fill
    <2>3. SetupTypeOK' /\ NothingIsDenied'
      BY <1>0, <1>4, <2>1, <2>2 DEF Fill, SetupTypeOK, NothingIsDenied, Commands
    <2>4. ScriptReady' /\ StateReady'
      BY <1>0, <1>4, <2>1, <2>2 DEF Fill, ScriptReady, StateReady, Unlocked, Sealing
    <2> QED BY <2>3, <2>4 DEF SetupInv
  <1>5. CASE ReadOnly
    <2>1. SetupTypeOK' /\ NothingIsDenied'
      BY <1>0, <1>5 DEF ReadOnly, SetupTypeOK, NothingIsDenied, Commands
    <2>2. ScriptReady' /\ StateReady'
      BY <1>0, <1>5 DEF ReadOnly, ScriptReady, StateReady, Unlocked, Sealing
    <2> QED BY <2>1, <2>2 DEF SetupInv
  <1>6. CASE Rename
    <2>1. codeMode = "0755" /\ new \in File /\ new.whole
      BY <1>0, <1>6 DEF Rename, ScriptReady, Unlocked
    <2>2. script' = new /\ new' = NoFile /\ step = "rename" /\ step' = "seal"
      BY <1>6, <2>1 DEF Rename
    <2>3. SetupTypeOK' /\ NothingIsDenied'
      BY <1>0, <1>6, <2>1, <2>2 DEF Rename, SetupTypeOK, NothingIsDenied, Commands
    <2>4. ScriptReady' /\ StateReady'
      BY <1>0, <1>6, <2>1, <2>2 DEF Rename, ScriptReady, StateReady, Unlocked, Sealing
    <2> QED BY <2>3, <2>4 DEF SetupInv
  <1>7. CASE Seal
    <2>1. SetupTypeOK' /\ NothingIsDenied'
      BY <1>0, <1>7 DEF Seal, Sealed, SetupTypeOK, NothingIsDenied, Commands
    <2>2. ScriptReady' /\ StateReady'
      BY <1>0, <1>7 DEF Seal, Sealed, ScriptReady, StateReady, Unlocked, Sealing
    <2> QED BY <2>1, <2>2 DEF SetupInv
  <1> QED BY <1>1, <1>2, <1>3, <1>4, <1>5, <1>6, <1>7

LEMMA StateCommandsKeep ==
  ASSUME SetupInv, Take \/ Mode \/ Give
  PROVE  SetupInv'
  <1> USE DEF Command
  <1>0. SetupTypeOK /\ NothingIsDenied /\ ScriptReady /\ StateReady
    BY DEF SetupInv
  <1>1. /\ codeMode' = codeMode /\ new' = new /\ script' = script
        /\ configmap' = configmap /\ kills' = kills
        /\ step \in {"take", "mode", "give"}
    BY DEF Take, Mode, Give
  <1>2. script \in File /\ script.whole /\ codeMode = "0555"
    BY <1>0, <1>1 DEF ScriptReady, Sealing
  <1>3. step' \in {"mode", "give", "running"} /\ ~denied'
    <2>1. CASE Take
      BY <1>0, <2>1 DEF Take, NothingIsDenied
    <2>2. CASE Mode
      BY <1>0, <2>2 DEF Mode, NothingIsDenied, StateReady
    <2>3. CASE Give
      BY <1>0, <2>3 DEF Give, NothingIsDenied
    <2> QED BY <2>1, <2>2, <2>3
  <1>4. stateDir' \in [owner : {"root", "dns"}, mode : {"0777", "0750"}] /\ StateReady'
    <2>1. CASE Take
      BY <1>0, <2>1 DEF Take, Taker, SetupTypeOK, StateReady
    <2>2. CASE Mode
      BY <1>0, <2>2 DEF Mode, SetupTypeOK, StateReady
    <2>3. CASE Give
      BY <1>0, <2>3 DEF Give, SetupTypeOK, StateReady
    <2> QED BY <2>1, <2>2, <2>3
  <1>5. first' \in Versions \union {None}
    <2>1. CASE Give
      BY <1>0, <1>2, <2>1, FileType DEF Give, SetupTypeOK
    <2>2. CASE ~Give
      BY <1>0, <2>2 DEF Take, Mode, SetupTypeOK
    <2> QED BY <2>1, <2>2
  <1>6. SetupTypeOK'
    <2>1. denied' \in BOOLEAN
      BY <1>0 DEF Take, Mode, Give, SetupTypeOK
    <2> QED BY <1>0, <1>1, <1>3, <1>4, <1>5, <2>1 DEF SetupTypeOK, Commands
  <1>7. ScriptReady'
    BY <1>1, <1>2, <1>3 DEF ScriptReady, Unlocked, Sealing
  <1> QED BY <1>3, <1>4, <1>6, <1>7 DEF SetupInv, NothingIsDenied

LEMMA EnvironmentKeeps ==
  ASSUME SetupInv, Upgrade \/ SetupAgain \/ SetupPowerLoss \/ UNCHANGED setupVars
  PROVE  SetupInv'
  <1>0. SetupTypeOK /\ NothingIsDenied /\ ScriptReady /\ StateReady
    BY DEF SetupInv
  <1>1. CASE Upgrade \/ UNCHANGED setupVars
    <2>1. /\ step' = step /\ denied' = denied /\ codeMode' = codeMode /\ new' = new
          /\ script' = script /\ stateDir' = stateDir /\ kills' = kills /\ first' = first
          /\ configmap' \in Versions
      BY <1>0, <1>1 DEF Upgrade, setupVars, volumes, SetupTypeOK
    <2>2. SetupTypeOK' /\ NothingIsDenied'
      BY <1>0, <2>1 DEF SetupTypeOK, NothingIsDenied
    <2>3. ScriptReady' /\ StateReady'
      BY <1>0, <2>1 DEF ScriptReady, StateReady
    <2> QED BY <2>2, <2>3 DEF SetupInv
  <1>2. CASE SetupAgain \/ SetupPowerLoss
    <2>1. /\ step' = "unlock" /\ denied' = denied /\ codeMode' = codeMode /\ new' = new
          /\ stateDir' = stateDir /\ first' = first /\ configmap' = configmap
          /\ kills < MaxKills /\ kills' = kills + 1
      BY <1>2 DEF SetupAgain, SetupPowerLoss, SetupRestart
    <2>2. script' \in File \union {NoFile}
      <3>1. script \in File \union {NoFile}
        BY <1>0 DEF SetupTypeOK
      <3>2. script \in File => [script EXCEPT !.whole = FALSE] \in File
        BY FileType
      <3>3. \/ script' = script
            \/ script # NoFile /\ script' = [script EXCEPT !.whole = FALSE]
        BY <1>2 DEF SetupAgain, SetupPowerLoss
      <3> QED BY <3>1, <3>2, <3>3
    <2>3. kills' \in 0 .. MaxKills
      BY <1>0, <2>1, SetupAssumption DEF SetupTypeOK
    <2>4. SetupTypeOK' /\ NothingIsDenied'
      BY <1>0, <2>1, <2>2, <2>3 DEF SetupTypeOK, NothingIsDenied, Commands
    <2>5. ScriptReady' /\ StateReady'
      BY <2>1 DEF ScriptReady, StateReady, Unlocked, Sealing
    <2> QED BY <2>4, <2>5 DEF SetupInv
  <1> QED BY <1>1, <1>2

LEMMA SetupStart ==
  ASSUME SetupInit
  PROVE  SetupInv
  <1>1. SetupTypeOK /\ NothingIsDenied
    <2>1. stateDir \in [owner : {"root", "dns"}, mode : {"0777", "0750"}]
      BY DEF SetupInit
    <2>2. kills \in 0 .. MaxKills
      BY SetupAssumption DEF SetupInit
    <2>3. configmap \in Versions /\ first \in Versions \union {None} /\ denied = FALSE
      BY DEF SetupInit
    <2>4. codeMode = "0777" /\ step = "unlock" /\ new = NoFile /\ script = NoFile
      BY DEF SetupInit
    <2> QED BY <2>1, <2>2, <2>3, <2>4 DEF SetupTypeOK, NothingIsDenied, Commands
  <1>2. ScriptReady /\ StateReady
    BY DEF SetupInit, ScriptReady, StateReady, Unlocked, Sealing
  <1> QED BY <1>1, <1>2 DEF SetupInv

LEMMA SetupStep ==
  ASSUME SetupInv, [SetupNext]_setupVars
  PROVE  SetupInv'
  BY CommandsKeep, StateCommandsKeep, EnvironmentKeeps DEF SetupNext, Setup

\* However often dns-setup is killed, the sandbox recreated or the node loses
\* power, and whatever the ConfigMap shows by then: no command of it fails for
\* its rights, and the controller runs a whole script.
THEOREM SetupRunsWhole ==
  MCSpec => []SetupIsSafe
  <1>1. MCInit => SetupInv
    BY SetupStart DEF MCInit, SetupWaits
  <1>2. SetupInv /\ [MCNext]_mcVars => SetupInv'
    <2> SUFFICES ASSUME SetupInv, [MCNext]_mcVars PROVE [SetupNext]_setupVars
      BY SetupStep
    <2> QED BY DEF MCNext, RunsSetup, RunsEntry, mcVars
  <1>3. SetupInv => SetupIsSafe
    BY DEF SetupInv, SetupIsSafe, RunsWhole, ScriptReady, StateReady, Sealing
  <1> QED BY <1>1, <1>2, <1>3, PTL DEF MCSpec

-----------------------------------------------------------------------------
(* Entrypoint                                                                *)

\* The script never adds a second block, nor one beside a reference; a block
\* the user disabled is not made active again.
OneBlock ==
    /\ rc.active <= 1
    /\ rc.active > 0 => ~rc.own /\ rc.disabled = 0

\* The key that is next is there to be looked at, and is only written to a
\* file that ssh-keygen has created.
KeyAtHand ==
    /\ pc \in {"keys", "write"} => next \in DOMAIN KeyTypes
    /\ pc = "write" => Key = Empty

\* A key that clients have seen is the one that is there, unless it was lost.
OfferedIsThere == \A t \in Types \ lost : \A k \in offered[t] : key[t] = k

\* Keys in the container are made only before there are any in the home.
SpareComeFirst == pc = "spare" => \A t \in Types \ lost : offered[t] = {}

EntryInv ==
    /\ EntryTypeOK
    /\ HookedOnce
    /\ OneBlock
    /\ KeyAtHand
    /\ OfferedIsThere
    /\ SpareComeFirst

LEMMA EntryTyping ==
  ASSUME EntryTypeOK
  PROVE  /\ Len(KeyTypes) \in Nat /\ Len(KeyTypes) >= 1 /\ DOMAIN KeyTypes = 1 .. Len(KeyTypes)
         /\ \A i \in DOMAIN KeyTypes : KeyTypes[i] \in Types
         /\ next \in Nat /\ next >= 1 /\ next <= Len(KeyTypes) + 1
         /\ rc.active \in Nat /\ rc.disabled \in Nat /\ rc.own \in BOOLEAN /\ rc \in Bashrc
         /\ rc = [active |-> rc.active, disabled |-> rc.disabled, own |-> rc.own]
         /\ made \in Nat /\ MaxFaults \in Nat /\ MaxEdits \in Nat
         /\ \A n \in Nat : n \notin {Absent, Empty, Torn}
         /\ \A t \in Types : t \in Usable => key[t] \in 1 .. made
  <1>1. /\ Len(KeyTypes) \in Nat /\ Len(KeyTypes) >= 1 /\ DOMAIN KeyTypes = 1 .. Len(KeyTypes)
        /\ \A i \in DOMAIN KeyTypes : KeyTypes[i] \in Types
    BY EntryAssumption DEF Types
  <1>2. next \in Nat /\ next >= 1 /\ next <= Len(KeyTypes) + 1
    BY <1>1 DEF EntryTypeOK
  <1>3. /\ rc.active \in Nat /\ rc.disabled \in Nat /\ rc.own \in BOOLEAN
        /\ rc = [active |-> rc.active, disabled |-> rc.disabled, own |-> rc.own]
    BY DEF EntryTypeOK, Bashrc
  <1>4. \A n \in Nat : n \notin {Absent, Empty, Torn}
    BY EntryAssumption
  <1>5. \A t \in Types : t \in Usable => key[t] \in 1 .. made
    BY DEF EntryTypeOK, Usable
  <1> QED BY <1>1, <1>2, <1>3, <1>4, <1>5, EntryAssumption DEF EntryTypeOK

\* A start that has come so far that .bashrc was looked at, and the keys.
LEMMA ShellKeeps ==
  ASSUME EntryInv, Shell
  PROVE  EntryInv'
  <1>1. /\ pc = "shell" /\ pc' = "keys" /\ next' = 1
        /\ key' = key /\ synced' = synced /\ made' = made /\ offered' = offered
        /\ lost' = lost /\ faults' = faults /\ edits' = edits
        /\ rc' = IF rc.active > 0 \/ rc.own \/ rc.active + rc.disabled > 0
                 THEN rc ELSE [rc EXCEPT !.active = @ + 1]
    BY DEF Shell, Referenced, Marked, keys, history
  <1>2. EntryTypeOK /\ OneBlock /\ KeyAtHand /\ OfferedIsThere
    BY DEF EntryInv
  <1>3. /\ rc.active \in Nat /\ rc.disabled \in Nat /\ rc.own \in BOOLEAN /\ rc \in Bashrc
        /\ rc = [active |-> rc.active, disabled |-> rc.disabled, own |-> rc.own]
        /\ 1 \in DOMAIN KeyTypes /\ 1 \in 1 .. Len(KeyTypes) + 1
    BY <1>2, EntryTyping
  <1>4. /\ rc' \in Bashrc /\ rc'.active <= 1
        /\ rc'.active > 0 => ~rc'.own /\ rc'.disabled = 0
        /\ rc'.active + (IF rc'.own THEN 1 ELSE 0) = (IF rc'.disabled > 0 /\ ~rc'.own THEN 0 ELSE 1)
    <2>1. CASE rc.active > 0 \/ rc.own \/ rc.active + rc.disabled > 0
      <3>1. rc' = rc
        BY <1>1, <2>1
      <3>2. CASE rc.own
        BY <1>2, <1>3, <3>1, <3>2 DEF OneBlock
      <3>3. CASE ~rc.own
        BY <1>2, <1>3, <2>1, <3>1, <3>3 DEF OneBlock
      <3> QED BY <3>2, <3>3
    <2>2. CASE ~(rc.active > 0 \/ rc.own \/ rc.active + rc.disabled > 0)
      <3>1. rc.active = 0 /\ rc.disabled = 0 /\ ~rc.own
        BY <1>3, <2>2
      <3>2. rc' = [rc EXCEPT !.active = 1]
        BY <1>1, <2>2, <3>1
      <3>3. rc' \in Bashrc /\ rc'.active = 1 /\ rc'.disabled = 0 /\ rc'.own = rc.own
        BY <1>3, <3>1, <3>2 DEF Bashrc
      <3> QED BY <3>1, <3>3
    <2> QED BY <2>1, <2>2
  <1>5. EntryTypeOK'
    <2>1. Usable' = Usable
      BY <1>1 DEF Usable
    <2> QED BY <1>1, <1>2, <1>3, <1>4, <2>1 DEF EntryTypeOK
  <1>6. HookedOnce' /\ OneBlock'
    BY <1>4 DEF HookedOnce, OneBlock
  <1>7. KeyAtHand' /\ OfferedIsThere' /\ SpareComeFirst'
    BY <1>1, <1>2, <1>3 DEF KeyAtHand, OfferedIsThere, SpareComeFirst
  <1> QED BY <1>5, <1>6, <1>7 DEF EntryInv

\* A step that leaves .bashrc as it is: what is asked of the keys is enough.
LEMMA KeysKeep ==
  ASSUME EntryInv, rc' = rc, edits' = edits,
         pc' \in {"keys", "write", "spare", "sshd", "wait"} =>
             pc \in {"keys", "write", "spare", "sshd", "wait"},
         pc' \in {"shell", "keys", "write", "spare", "sshd", "wait", "running"},
         next' \in 1 .. Len(KeyTypes) + 1, made' \in Nat, faults' \in 0 .. MaxFaults,
         key' \in [Types -> {Absent, Empty, Torn} \union 1 .. made'], synced' \subseteq Usable',
         offered' \in [Types -> SUBSET (1 .. made')], lost' \subseteq Types,
         KeyAtHand', OfferedIsThere', SpareComeFirst'
  PROVE  EntryInv'
  <1>1. EntryTypeOK'
    BY DEF EntryInv, EntryTypeOK
  <1>2. HookedOnce' /\ OneBlock'
    BY DEF EntryInv, HookedOnce, OneBlock
  <1> QED BY <1>1, <1>2 DEF EntryInv

LEMMA NextKey ==
  ASSUME EntryInv, KeyDone, pc \in {"keys", "write"}
  PROVE  /\ next \in DOMAIN KeyTypes /\ KeyTypes[next] \in Types
         /\ next' \in 1 .. Len(KeyTypes) + 1 /\ pc' \in {"keys", "sshd"}
         /\ pc' = "keys" => next' \in DOMAIN KeyTypes
  <1>1. next \in DOMAIN KeyTypes
    BY DEF EntryInv, KeyAtHand
  <1>2. Len(KeyTypes) \in Nat /\ DOMAIN KeyTypes = 1 .. Len(KeyTypes) /\ KeyTypes[next] \in Types
    BY <1>1, EntryTyping DEF EntryInv
  <1>3. next \in Nat /\ next <= Len(KeyTypes) /\ next >= 1
    BY <1>1, <1>2
  <1> QED BY <1>1, <1>2, <1>3 DEF KeyDone

LEMMA MakingKeeps ==
  ASSUME EntryInv, KeepKey \/ MakeKey \/ WriteKey
  PROVE  EntryInv'
  <1>1. /\ rc' = rc /\ edits' = edits /\ faults' = faults /\ offered' = offered /\ lost' = lost
        /\ pc \in {"keys", "write"}
    BY DEF KeepKey, MakeKey, WriteKey, history
  <1>2. EntryTypeOK /\ KeyAtHand /\ OfferedIsThere
    BY DEF EntryInv
  <1>3. next \in DOMAIN KeyTypes /\ KeyTypes[next] \in Types
    BY <1>1, <1>2, EntryTyping DEF KeyAtHand
  <1>4. /\ key \in [Types -> {Absent, Empty, Torn} \union 1 .. made] /\ made \in Nat
        /\ faults \in 0 .. MaxFaults /\ offered \in [Types -> SUBSET (1 .. made)]
        /\ lost \subseteq Types /\ synced \subseteq Usable
        /\ next \in 1 .. Len(KeyTypes) + 1
    BY <1>2 DEF EntryTypeOK
  <1>5. \A n \in Nat : n \notin {Absent, Empty, Torn}
    BY <1>2, EntryTyping
  <1>6. CASE KeepKey
    <2>1. KeyDone /\ key' = key /\ synced' = synced /\ made' = made
      BY <1>6 DEF KeepKey, keys
    <2>2. /\ next' \in 1 .. Len(KeyTypes) + 1 /\ pc' \in {"keys", "sshd"}
          /\ pc' = "keys" => next' \in DOMAIN KeyTypes
      BY <1>1, <2>1, NextKey
    <2>3. Usable' = Usable
      BY <2>1 DEF Usable
    <2>4. KeyAtHand' /\ OfferedIsThere'
      BY <1>1, <1>2, <2>1, <2>2 DEF KeyAtHand, OfferedIsThere
    <2>5. SpareComeFirst'
      BY <2>2 DEF SpareComeFirst
    <2> QED BY <1>1, <1>4, <2>1, <2>2, <2>3, <2>4, <2>5, KeysKeep
  <1>7. CASE MakeKey
    <2>1. /\ Key = Absent /\ key' = [key EXCEPT ![KeyTypes[next]] = Empty]
          /\ synced' = synced \ {KeyTypes[next]} /\ pc' = "write"
          /\ next' = next /\ made' = made
      BY <1>7 DEF MakeKey
    <2>2. key' \in [Types -> {Absent, Empty, Torn} \union 1 .. made']
      BY <1>3, <1>4, <2>1
    <2>3. synced' \subseteq Usable'
      BY <1>4, <2>1 DEF Usable
    <2>4. OfferedIsThere'
      <3> SUFFICES ASSUME NEW t \in Types \ lost, NEW k \in offered[t]
                   PROVE  key'[t] = k
        BY <1>1 DEF OfferedIsThere
      <3>1. key[t] = k /\ k \in Nat
        BY <1>2, <1>4 DEF OfferedIsThere
      <3>2. t # KeyTypes[next]
        BY <1>5, <2>1, <3>1 DEF Key
      <3> QED BY <1>4, <2>1, <3>1, <3>2
    <2>5. KeyAtHand'
      <3>1. Key' = Empty
        BY <1>3, <1>4, <2>1 DEF Key
      <3> QED BY <1>3, <2>1, <3>1 DEF KeyAtHand
    <2>6. SpareComeFirst'
      BY <2>1 DEF SpareComeFirst
    <2> QED BY <1>1, <1>4, <2>1, <2>2, <2>3, <2>4, <2>5, <2>6, KeysKeep
  <1>8. CASE WriteKey
    <2>1. /\ pc = "write" /\ KeyDone /\ made' = made + 1 /\ synced' = synced
          /\ key' = [key EXCEPT ![KeyTypes[next]] = made + 1]
      BY <1>8 DEF WriteKey
    <2>2. /\ next' \in 1 .. Len(KeyTypes) + 1 /\ pc' \in {"keys", "sshd"}
          /\ pc' = "keys" => next' \in DOMAIN KeyTypes
      BY <1>1, <2>1, NextKey
    <2>3. made' \in Nat /\ 1 .. made \subseteq 1 .. made' /\ made + 1 \in 1 .. made'
      BY <1>4, <2>1
    <2>4. key' \in [Types -> {Absent, Empty, Torn} \union 1 .. made']
      <3>1. \A t \in Types : key[t] \in {Absent, Empty, Torn} \union 1 .. made'
        BY <1>4, <2>3
      <3> QED BY <1>3, <1>4, <2>1, <2>3, <3>1
    <2>5. offered' \in [Types -> SUBSET (1 .. made')]
      BY <1>1, <1>4, <2>3
    <2>6. synced' \subseteq Usable'
      <3>1. \A t \in Types : key'[t] = IF t = KeyTypes[next] THEN made + 1 ELSE key[t]
        BY <1>4, <2>1
      <3>2. made + 1 \notin {Absent, Empty, Torn}
        BY <1>4, <1>5
      <3> QED BY <1>4, <2>1, <3>1, <3>2 DEF Usable
    <2>7. OfferedIsThere'
      <3> SUFFICES ASSUME NEW t \in Types \ lost, NEW k \in offered[t]
                   PROVE  key'[t] = k
        BY <1>1 DEF OfferedIsThere
      <3>1. key[t] = k /\ k \in Nat
        BY <1>2, <1>4 DEF OfferedIsThere
      <3>2. t # KeyTypes[next]
        BY <1>2, <1>5, <2>1, <3>1 DEF KeyAtHand, Key
      <3> QED BY <1>4, <2>1, <3>1, <3>2
    <2>8. KeyAtHand' /\ SpareComeFirst'
      BY <2>2 DEF KeyAtHand, SpareComeFirst
    <2> QED BY <1>1, <1>4, <2>1, <2>2, <2>3, <2>4, <2>5, <2>6, <2>7, <2>8, KeysKeep
  <1> QED BY <1>6, <1>7, <1>8

\* The container goes on with the keys it has, or ends; a fault may be why.
LEMMA RunningKeeps ==
  ASSUME EntryInv, \/ KeygenRefuses \/ SshdOnSpares \/ Ready
                   \/ Restart \/ Kill \/ WriteBack \/ UNCHANGED entryVars
  PROVE  EntryInv'
  <1>1. EntryTypeOK /\ KeyAtHand /\ OfferedIsThere /\ SpareComeFirst
    BY DEF EntryInv
  <1>2. /\ key \in [Types -> {Absent, Empty, Torn} \union 1 .. made] /\ made \in Nat
        /\ faults \in 0 .. MaxFaults /\ offered \in [Types -> SUBSET (1 .. made)]
        /\ lost \subseteq Types /\ synced \subseteq Usable
        /\ next \in 1 .. Len(KeyTypes) + 1
        /\ pc \in {"shell", "keys", "write", "spare", "sshd", "wait", "running"}
    BY <1>1 DEF EntryTypeOK
  <1>3. /\ rc' = rc /\ edits' = edits /\ offered' = offered /\ lost' = lost
        /\ key' = key /\ made' = made
    BY DEF KeygenRefuses, SshdOnSpares, Ready, Restart, Kill, WriteBack, entryVars, Exit, Survives, keys, history
  <1>4. \/ pc' = "shell" /\ next' = 1
        \/ pc \in {"wait", "spare"} /\ pc' \in {"wait", "running"} /\ next' = next
        \/ pc' = pc /\ next' = next
    BY DEF KeygenRefuses, SshdOnSpares, Ready, Restart, Kill, WriteBack, entryVars, Exit, Again
  <1>5. faults' \in 0 .. MaxFaults
    <2>1. CASE Kill
      BY <1>1, <1>2, <2>1, EntryTyping DEF Kill, Fault
    <2>2. CASE ~Kill
      BY <1>2, <2>2 DEF KeygenRefuses, SshdOnSpares, Ready, Restart, WriteBack, entryVars, Exit
    <2> QED BY <2>1, <2>2
  <1>6. Usable' = Usable
    BY <1>3 DEF Usable
  <1>7. synced' \subseteq Usable'
    BY <1>2, <1>6 DEF KeygenRefuses, SshdOnSpares, Ready, Restart, Kill, WriteBack, entryVars, keys
  <1>8. KeyAtHand' /\ OfferedIsThere' /\ SpareComeFirst'
    BY <1>1, <1>3, <1>4 DEF KeyAtHand, OfferedIsThere, SpareComeFirst, Key
  <1>9. 1 \in 1 .. Len(KeyTypes) + 1
    BY <1>1, EntryTyping
  <1> QED BY <1>2, <1>3, <1>4, <1>5, <1>7, <1>8, <1>9, KeysKeep

\* Where no key is in the home, none was offered but what a power loss took.
LEMMA FallBackKeeps ==
  ASSUME EntryInv, FallBack
  PROVE  EntryInv'
  <1>1. EntryTypeOK /\ OfferedIsThere
    BY DEF EntryInv
  <1>2. /\ key \in [Types -> {Absent, Empty, Torn} \union 1 .. made] /\ made \in Nat
        /\ faults \in 0 .. MaxFaults /\ offered \in [Types -> SUBSET (1 .. made)]
        /\ lost \subseteq Types /\ synced \subseteq Usable
        /\ next \in 1 .. Len(KeyTypes) + 1
    BY <1>1 DEF EntryTypeOK
  <1>3. /\ pc = "keys" /\ pc' = "spare" /\ next' = next /\ rc' = rc /\ edits' = edits
        /\ key' = key /\ synced' = synced /\ made' = made /\ offered' = offered /\ lost' = lost
        /\ faults < MaxFaults /\ faults' = faults + 1
        /\ \A t \in Types : key[t] = Absent
    BY DEF FallBack, NoFolder, keys, history
  <1>4. faults' \in 0 .. MaxFaults
    BY <1>1, <1>2, <1>3, EntryTyping
  <1>5. synced' \subseteq Usable' /\ KeyAtHand' /\ OfferedIsThere'
    BY <1>1, <1>2, <1>3 DEF Usable, KeyAtHand, OfferedIsThere
  <1>6. SpareComeFirst'
    <2> SUFFICES ASSUME NEW t \in Types \ lost, NEW k \in offered[t] PROVE FALSE
      BY <1>3 DEF SpareComeFirst
    <2>1. key[t] = k /\ k \in Nat
      BY <1>1, <1>2 DEF OfferedIsThere
    <2> QED BY <1>1, <1>3, <2>1, EntryTyping
  <1> QED BY <1>2, <1>3, <1>4, <1>5, <1>6, KeysKeep

LEMMA SshdKeeps ==
  ASSUME EntryInv, Sshd
  PROVE  EntryInv'
  <1>1. EntryTypeOK /\ OfferedIsThere
    BY DEF EntryInv
  <1>2. /\ key \in [Types -> {Absent, Empty, Torn} \union 1 .. made] /\ made \in Nat
        /\ faults \in 0 .. MaxFaults /\ offered \in [Types -> SUBSET (1 .. made)]
        /\ lost \subseteq Types /\ synced \subseteq Usable
        /\ next \in 1 .. Len(KeyTypes) + 1
    BY <1>1 DEF EntryTypeOK
  <1>3. /\ pc = "sshd" /\ rc' = rc /\ edits' = edits /\ faults' = faults /\ lost' = lost
        /\ key' = key /\ made' = made /\ synced' = synced
        /\ offered' = [t \in Types |-> IF t \in Usable THEN offered[t] \union {key[t]}
                                       ELSE offered[t]]
    BY DEF Sshd, Exit, Survives
  <1>4. pc' \in {"shell", "wait"} /\ next' \in {1, next}
    BY DEF Sshd, Exit, Again
  <1>5. \A t \in Types : t \in Usable => key[t] \in 1 .. made
    BY <1>1, EntryTyping
  <1>6. offered' \in [Types -> SUBSET (1 .. made')]
    BY <1>2, <1>3, <1>5
  <1>7. Usable' = Usable
    BY <1>3 DEF Usable
  <1>8. KeyAtHand' /\ SpareComeFirst'
    BY <1>4 DEF KeyAtHand, SpareComeFirst
  <1>9. OfferedIsThere'
    BY <1>1, <1>2, <1>3 DEF OfferedIsThere
  <1>10. 1 \in 1 .. Len(KeyTypes) + 1
    BY <1>1, EntryTyping
  <1>11. synced' \subseteq Usable'
    BY <1>2, <1>3, <1>7
  <1> QED BY <1>2, <1>3, <1>4, <1>6, <1>8, <1>9, <1>10, <1>11, KeysKeep

LEMMA PowerLossKeeps ==
  ASSUME EntryInv, PowerLoss
  PROVE  EntryInv'
  <1>1. EntryTypeOK /\ OfferedIsThere
    BY DEF EntryInv
  <1>2. /\ key \in [Types -> {Absent, Empty, Torn} \union 1 .. made] /\ made \in Nat
        /\ faults \in 0 .. MaxFaults /\ offered \in [Types -> SUBSET (1 .. made)]
        /\ lost \subseteq Types /\ synced \subseteq Usable
    BY <1>1 DEF EntryTypeOK
  <1>3. PICK after \in [Usable \ synced -> {Absent, Empty, Torn}], gone \in SUBSET (Usable \ synced) :
            /\ key' = [t \in Types |-> IF t \in gone THEN after[t] ELSE key[t]]
            /\ lost' = lost \union gone
    BY DEF PowerLoss
  <1>4. /\ pc' = "shell" /\ next' = 1 /\ rc' = rc /\ edits' = edits /\ made' = made
        /\ synced' = synced /\ offered' = offered /\ faults < MaxFaults /\ faults' = faults + 1
    BY DEF PowerLoss, Again, Fault
  <1>5. key' \in [Types -> {Absent, Empty, Torn} \union 1 .. made']
    BY <1>2, <1>3, <1>4
  <1>6. gone \subseteq Types
    BY <1>3 DEF Usable
  <1>7. \A t \in Types \ gone : key'[t] = key[t]
    BY <1>3
  <1>8. synced' \subseteq Usable'
    BY <1>2, <1>3, <1>4, <1>7 DEF Usable
  <1>9. OfferedIsThere'
    BY <1>1, <1>3, <1>4, <1>6, <1>7 DEF OfferedIsThere
  <1>10. KeyAtHand' /\ SpareComeFirst'
    BY <1>4 DEF KeyAtHand, SpareComeFirst
  <1>11. faults' \in 0 .. MaxFaults /\ 1 \in 1 .. Len(KeyTypes) + 1
    BY <1>1, <1>2, <1>4, EntryTyping
  <1> QED BY <1>2, <1>3, <1>4, <1>5, <1>6, <1>8, <1>9, <1>10, <1>11, KeysKeep

LEMMA EditKeeps ==
  ASSUME EntryInv, Edit
  PROVE  EntryInv'
  <1>1. EntryTypeOK /\ OneBlock /\ KeyAtHand /\ OfferedIsThere
    BY DEF EntryInv
  <1>2. /\ pc = "running" /\ pc' = pc /\ next' = next /\ key' = key /\ synced' = synced
        /\ made' = made /\ offered' = offered /\ lost' = lost /\ faults' = faults
        /\ edits < MaxEdits /\ edits' = edits + 1
        /\ rc' \in {[rc EXCEPT !.active = 0, !.disabled = @ + rc.active],
                    [active |-> 0, disabled |-> 0, own |-> FALSE],
                    [active |-> 0, disabled |-> 0, own |-> TRUE]}
    BY DEF Edit, keys, history
  <1>3. rc' \in Bashrc /\ rc'.active = 0
    <2>1. rc.active \in Nat /\ rc.disabled \in Nat /\ rc.own \in BOOLEAN /\ rc \in Bashrc
      BY <1>1, EntryTyping
    <2>2. rc.disabled + rc.active \in Nat
      BY <2>1
    <2>3. CASE rc' = [rc EXCEPT !.active = 0, !.disabled = @ + rc.active]
      <3>1. rc' = [active |-> 0, disabled |-> rc.disabled + rc.active, own |-> rc.own]
        BY <2>1, <2>3 DEF Bashrc
      <3> QED BY <2>1, <2>2, <3>1 DEF Bashrc
    <2>4. CASE rc' \in {[active |-> 0, disabled |-> 0, own |-> FALSE],
                       [active |-> 0, disabled |-> 0, own |-> TRUE]}
      <3>1. ASSUME NEW d \in Nat, NEW o \in BOOLEAN
            PROVE  /\ [active |-> 0, disabled |-> d, own |-> o] \in Bashrc
                   /\ [active |-> 0, disabled |-> d, own |-> o].active = 0
        BY DEF Bashrc
      <3>2. PICK o \in BOOLEAN : rc' = [active |-> 0, disabled |-> 0, own |-> o]
        BY <2>4
      <3> QED BY <3>1, <3>2
    <2>5. \/ rc' = [rc EXCEPT !.active = 0, !.disabled = @ + rc.active]
          \/ rc' \in {[active |-> 0, disabled |-> 0, own |-> FALSE],
                     [active |-> 0, disabled |-> 0, own |-> TRUE]}
      BY <1>2, Zenon
    <2> QED BY <2>3, <2>4, <2>5
  <1>4. edits' \in 0 .. MaxEdits
    BY <1>1, <1>2, EntryTyping DEF EntryTypeOK
  <1>5. Usable' = Usable
    BY <1>2 DEF Usable
  <1>6. EntryTypeOK'
    BY <1>1, <1>2, <1>3, <1>4, <1>5 DEF EntryTypeOK
  <1>7. HookedOnce' /\ OneBlock'
    BY <1>2, <1>3 DEF HookedOnce, OneBlock
  <1>8. KeyAtHand' /\ OfferedIsThere' /\ SpareComeFirst'
    BY <1>1, <1>2 DEF KeyAtHand, OfferedIsThere, SpareComeFirst
  <1> QED BY <1>6, <1>7, <1>8 DEF EntryInv

LEMMA EntryStart ==
  ASSUME EntryInit
  PROVE  EntryInv
  <1>1. /\ pc = "shell" /\ next = 1 /\ rc \in [active : {0}, disabled : {0}, own : BOOLEAN]
        /\ key = [t \in Types |-> Absent] /\ synced = {} /\ made = 0
        /\ offered = [t \in Types |-> {}] /\ lost = {} /\ faults = 0 /\ edits = 0
    BY DEF EntryInit
  <1>2. rc \in Bashrc /\ rc.active = 0
    BY <1>1 DEF Bashrc
  <1>3. 1 \in 1 .. Len(KeyTypes) + 1 /\ 0 \in 0 .. MaxFaults /\ 0 \in 0 .. MaxEdits
    BY EntryAssumption
  <1>4. EntryTypeOK
    BY <1>1, <1>2, <1>3 DEF EntryTypeOK
  <1>5. HookedOnce /\ OneBlock /\ KeyAtHand /\ OfferedIsThere /\ SpareComeFirst
    BY <1>1, <1>2 DEF HookedOnce, OneBlock, KeyAtHand, OfferedIsThere, SpareComeFirst
  <1> QED BY <1>4, <1>5 DEF EntryInv

LEMMA EntryStep ==
  ASSUME EntryInv, [EntryNext]_entryVars
  PROVE  EntryInv'
  BY ShellKeeps, MakingKeeps, RunningKeeps, FallBackKeeps, SshdKeeps, PowerLossKeeps, EditKeeps
  DEF EntryNext, Start

\* Two keys that were offered are the same one.
LEMMA OneIdentity ==
  ASSUME EntryInv
  PROVE  IdentityIsKept
  <1> SUFFICES ASSUME NEW t \in Types \ lost
               PROVE  Cardinality(offered[t]) <= 1
    BY DEF IdentityIsKept, EntryInv, SpareComeFirst
  <1>1. \A k \in offered[t] : k = key[t]
    BY DEF EntryInv, OfferedIsThere
  <1>2. offered[t] = {} \/ offered[t] = {key[t]}
    BY <1>1
  <1>3. Cardinality({}) = 0 /\ Cardinality({key[t]}) = 1
    BY FS_EmptySet, FS_Singleton
  <1> QED BY <1>2, <1>3

\* However often a start of the workload is cut off, and whatever the user
\* does to .bashrc: the shell hook is there once, or disabled, and each type of
\* host key has one key for good, unless a power loss took it.
THEOREM HomeIsLeftSane ==
  MCSpec => []EntryIsSafe
  <1>1. MCInit => EntryInv
    BY EntryStart DEF MCInit, EntryWaits
  <1>2. EntryInv /\ [MCNext]_mcVars => EntryInv'
    <2> SUFFICES ASSUME EntryInv, [MCNext]_mcVars PROVE [EntryNext]_entryVars
      BY EntryStep
    <2> QED BY DEF MCNext, RunsSetup, RunsEntry, mcVars
  <1>3. EntryInv => EntryIsSafe
    BY OneIdentity DEF EntryInv, EntryIsSafe
  <1> QED BY <1>1, <1>2, <1>3, PTL DEF MCSpec
=============================================================================
