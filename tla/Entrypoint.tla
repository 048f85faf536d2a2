------------------------------ MODULE Entrypoint ------------------------------
(* entrypoint.sh: what a container start does to the persistent home, when   *)
(* starts may be cut off anywhere and the user edits the home in between.    *)
(* Of the home the model has .bashrc, with the block that sources            *)
(* ~/.bashrc.d, and the SSH host keys.                                       *)
EXTENDS Naturals, Sequences, FiniteSets

CONSTANTS
    KeyTypes,   \* the order of setup_ssh_host_keys: rsa, ecdsa, ed25519
    Absent, Empty, Torn,    \* states of a private key file that is no key
    MaxFaults,  \* bound: kills, power losses, a late sshd and a full home
    MaxEdits    \* bound: edits of .bashrc

ASSUME EntryAssumption ==
    /\ KeyTypes \in Seq(STRING) /\ KeyTypes # << >>
    /\ Cardinality({Absent, Empty, Torn}) = 3
    /\ {Absent, Empty, Torn} \intersect Nat = {}
    /\ MaxFaults \in Nat /\ MaxEdits \in Nat

Types == {KeyTypes[i] : i \in DOMAIN KeyTypes}

VARIABLES
    pc,         \* the step of the script, or "running"
    next,       \* the key type that is next
    rc,         \* .bashrc: active and disabled managed blocks, own references
    key,        \* the private keys; one that was made is its number
    synced,     \* key files that the kernel has written back
    made,       \* keys made so far
    offered,    \* the keys in the home that sshd has offered to clients (history)
    lost,       \* key types that a power loss took a key of (history)
    faults,
    edits

keys      == <<key, synced, made>>
history   == <<offered, lost>>
entryVars == <<pc, next, rc, keys, history, faults, edits>>

Bashrc == [active : Nat, disabled : Nat, own : BOOLEAN]

EntryInit ==
    /\ pc = "shell" /\ next = 1
    /\ rc \in [active : {0}, disabled : {0}, own : BOOLEAN]
    /\ key = [t \in Types |-> Absent]
    /\ synced = {} /\ made = 0
    /\ offered = [t \in Types |-> {}]
    /\ lost = {}
    /\ faults = 0 /\ edits = 0

-----------------------------------------------------------------------------
\* file_has_active_reference: a line that is not a comment names .bashrc.d.
Referenced == rc.active > 0 \/ rc.own

\* Mutant of Marked: only what is active counts.
MarkedActive == rc.active > 0

\* The marker is itself a comment: it is found in a disabled block, too.
Marked == rc.active + rc.disabled > 0

\* The block is one short write.
Shell ==
    /\ pc = "shell"
    /\ rc' = IF Referenced \/ Marked THEN rc ELSE [rc EXCEPT !.active = @ + 1]
    /\ pc' = "keys" /\ next' = 1
    /\ UNCHANGED <<keys, history, faults, edits>>

Key == key[KeyTypes[next]]

\* Mutant of Missing: what sshd cannot read is made anew.
MissingTorn == Key \in {Absent, Empty, Torn}

\* ! -s
Missing == Key \in {Absent, Empty}

KeyDone ==
    /\ next' = next + 1
    /\ pc' = IF next = Len(KeyTypes) THEN "sshd" ELSE "keys"

KeepKey ==
    /\ pc = "keys" /\ ~Missing
    /\ KeyDone
    /\ UNCHANGED <<rc, keys, history, faults, edits>>

\* Mutant of NoFolder: mkdir without -p fails on what is there, too.
NoFolderNeeded == TRUE

\* mkdir -p can only fail where SSH_HOSTKEY_DIR is not yet.
NoFolder == \A t \in Types : key[t] = Absent

\* The directory cannot be made: ssh-keygen -A makes keys in the container,
\* which go with it.
FallBack ==
    /\ pc = "keys" /\ next = 1
    /\ NoFolder
    /\ faults < MaxFaults /\ faults' = faults + 1
    /\ pc' = "spare"
    /\ UNCHANGED <<next, rc, keys, history, edits>>

\* ssh-keygen creates the file ...
MakeKey ==
    /\ pc = "keys" /\ Missing /\ Key = Absent
    /\ key' = [key EXCEPT ![KeyTypes[next]] = Empty]
    /\ synced' = synced \ {KeyTypes[next]}
    /\ pc' = "write"
    /\ UNCHANGED <<next, rc, made, history, faults, edits>>

\* ... and writes it.
WriteKey ==
    /\ pc = "write"
    /\ made' = made + 1
    /\ key' = [key EXCEPT ![KeyTypes[next]] = made']
    /\ KeyDone
    /\ UNCHANGED <<rc, synced, history, faults, edits>>

\* Mutant of Survives: the keys are in /etc/ssh of the container.
SurvivesNot == [t \in Types |-> Absent]

\* SSH_HOSTKEY_DIR is in the persistent home.
Survives == key

\* The container ends and the kubelet starts it again.
Again == pc' = "shell" /\ next' = 1
Exit == Again /\ key' = Survives

\* A file that is there is overwritten only on a terminal; errexit.
KeygenRefuses ==
    /\ pc = "keys" /\ Missing /\ Key # Absent
    /\ Exit
    /\ UNCHANGED <<rc, synced, made, history, faults, edits>>

Usable == {t \in Types : key[t] \notin {Absent, Empty, Torn}}

\* sshd reads the keys, leaves out those it cannot read and needs one.
Sshd ==
    /\ pc = "sshd"
    /\ \/ Usable # {} /\ pc' = "wait" /\ UNCHANGED <<next, key>>
       \/ Usable = {} /\ Exit
    /\ offered' = [t \in Types |-> IF t \in Usable THEN offered[t] \union {key[t]}
                                   ELSE offered[t]]
    /\ UNCHANGED <<rc, synced, made, lost, faults, edits>>

\* sshd reads the keys in the container, all of which are there.
SshdOnSpares ==
    /\ pc = "spare"
    /\ pc' = "wait"
    /\ UNCHANGED <<next, rc, keys, history, faults, edits>>

\* wait_for_sshd_ready, then the tunnel.
Ready ==
    /\ pc = "wait"
    /\ pc' = "running"
    /\ UNCHANGED <<next, rc, keys, history, faults, edits>>

-----------------------------------------------------------------------------
(* The environment *)

\* The user comments a block out, deletes it, or refers to the directory.
Edit ==
    /\ pc = "running"
    /\ edits < MaxEdits /\ edits' = edits + 1
    /\ rc' \in {[rc EXCEPT !.active = 0, !.disabled = @ + rc.active],
                [active |-> 0, disabled |-> 0, own |-> FALSE],
                [active |-> 0, disabled |-> 0, own |-> TRUE]}
    /\ UNCHANGED <<pc, next, keys, history, faults>>

Restart ==
    /\ pc = "running"
    /\ Exit
    /\ UNCHANGED <<rc, synced, made, history, faults, edits>>

Fault == faults < MaxFaults /\ faults' = faults + 1

\* The container is killed, or sshd is not ready within its timeout.
Kill ==
    /\ pc # "running"
    /\ Fault
    /\ Exit
    /\ UNCHANGED <<rc, synced, made, history, edits>>

WriteBack ==
    /\ \E t \in Usable \ synced : synced' = synced \union {t}
    /\ UNCHANGED <<pc, next, rc, key, made, history, faults, edits>>

\* The node loses power; nothing has synced the keys to disk.
PowerLoss ==
    /\ Fault
    /\ Again
    /\ \E after \in [Usable \ synced -> {Absent, Empty, Torn}],
          gone \in SUBSET (Usable \ synced) :
         /\ gone # {}
         /\ key' = [t \in Types |-> IF t \in gone THEN after[t] ELSE key[t]]
         /\ lost' = lost \union gone
    /\ UNCHANGED <<rc, synced, made, offered, edits>>

Start == \/ Shell \/ KeepKey \/ MakeKey \/ WriteKey \/ KeygenRefuses
         \/ Sshd \/ SshdOnSpares \/ Ready

EntryNext == Start \/ FallBack \/ Edit \/ Restart \/ Kill \/ WriteBack \/ PowerLoss

\* The kubelet starts the container again and again, and the script runs.
EntrySpec == EntryInit /\ [][EntryNext]_entryVars /\ WF_entryVars(Start)

-----------------------------------------------------------------------------
(* Properties *)

EntryTypeOK ==
    /\ pc \in {"shell", "keys", "write", "spare", "sshd", "wait", "running"}
    /\ next \in 1 .. Len(KeyTypes) + 1
    /\ rc \in Bashrc
    /\ key \in [Types -> {Absent, Empty, Torn} \union 1 .. made]
    /\ synced \subseteq Usable
    /\ made \in Nat
    /\ offered \in [Types -> SUBSET (1 .. made)]
    /\ lost \subseteq Types
    /\ faults \in 0 .. MaxFaults
    /\ edits \in 0 .. MaxEdits

\* However the user edits .bashrc and however often a start is cut off, a start
\* leaves ~/.bashrc.d sourced once, or not at all when the user disabled it.
HookedOnce ==
    pc \in {"keys", "write", "spare", "sshd", "wait"} =>
        rc.active + (IF rc.own THEN 1 ELSE 0) = (IF rc.disabled > 0 /\ ~rc.own THEN 0 ELSE 1)

\* Clients see one host key of each type for good, whatever start was cut off,
\* unless a power loss took the key before it was on disk.  Keys of a start that
\* could not make the directory are offered only before those, never after.
IdentityIsKept ==
    \A t \in Types \ lost :
        /\ Cardinality(offered[t]) <= 1
        /\ pc = "spare" => offered[t] = {}

\* What can keep the container from coming up: a key file that ssh-keygen will
\* not overwrite, or no key left that sshd can read.
Wedged == (\E t \in Types : key[t] = Empty) \/ \A t \in Types : key[t] = Torn

\* Nothing else does.
ComesUpOrWedged == <>[]Wedged \/ []<>(pc = "running")
=============================================================================
