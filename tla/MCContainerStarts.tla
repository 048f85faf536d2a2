-------------------------- MODULE MCContainerStarts --------------------------
(* Two containers that are started again over what their last start left:    *)
(* dns-setup over the Pod's volumes, the workload over its persistent home.  *)
(* They share no volume, so a behaviour runs one of them, container, while   *)
(* the other waits in a fixed initial state.                                 *)
EXTENDS SetupGeneration, Entrypoint

VARIABLE container

mcVars == <<container, setupVars, entryVars>>

SomeVersion == CHOOSE v \in Versions : TRUE

SetupWaits == configmap = SomeVersion /\ SetupInit

EntryWaits == rc = [active |-> 0, disabled |-> 0, own |-> FALSE] /\ EntryInit

MCInit ==
    \/ container = "setup" /\ SetupInit /\ EntryWaits
    \/ container = "entry" /\ SetupWaits /\ EntryInit

RunsSetup == container = "setup" /\ SetupNext /\ UNCHANGED <<container, entryVars>>
RunsEntry == container = "entry" /\ EntryNext /\ UNCHANGED <<container, setupVars>>

MCNext == RunsSetup \/ RunsEntry

\* The fairness of the two modules: the kubelet starts the container and its
\* commands run.
MCFairness ==
    /\ WF_setupVars(container = "setup" /\ Setup)
    /\ WF_entryVars(container = "entry" /\ Start)

MCSpec == MCInit /\ [][MCNext]_mcVars /\ MCFairness

-----------------------------------------------------------------------------
(* Properties *)

\* dns-setup: no state of the volumes stops a run, and the controller finds a
\* whole, sealed script and a directory of its own.
SetupIsSafe == SetupTypeOK /\ NothingIsDenied /\ RunsWhole

\* entrypoint.sh: the shell hook is there once, or not at all when the user
\* disabled it, and clients see one host key of each type.
EntryIsSafe == EntryTypeOK /\ HookedOnce /\ IdentityIsKept

\* However often a start is cut off the container comes up again; the workload
\* but for a key file that ssh-keygen will not overwrite, or no readable key.
StartsComeUp ==
    /\ container = "setup" => ComesUp
    /\ container = "entry" => ComesUpOrWedged

\* Two types: one key may be lost and the other kept.
MCKeyTypes == <<"ecdsa", "ed25519">>
=============================================================================
