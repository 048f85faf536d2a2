-------------------------- MODULE RetainedResolver --------------------------
(* What the controller's state directory promises its readers (the workload  *)
(* containers that mount the client file, CoreDNS, the probes): the original *)
(* is captured once, the client file is derived from it once, and from then  *)
(* on only the Corefile changes, always as a whole and always to one         *)
(* generated for that original.  Until the state is settled a power loss may *)
(* undo it, never alter it.                                                  *)
EXTENDS ResolverData

CONSTANT Absent

VARIABLES original, client, corefile, settled

state == <<original, client, corefile, settled>>

Start == /\ original = Absent
         /\ client = Absent
         /\ corefile = Absent
         /\ settled = FALSE

CaptureOriginal == /\ original = Absent
                   /\ original' \in Snapshots
                   /\ UNCHANGED <<client, corefile, settled>>

DeriveClient == /\ original # Absent
                /\ client = Absent
                /\ client' = MakeClient(original)
                /\ UNCHANGED <<original, corefile, settled>>

Settle == /\ client # Absent
          /\ settled' = TRUE
          /\ UNCHANGED <<original, client, corefile>>

PublishCorefile == /\ client # Absent
                   /\ ValidCorefile(corefile', original.ns)
                   /\ UNCHANGED <<original, client, settled>>

\* The later files go before the earlier ones.
Lose ==
    /\ \/ ~settled /\ original' = Absent
       \/ original' = original
    /\ \/ ~settled /\ client' = Absent
       \/ original' = original /\ client' = client
    /\ \/ corefile' = Absent
       \/ client' # Absent /\ client' = client /\ ValidCorefile(corefile', original.ns)
    /\ settled' \in BOOLEAN
    /\ settled => settled'
    /\ settled' => client' # Absent

Step == CaptureOriginal \/ DeriveClient \/ Settle \/ PublishCorefile \/ Lose

Promise == Start /\ [][Step]_state
=============================================================================
