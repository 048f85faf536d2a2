---------------------------- MODULE ResolverData ----------------------------
(* The data the DNS controller moves: resolver files, LocalAPI statuses and  *)
(* Corefiles, and the pure functions dns-controller.py computes on them.     *)
(*                                                                           *)
(* A resolv.conf is its nameserver directives in file order and the rest of  *)
(* its bytes, which no function here inspects; a directive the parser would  *)
(* call malformed or unusable is one whose address is outside Usable.  A     *)
(* Corefile is the generated text's variable parts: the MagicDNS zone with   *)
(* its health-check name and upstreams, and the root zone's upstreams.       *)
EXTENDS Sequences

CONSTANTS
    Usable,     \* addresses _usable_ip(forbid_magic=True) accepts
    V4,         \* the IPv4 members of Usable
    Magic4,     \* 100.100.100.100
    Magic6,     \* fd7a:115c:a1e0::53
    Listener,   \* 127.0.0.1, where CoreDNS listens
    BadAddr,    \* any other directive: malformed, unspecified, multicast, ...
    Rest,       \* everything in a resolv.conf besides its nameserver lines
    Suffixes,   \* MagicDNS suffixes
    Names,      \* well formed absolute DNS names
    SuffixOf,   \* the suffix a name lies strictly under
    NoName      \* a suffix or name that is missing or not a DNS name

Magic == {Magic4, Magic6}
Addr  == Usable \cup Magic \cup {Listener, BadAddr}

ASSUME ResolverDataAssumption ==
    /\ V4 \subseteq Usable
    /\ Usable \cap (Magic \cup {Listener, BadAddr}) = {}
    /\ Listener \notin Magic \cup {BadAddr}
    /\ BadAddr \notin Magic
    /\ SuffixOf \in [Names -> Suffixes]
    /\ NoName \notin Names \cup Suffixes

-----------------------------------------------------------------------------
(* resolv.conf *)

RawFiles == [ns : Seq(Addr), rest : Rest]

Members(s) == {s[i] : i \in DOMAIN s}

\* Mutant of Parses: accepts recursive and unusable nameservers.
ParsesAnyAddress(raw) == raw \in RawFiles /\ raw.ns # << >>

\* parse_resolv_conf: every directive must be usable and there must be one.
Parses(raw) == /\ raw \in RawFiles
               /\ raw.ns # << >>
               /\ Members(raw.ns) \subseteq Usable

Snapshots == {raw \in RawFiles : Parses(raw)}

\* The first nameserver line becomes the listener, the other ones go.
MakeClient(raw) == [ns |-> <<Listener>>, rest |-> raw.rest]

-----------------------------------------------------------------------------
(* LocalAPI status and discovery *)

StatusValues == [running : BOOLEAN, magicDNS : BOOLEAN,
                 suffix  : Suffixes \cup {NoName},
                 self    : Names \cup {NoName},
                 ips     : SUBSET Addr]

Discoveries == [suffix : Suffixes, self : Names, magic : Magic]

\* The discoveries make_active_corefile accepts.
SoundDiscovery(d) == d \in Discoveries /\ SuffixOf[d.self] = d.suffix

\* Mutant of Discoverable: takes any suffix.
DiscoverableAnySuffix(st) ==
    /\ st.running
    /\ st.magicDNS
    /\ st.self \in Names
    /\ st.ips # {}
    /\ st.ips \subseteq Usable

\* Mutant of Discoverable: a self name outside the suffix will do.
DiscoverableAnySelf(st) ==
    /\ st.running
    /\ st.magicDNS
    /\ st.suffix \in Suffixes
    /\ st.self \in Names
    /\ st.ips # {}
    /\ st.ips \subseteq Usable

\* discovery_from_status raises ControllerError unless all of these hold.
Discoverable(st) ==
    /\ st.running
    /\ st.magicDNS
    /\ st.suffix \in Suffixes
    /\ st.self \in Names
    /\ SuffixOf[st.self] = st.suffix
    /\ st.ips # {}
    /\ st.ips \subseteq Usable

\* Mutant of DiscoveryFromStatus: asks the node's own address.
DiscoveryAskingSelf(st) ==
    [suffix |-> st.suffix, self |-> st.self, magic |-> CHOOSE a \in st.ips : TRUE]

DiscoveryFromStatus(st) ==
    [suffix |-> st.suffix, self |-> st.self,
     magic  |-> IF st.ips \cap V4 # {} THEN Magic4 ELSE Magic6]

-----------------------------------------------------------------------------
(* Corefile *)

Corefiles == [zone : Suffixes \cup {NoName}, self : Names \cup {NoName},
              zoneUp : Seq(Addr), up : Seq(Addr)]

ClusterCorefile(ns) ==
    [zone |-> NoName, self |-> NoName, zoneUp |-> << >>, up |-> ns]

\* The suffix zone asks MagicDNS first and falls over to the cluster.
ActiveCorefile(ns, d) ==
    [zone |-> d.suffix, self |-> d.self, zoneUp |-> <<d.magic>> \o ns, up |-> ns]

\* _validate_corefile: exactly what the two generators can write for ns.
ValidCorefile(c, ns) ==
    \/ c = ClusterCorefile(ns)
    \/ \E d \in Discoveries : SoundDiscovery(d) /\ c = ActiveCorefile(ns, d)

\* No query CoreDNS forwards comes back to CoreDNS: not through its own
\* listener, and through MagicDNS only for the tailnet's suffix.
LoopFree(c) ==
    /\ Listener \notin Members(c.up) \cup Members(c.zoneUp)
    /\ Members(c.up) \cap Magic = {}
    /\ \A i \in DOMAIN c.zoneUp : i # 1 => c.zoneUp[i] \notin Magic
=============================================================================
