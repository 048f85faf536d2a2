------------------------------ MODULE MCPodDns ------------------------------
(* TLC instance of PodDns.                                                   *)
EXTENDS PodDns, TLC

CONSTANTS u1, u2, t6, m4, m6, lo, bad, r1, s1, s2, n1, n2, p1

MCSuffixOf == (n1 :> s1) @@ (n2 :> s2)

MCResolv == {[ns |-> <<u1>>, rest |-> r1], [ns |-> <<u2, u1>>, rest |-> r1]}

Up(suffix, self, ips) ==
    [running |-> TRUE, magicDNS |-> TRUE, suffix |-> suffix, self |-> self, ips |-> ips]

MCStatuses == {Up(s1, n1, {u1}), Up(s2, n2, {t6})}

\* Two tailnets in order, one of which has no health yet, one unreachable, one
\* that does not resolve, and one whose node name has left the suffix.
MCTailscale ==
    {[status |-> Up(s1, n1, {u1}), api |-> TRUE, dns |-> TRUE, healthy |-> TRUE],
     [status |-> Up(s2, n2, {t6}), api |-> TRUE, dns |-> TRUE, healthy |-> FALSE],
     [status |-> Up(s1, n1, {u1}), api |-> FALSE, dns |-> TRUE, healthy |-> FALSE],
     [status |-> Up(s1, n1, {u1}), api |-> TRUE, dns |-> FALSE, healthy |-> TRUE],
     [status |-> Up(s2, n1, {u1}), api |-> TRUE, dns |-> TRUE, healthy |-> TRUE]}
=============================================================================
