--------------------------- MODULE MCDnsController ---------------------------
(* TLC instance of DnsController.                                            *)
EXTENDS DnsController, TLC

CONSTANTS u1, u2, t6, m4, m6, lo, bad, r1, r2, s1, s2, n1, n2, p1, p2

MCSuffixOf == (n1 :> s1) @@ (n2 :> s2)

File(ns, rest) == [ns |-> ns, rest |-> rest]

\* Two originals with one client file between them, one with another client
\* file, and what the parser must refuse: recursion, the listener, nothing.
MCResolv == {File(<<u1, u2>>, r1), File(<<u2>>, r1), File(<<u1>>, r2),
             File(<<u1, m4>>, r1), File(<<lo>>, r1), File(<< >>, r2)}

Status(running, on, suffix, self, ips) ==
    [running |-> running, magicDNS |-> on, suffix |-> suffix, self |-> self, ips |-> ips]

\* Two tailnets, one IPv6 only, and one status per check of
\* discovery_from_status that fails it.
MCStatuses ==
    {Status(TRUE, TRUE, s1, n1, {u1, t6}), Status(TRUE, TRUE, s2, n2, {t6}),
     Status(FALSE, TRUE, s1, n1, {u1}), Status(TRUE, FALSE, s1, n1, {u1}),
     Status(TRUE, TRUE, NoName, n1, {u1}), Status(TRUE, TRUE, s1, NoName, {u1}),
     Status(TRUE, TRUE, s2, n1, {u1}), Status(TRUE, TRUE, s1, n1, {}),
     Status(TRUE, TRUE, s1, n1, {u1, m4})}
=============================================================================
