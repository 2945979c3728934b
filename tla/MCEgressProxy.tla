--------------------------- MODULE MCEgressProxy ---------------------------
(* Instances of EgressProxy for TLC. *)
EXTENDS EgressProxy

CONSTANTS c1, c2, c3, registry, other

Text(head, gap, tail, dotted) == [head |-> head, gap |-> gap, tail |-> tail, dotted |-> dotted]
V4(ip) == Text(<<>>, FALSE, <<>>, ip)
V6(head, tail) == Text(head, TRUE, tail, <<>>)
Mapped4(ip) == Text(<<>>, TRUE, <<65535>>, ip)

\* Answers at the edges of the reserved ranges: no address, a private one, one that is
\* mapped into IPv6 beside a public one, one in a special IPv6 range, one outside of
\* 2000::/3 beside a mapped public one, and two public ones.
Edges == {
    {}, {V4(<<172, 31, 255, 255>>)}, {Mapped4(<<10, 0, 0, 1>>), V4(<<172, 32, 0, 0>>)},
    {V6(<<8193, 511>>, <<1>>)}, {V6(<<16384>>, <<>>), Mapped4(<<8, 8, 8, 8>>)},
    {V4(<<100, 63, 255, 255>>), Text(<<8193, 512, 0, 0, 0, 0, 0, 1>>, FALSE, <<>>, <<>>)}}
=============================================================================
