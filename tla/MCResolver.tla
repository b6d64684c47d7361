---------------------------- MODULE MCResolver ----------------------------
(* The root, a glued zone a and a glueless zone b whose two servers live in *)
(* a; aliases across zones, to a missing name and in a cycle.  The root's   *)
(* server is a host of a.                                                   *)
EXTENDS Resolver, TLC

a == <<"a">>
b == <<"b">>
Sub(zone, label) == Append(zone, label)

HostRecord(n) == [name |-> n, type |-> "A", data |-> n]
AliasRecord(n, target) == [name |-> n, type |-> "CNAME", data |-> target]

MCZones == {<<>>, a, b}
MCNSNames == (<<>> :> {Sub(a, "root")}) @@ (a :> {Sub(a, "x")}) @@ (b :> {Sub(a, "y"), Sub(a, "z")})
MCRecords == {HostRecord(n) : n \in {Sub(a, "root"), Sub(a, "x"), Sub(a, "y"), Sub(a, "z"), Sub(b, "www")}}
             \cup {AliasRecord(Sub(a, "www"), Sub(b, "www")), AliasRecord(Sub(a, "old"), Sub(a, "gone")),
                   AliasRecord(Sub(b, "p"), Sub(b, "q")), AliasRecord(Sub(b, "q"), Sub(b, "p"))}
MCGlued == {<<>>, a}

\* One request asks anything of servers of any style.
AnyStyle == {{}, {"authority", "chase"}, {"noSOA"}}
AnyQuestion == {[name |-> Sub(a, "www"), type |-> "A"], [name |-> Sub(a, "old"), type |-> "A"],
                [name |-> Sub(b, "www"), type |-> "AAAA"], [name |-> Sub(b, "p"), type |-> "A"],
                [name |-> <<"h">>, type |-> "A"], [name |-> <<"h">>, type |-> "AAAA"],
                [name |-> <<"f", "n">>, type |-> "A"]}

\* A name of the hosts section, and a zone that is forwarded.
MCHostsMap == <<HostRecord(<<"h">>)>>
MCForwardZones == {<<"f">>}
MCForwardRecords == {HostRecord(<<"f", "n">>)}

\* Two requests share the cache; b has one server.
SharedNSNames == [MCNSNames EXCEPT ![b] = {Sub(a, "y")}]
SharedStyle == {{"authority"}, {}}
SharedQuestion == {[name |-> Sub(a, "www"), type |-> "A"], [name |-> Sub(b, "www"), type |-> "A"]}
\* An alias across zones, and servers whose answers name the zone's servers
\* but carry no addresses.
BareStyle == {{"authority", "bare"}}
AliasQuestion == {[name |-> Sub(a, "www"), type |-> "A"]}

Interchangeable == Permutations(Requests)
=============================================================================
