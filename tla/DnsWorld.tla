----------------------------- MODULE DnsWorld -----------------------------
(***************************************************************************)
(* The name servers rec53 resolves against: an external part, modelled     *)
(* from what the resolver reads of their messages.  The world is static    *)
(* and consistent: delegations, records and servers do not contradict each *)
(* other, and a server answers from the deepest zone it serves.            *)
(*                                                                         *)
(* A name is the sequence of its labels, the root's side first, so a zone  *)
(* is a prefix of the names in it.  The address of a host is its name.  An *)
(* authority section is a sequence of [type, zone]: the NS records of a    *)
(* zone are one element.                                                   *)
(***************************************************************************)
EXTENDS Naturals, Sequences, FiniteSets

CONSTANTS Zones,    \* the apexes of the zones, the root <<>> among them
          Records,  \* the A and CNAME records, as [name, type, data]
          NSNames,  \* the hosts that serve a zone
          Glued,    \* the zones whose referrals carry the addresses of their hosts
          Styles    \* how servers may compose a reply, as sets of the flags of Flags

\* authority: an answer names the zone's servers, with the addresses the zone
\* itself holds unless bare; chase: aliases inside the zone are followed;
\* noSOA: a negative answer has an empty authority section.
Flags == {"authority", "bare", "chase", "noSOA"}

\* dns.IsSubDomain
IsSubDomain(parent, child) ==
    Len(parent) <= Len(child) /\ SubSeq(child, 1, Len(parent)) = parent

Targets == {r.data : r \in {s \in Records : s.type = "CNAME"}}
Hosts == UNION {NSNames[z] : z \in Zones}
Names == Zones \cup {r.name : r \in Records} \cup Targets \cup Hosts

At(name, type) == {r \in Records : r.name = name /\ r.type = type}
AliasOf(name) == (CHOOSE r \in At(name, "CNAME") : TRUE).data
Exists(name) ==
    \/ \E r \in Records : IsSubDomain(name, r.name)
    \/ \E z \in Zones : IsSubDomain(name, z)

ASSUME WorldAssumption ==
    /\ <<>> \in Zones /\ Zones \subseteq Seq(STRING)
    /\ Records \subseteq [name : Seq(STRING), type : {"A", "CNAME"}, data : Seq(STRING)]
    /\ IsFiniteSet(Records)
    /\ NSNames \in [Zones -> SUBSET {r.name : r \in Records}]
    /\ (\A z \in Zones : NSNames[z] # {}) /\ <<>> \notin Hosts
    /\ Glued \subseteq Zones /\ <<>> \in Glued
    /\ Styles \subseteq SUBSET Flags
    /\ \A r \in Records :
        /\ r.type = "A" => r.data = r.name
        /\ r.type = "CNAME" => At(r.name, "A") = {} /\ r.name \notin Hosts
    /\ \A r, s \in Records : r.name = s.name /\ r.type = s.type => r = s

-----------------------------------------------------------------------------
(* What a server answers *)

NS(z) == [type |-> "NS", zone |-> z]
SOA(z) == [type |-> "SOA", zone |-> z]

\* The zones host n serves that hold the name, and the zone it answers from.
Serving(n, name) == {z \in Zones : n \in NSNames[z] /\ IsSubDomain(z, name)}
Deepest(S) == CHOOSE z \in S : \A y \in S : Len(y) <= Len(z)

\* The zones delegated below z on the way to the name.
Cuts(z, name) == {c \in Zones : c # z /\ IsSubDomain(z, c) /\ IsSubDomain(c, name)}
Nearest(S) == CHOOSE c \in S : \A y \in S : Len(c) <= Len(y)

Authority(z, style) == IF "authority" \in style THEN <<NS(z)>> ELSE <<>>
Additional(z, style) ==
    IF "authority" \in style /\ "bare" \notin style
    THEN {n \in NSNames[z] : IsSubDomain(z, n)} ELSE {}
Negative(z, style) == IF "noSOA" \in style THEN <<>> ELSE <<SOA(z)>>

\* The records of a name in the server's own zone, no alias followed.
Plain(z, name, type, style) ==
    LET found == At(name, type) \cup At(name, "CNAME")
    IN  [rcode  |-> IF Exists(name) THEN "NOERROR" ELSE "NXDOMAIN",
         answer |-> IF found = {} THEN <<>> ELSE <<CHOOSE r \in found : TRUE>>,
         ns     |-> IF found = {} THEN Negative(z, style) ELSE Authority(z, style),
         extra  |-> IF found = {} THEN {} ELSE Additional(z, style)]

\* A server that follows an alias inside its zone puts the target's records,
\* Rcode and authority behind the alias.
InZone(z, name, type, style) ==
    LET first == Plain(z, name, type, style)
        rest == Plain(z, AliasOf(name), type, style)
    IN  IF "chase" \in style /\ type # "CNAME" /\ At(name, "CNAME") # {}
              /\ IsSubDomain(z, AliasOf(name)) /\ Cuts(z, AliasOf(name)) = {}
        THEN [rest EXCEPT !.answer = first.answer \o rest.answer]
        ELSE first

Reply(n, name, type, style) ==
    LET zones == Serving(n, name)
        z == Deepest(zones)
        cuts == Cuts(z, name)
        c == Nearest(cuts)
    IN  IF zones = {}
        THEN [rcode |-> "REFUSED", answer |-> <<>>, ns |-> <<>>, extra |-> {}]
        ELSE IF cuts # {}
        THEN [rcode |-> "NOERROR", answer |-> <<>>, ns |-> <<NS(c)>>,
              extra |-> IF c \in Glued THEN NSNames[c] ELSE {}]
        ELSE InZone(z, name, type, style)

-----------------------------------------------------------------------------
(* What the world says of a question: the reference the resolver is held to *)

\* The name so many aliases further on, or at their end.
Canonical[hops \in 0 .. Cardinality(Records)] ==
    [name \in Seq(STRING) |->
        IF hops = 0 \/ At(name, "CNAME") = {} THEN name
        ELSE Canonical[hops - 1][AliasOf(name)]]

EndOf(name, type) ==
    IF type = "CNAME" THEN name ELSE Canonical[Cardinality(Records)][name]

\* The aliases of the name lead somewhere.
Resolvable(name, type) == type = "CNAME" \/ At(EndOf(name, type), "CNAME") = {}

TrueRcode(name, type) == IF Exists(EndOf(name, type)) THEN "NOERROR" ELSE "NXDOMAIN"
TrueData(name, type) == At(EndOf(name, type), type)
=============================================================================
