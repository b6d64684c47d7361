------------------------------- MODULE MCHotZone -------------------------------
(* Model checking of HotZone: two children of one zone below a built-in suffix,
   and a name in a forwarding zone of one label, which is never a candidate. *)
EXTENDS HotZone, TLC

Com == <<"com">>
XCom == <<"x", "com">>
Corp == <<"corp">>

MCQuestions ==
    { [qname |-> <<"a">> \o XCom, zone |-> None],
      [qname |-> <<"b">> \o XCom, zone |-> None],
      [qname |-> <<"p">> \o Corp, zone |-> Corp] }

Alphabetical ==
    << <<"a">> \o XCom, <<"b">> \o XCom, Com, Corp, <<"p">> \o Corp, XCom >>

MCBefore(y, z) ==
    \E i, j \in 1 .. Len(Alphabetical) :
        i < j /\ Alphabetical[i] = y /\ Alphabetical[j] = z

MCBaseSuffixes == {Com}

Permuted == Permutations(Requests)
=============================================================================
