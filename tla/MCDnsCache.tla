----------------------------- MODULE MCDnsCache -----------------------------
EXTENDS DnsCache

MCQuestions == {"www A"}
MCZones == {"zone"}

(* A short-lived answer with a long-lived delegation, an answer of TTL 0 too
   large for the BPF map, and the news that the name is gone. *)
MCMessages ==
    LET base == [question |-> "www A", zone |-> "zone", answer |-> NoRR, ns |-> NoRR,
                 more |-> {}, soa |-> NoRR, small |-> TRUE]
    IN  { [base EXCEPT !.answer = 1, !.ns = 3, !.more = {2}],
          [base EXCEPT !.answer = 0, !.ns = 2, !.small = FALSE],
          [base EXCEPT !.soa = 1, !.more = {2}] }
=============================================================================
