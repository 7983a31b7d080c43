--------------------------- MODULE MCContentFeed ---------------------------
(* Instances of ContentFeed for TLC. *)
EXTENDS ContentFeed, TLC

\* Calls are interchangeable: no definition names one.
CallSymmetry == Permutations(Callers)

\* Every listing of up to three offers of these kinds: below and at the
\* least reputation, above the cap, with and without the preferred method.
SomeOffers == [reputation : {-1, 0, 50, 120}, rate : {1, 3}, methods : {{"sbp"}, {"wire"}}]

Numbered(offers) ==
  [i \in DOMAIN offers |->
     [id |-> i, reputation |-> offers[i].reputation, rate |-> offers[i].rate,
      methods |-> offers[i].methods]]

SomeListings == {Numbered(offers) : offers \in UNION {[1..n -> SomeOffers] : n \in 0..2}}
                  \cup {Numbered(offers) : offers \in
                          [1..3 -> {o \in SomeOffers : o.reputation \in {-1, 50}}]}

\* Lists that reorder, repeat, leave out or invent offers.
SomeReplies == {"unusable", <<>>, <<2>>, <<3, 1, 2>>, <<9, 2, 2>>}

SomePeers == [trust : {49, 50, 80}, debt : {0, 7}]

SomePeerLists == UNION {[1..n -> SomePeers] : n \in 0..3}
=============================================================================
