-------------------------- MODULE MCRouteDiscovery --------------------------
(* An instance of MeshNode for TLC. *)
EXTENDS MeshNode

CONSTANTS phone, provider

A(price, bandwidth) ==
  [agent |-> 1, endpoint |-> "relay", price |-> price, bandwidth |-> bandwidth,
   regionValid |-> TRUE]

Rated(service, feedback, reputation) ==
  [feedback |-> feedback, reputation |-> reputation] @@ service

Does(onPhone, onProvider) ==
  [n \in Nodes |-> IF n = phone THEN onPhone ELSE onProvider]

\* The nodes diagnose each other, the phone asks its own, or the provider announces its service.
Diagnoses == Does(<<"DiagnosticRequest", "DiagnosticRequest">>, <<"DiagnosticRequest">>)
Asks == Does(<<"GetPeers", "OpenStream">>, <<>>)
Announces == Does(<<>>, <<"PublishServiceAnnouncement">>)

\* It does so again, and the two may arrive in either order: without the discovery service.
AnnouncesAgain == Does(<<>>, <<"PublishServiceAnnouncement", "PublishServiceAnnouncement">>)

\* The provider's loop may be busy when it is to extend the phone's circuit.
Disturbs == Does(<<"DiagnosticRequest">>, <<>>)

SomeScripts == {Diagnoses, Asks, Announces, AnnouncesAgain, Disturbs}
Discovering == {Announces}
Circuits == {Disturbs}

\* A circuit through the provider and back to the phone.
ThereAndBack == <<provider, phone>>

\* The provider announces the service it also has an offer for.
Services == [n \in Nodes |-> IF n = provider THEN A(2, 50)
               ELSE [A(0, 10) EXCEPT !.agent = 2, !.regionValid = FALSE]]

\* That offer, not rated yet, and a dear one nobody announces.
ChainOffers == <<Rated(A(2, 50), 0, 0),
                 Rated([A(9, 60) EXCEPT !.agent = 3, !.endpoint = "host"], 1, -1)>>

AgentMetrics == [agent \in 1..3 |-> [score |-> 10 * agent, failures |-> agent]]
=============================================================================
