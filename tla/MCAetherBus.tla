----------------------------- MODULE MCAetherBus -----------------------------
(* Two publishers of three messages, the last without a version, and two     *)
(* handlers that share two slots of a bus that starts at most twice.         *)
EXTENDS AetherBusExtreme, TLC

MCPublishers == {"a", "b"}
MCScript == [a |-> <<1, 2>>, b |-> <<3>>]
MCVersionOf == (1 :> 1) @@ (2 :> 2) @@ (3 :> NoVersion)
MCNoVersion == -1
MCHandlers == {1, 2}
MCEarly == {1}
MCFaulty == {1}
MCLimits == {1, 3}
=============================================================================
