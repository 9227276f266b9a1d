------------------------ MODULE MCDistributedGateway ------------------------
EXTENDS DistributedGateway

MCNodes == {"n1", "n2"}
MCUsers == {"u", "v"}
MCRooms == {"r", "q"}
MCEntrances == {<<"n1", "u", "r">>, <<"n1", "v", "q">>}
MCCasts == <<[node |-> "n1", room |-> "r", priority |-> "state"],
             [node |-> "n2", room |-> "r", priority |-> "perceptual_effect"],
             [node |-> "n1", room |-> "r", priority |-> "telemetry"]>>
=============================================================================
