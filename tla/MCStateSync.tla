----------------------------- MODULE MCStateSync -----------------------------
EXTENDS StateSync

MCClients == {"a", "b", "c"}
MCKeys == {"shape", "color"}
MCPatches == [c \in MCClients |-> CASE c = "a" -> <<{"shape", "color"}, {"color"}>>
                                    [] c = "b" -> <<{"shape"}>>
                                    [] OTHER -> <<>>]
=============================================================================
