------------------------- MODULE MCSemanticService --------------------------
(* Small sets of clients, vaults and daemons for SemanticService.          *)
EXTENDS SemanticService

CONSTANTS s1, s2,   \* two MCP servers
          v1, v2,   \* two vaults
          m1, m2    \* two model labels

OneServer  == {s1}
TwoServers == {s1, s2}
OneVault   == {v1}
TwoVaults  == {v1, v2}
BothModels == {m1, m2}
AutoFirst  == [c \in Clients |-> IF c = s1 THEN "auto" ELSE "daemon"]
AllDaemon  == [c \in Clients |-> "daemon"]
AllLocal   == [c \in Clients |-> "local"]
SameVault  == [c \in Clients |-> v1]
=============================================================================
