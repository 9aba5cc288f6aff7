--------------------------- MODULE MCCommandQueue ---------------------------
(* An instance of CommandQueue for TLC: two client threads, of which one    *)
(* puts commands on the command queue and one puts questions to its own    *)
(* terminal on a response queue, the server thread and a response thread.  *)
EXTENDS CommandQueue, TLC

CONSTANTS commands, responses,                  \* queues
          client, asker, server, writer         \* threads

FromList == client :> NoList @@ asker :> NoList
            @@ server :> commands @@ writer :> responses
ToList == client :> commands @@ asker :> responses
          @@ server :> responses @@ writer :> NoList

Alike == Permutations(Nodes)
=============================================================================
