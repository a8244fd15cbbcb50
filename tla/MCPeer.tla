------------------------------- MODULE MCPeer -------------------------------
(***************************************************************************)
(* Two ends whose topics ask for commands: every command at one end with   *)
(* every command and a transaction at the other, and two at each.          *)
(***************************************************************************)
EXTENDS Peer, TLC

Once(cs) == [c \in Command |-> IF c \in cs THEN 1 ELSE 0]
Asked(cs, ds) == Initiator :> Once(cs) @@ Acceptor :> Once(ds)

MCEvents == {Asked({c}, {d, "new-tx"}) : c, d \in Command}
              \cup {Asked({"announce-addr", "new-tx"}, {"peer-addrs", "new-tx"})}

=============================================================================
