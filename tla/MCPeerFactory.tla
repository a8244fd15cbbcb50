---------------------------- MODULE MCPeerFactory ---------------------------
(***************************************************************************)
(* A node that knows one seed, of two others, or the first node, which has *)
(* no seed and is told where to listen.                                    *)
(***************************************************************************)
EXTENDS PeerFactory, TLC

MCAddrOf == "n1" :> "a1" @@ "n2" :> "a2" @@ "self" :> "a0"
MCStarts == {[seeds |-> <<"a1">>, local |-> ""], [seeds |-> <<>>, local |-> "a0"]}
\* A peer's list: the other node, and this one.
MCOffers == {"n2" :> "a2" @@ "self" :> "a0"}

=============================================================================
