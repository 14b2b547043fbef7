------------------------------ MODULE MCRouting ------------------------------
(* Two models of a middle tier under one quota, the second of them local, and *)
(* a weak one under another quota.                                            *)
EXTENDS Routing

ModelOrder == <<"a", "b", "w">>
Tiering == [a |-> 1, b |-> 1, w |-> 0]
Quotas == [a |-> "p", b |-> "p", w |-> "q"]
Abilities == [a |-> {"vision"}, b |-> {}, w |-> {}]
Nearby == {"b"}
ByTier == [t \in 0..2 |-> CASE t = 0 -> <<"w">> [] t = 1 -> <<"a", "b">> [] t = 2 -> <<>>]
Default == <<"a", "b", "w">>
Multimodal == [vision |-> <<"a">>]

Plain == [names |-> NoModel, static |-> <<>>, requires |-> {}, near |-> FALSE,
          aux |-> FALSE, floor |-> 0, large |-> FALSE, fits |-> Models]
Auxiliary == [Plain EXCEPT !.aux = TRUE]
AllAsks == {Plain, Auxiliary,
            [Plain EXCEPT !.requires = {"vision"}],
            [Plain EXCEPT !.near = TRUE, !.large = TRUE, !.floor = 1],
            [Plain EXCEPT !.static = <<"b", "w">>],
            [Plain EXCEPT !.names = "w"]}
=============================================================================
