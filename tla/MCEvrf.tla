-------------------------------- MODULE MCEvrf ------------------------------
(***************************************************************************)
(* The two backends on small curves: y^2 = x^3 + x + 18 over the field of  *)
(* 53 elements, of prime order 43, and -u^2 + v^2 = 1 + 2 u^2 v^2 over the *)
(* field of 61 elements, of order 8 * 7.  The bits of a decomposition are  *)
(* one more than the field needs, as in the code.                          *)
(***************************************************************************)
EXTENDS EvrfSession, Curves

Chord ==
    [kind |-> "chord", p |-> 53, q |-> 43, k_bits |-> 6, interval |-> 2,
     p_le |-> <<53>>, q_le |-> <<43>>, rest_le |-> <<10>>,
     coordinates |-> WeierstrassTable(<<2, 9>>, 1, 53, 43),
     correction |-> [x \in 0..42 |-> LET y == (x * x + 4 * x + 5) % 43 IN IF y = 0 THEN 1 ELSE y],
     hashes |-> [m1 |-> <<11, 20>>, m2 |-> <<25, 6>>],
     shared_multipliers |-> 29, receiver_multipliers |-> 88]

Edwards ==
    [kind |-> "edwards", p |-> 61, q |-> 7, k_bits |-> 6, d |-> 2,
     p_le |-> <<61>>, q_le |-> <<7>>, rest_le |-> <<5>>,
     coordinates |-> EdwardsTable(<<14, 27>>, 2, 61, 7),
     hashes |-> [m1 |-> <<3, 5>>, m2 |-> <<2, 6>>],
     shared_multipliers |-> 38, receiver_multipliers |-> 140]

MCSuites == [chord |-> Chord, edwards |-> Edwards]

Dealing(msg, beta, sk, keys, polynomial) ==
    [msg |-> msg, beta |-> beta, sk |-> sk, keys |-> keys, polynomial |-> polynomial]

MCDealings ==
    [chord |-> {Dealing("m1", 5, 7, <<8, 13>>, <<3, 9>>),
                Dealing("m1", 0, 22, <<30>>, <<0>>),
                Dealing("m2", 41, 16, <<11, 40>>, <<12, 0>>),
                Dealing("m2", 17, 9, <<24, 10>>, <<4>>)},
     edwards |-> {Dealing("m1", 29, 2, <<3, 5>>, <<3, 2>>),
                  Dealing("m1", 0, 4, <<5>>, <<0>>),
                  Dealing("m2", 6, 6, <<3, 5>>, <<1, 0>>),
                  Dealing("m2", 2, 5, <<6, 2>>, <<4>>)}]

MCShapes == (0..3) \X (0..3)
=============================================================================
