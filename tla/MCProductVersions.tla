-------------------------- MODULE MCProductVersions --------------------------
(***************************************************************************)
(* Two products that share core/gcc/5.3.0 and tools/chrpath, whose         *)
(* REQUIRES name another binutils under each version and nothing under the *)
(* default one.                                                            *)
(***************************************************************************)
EXTENDS ProductVersionsInvariant, FiniteSets, TLC

Products == {"product-1.1.0", "product-1.1.1"}

Components == Products \cup {"chrpath", "gcc", "binutils-2.25.1", "binutils-2.26"}

ComponentDir == [c \in Components |-> c]

Nothing == [c \in Components |-> {}]

RequiresOf ==
    "1.0.0" :> Nothing @@
    "1.1.0" :> [Nothing EXCEPT !["product-1.1.0"] = {"gcc", "chrpath"},
                               !["chrpath"] = {"gcc"},
                               !["gcc"] = {"binutils-2.25.1"}] @@
    "1.1.1" :> [Nothing EXCEPT !["product-1.1.1"] = {"gcc", "chrpath"},
                               !["chrpath"] = {"gcc"},
                               !["gcc"] = {"binutils-2.26"}]

ReachableFrom(graph, c) ==
    LET R[n \in Nat] ==
            IF n = 0 THEN graph[c]
            ELSE R[n - 1] \cup UNION {graph[d] : d \in R[n - 1]}
    IN  R[Cardinality(DOMAIN graph)]

TreeOf == [v \in DOMAIN RequiresOf |->
              [c \in Components |-> ReachableFrom(RequiresOf[v], c)]]

UserMakes ==
    {[component |-> "product-1.1.0", version |-> "1.1.0"],
     [component |-> "product-1.1.1", version |-> "1.1.1"],
     [component |-> "chrpath", version |-> "1.0.0"]}

=============================================================================
