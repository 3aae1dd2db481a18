------------------------------ MODULE MCFullTest ------------------------------
(* An instance of FullTest for TLC. *)
EXTENDS FullTestInvariants

MCTmpdirs == <<"tmpdir", "tmpdirA", "tmpdirAA", "tmpdirAAA">>
MCDefects == KnownDefects
UserSymmetry == Permutations(Users)

\* Of two clients on a server with a defect one runs a second time.
DefectBound ==
    defect # "none" => Cardinality(clients) = 1 \/ \E u \in clients : run[u] <= 1
================================================================================
