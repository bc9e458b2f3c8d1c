------------------------------ MODULE MCDecode ------------------------------
(* Schemas for Decode: table 1 swaps its columns, then is renamed with a    *)
(* column more; table 2 stays as it is.                                     *)
EXTENDS Decode

MCSchemas ==
    << << [name |-> "a", columns |-> <<"x", "y">>],
          [name |-> "a", columns |-> <<"y", "x">>],
          [name |-> "b", columns |-> <<"y", "x", "z">>] >>,
       << [name |-> "c", columns |-> <<"x">>] >> >>
=============================================================================
