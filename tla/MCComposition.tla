--------------------------- MODULE MCComposition ----------------------------
(* Composition with every kind of command line of up to two arguments.  The*)
(* largest UINT is 15, so that 16 is the first value refused; 10 stands    *)
(* for a character that is no digit.                                       *)
EXTENDS Composition

Arg(name, digits) == [name |-> name, digits |-> digits]

Arguments ==
    {Arg("--fake", << >>), Arg("--mock-csv", << >>), Arg("--mock-csv", <<1>>),
     Arg("--smoke-exit-ms", <<1, 5>>), Arg("--smoke-exit-ms", <<1, 6>>),
     Arg("--smoke-exit-ms", <<0>>), Arg("--smoke-exit-ms", <<1, 10>>),
     Arg("--other", << >>)}

MCCommandLines ==
    {<< >>} \cup {<<a>> : a \in Arguments} \cup {<<a, b>> : a, b \in Arguments}
=============================================================================
