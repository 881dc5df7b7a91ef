------------------------ MODULE MCDocumentEvidence ------------------------
(* A small instance of DocumentEvidence: three types of documents, one that  *)
(* proves funding, one with a school in it, one that is only required.       *)
EXTENDS DocumentEvidence, TLC

CONSTANTS i20, letter, school, a, b

MCTypes == {FundingProof, i20, letter}
MCFields == {Funding, school}
MCTemplates == {FundingProof, i20}
MCPatterns == (FundingProof :> {}) @@ (i20 :> {school}) @@ (letter :> {})

Fact(f, v) == [field |-> f, value |-> v]

MCFiles == {[kind |-> "pdf", facts |-> {Fact(Funding, b), Fact(school, b)}, keyword |-> TRUE],
            [kind |-> "pdf", facts |-> {Fact(Funding, a), Fact(school, a)}, keyword |-> FALSE],
            [kind |-> "image", facts |-> {}, keyword |-> FALSE],
            [kind |-> "unnamed", facts |-> {}, keyword |-> FALSE]}

MCExtractions == {None, [fields |-> {Fact(school, a), Fact(Funding, b)}, text |-> {}],
                  [fields |-> {}, text |-> {Fact(school, b)}]}

Claim(k, status, support, against) ==
    [id |-> k, field |-> school, status |-> status, support |-> support, against |-> against]

\* Answers a model can give: with claims that cite cards it did not send, and with
\* claims alone.
MCAnswers == {None,
    [cards |-> {[id |-> <<"c1">>, refs |-> {<<"k1">>, <<"k9">>}]},
     claims |-> {Claim(<<"k1">>, "documented", {<<"c1">>}, {}), Claim(<<"k2">>, "documented", {<<"c9">>}, {}),
                 Claim(<<"k3">>, "contradicted", {<<"c1">>}, {}), Claim(<<"k4">>, None, {<<"c1">>}, {})}],
    [cards |-> {}, claims |-> {Claim(<<"k1">>, "contradicted", {}, {<<"c9">>})}]}

Symmetric == Permutations(Documents)
===========================================================================
