------------------------ MODULE MCLegacyInterview ------------------------
(* A small instance of LegacyInterview: an admission with a cost, a letter of  *)
(* another school, and the parents' proof of too little money.                 *)
EXTENDS LegacyInterview, TLC

CONSTANTS i20, letter, north, south, own

Value(s, f) == (School :> s) @@ (Passport :> None) @@ (Funding :> f)

MCFiles == {File(i20, Value(north, None), 2, None, FALSE, FALSE, TRUE, TRUE),
            File(letter, Value(south, None), None, None, TRUE, FALSE, TRUE, FALSE),
            File(Proof, Value(None, Parents), None, 1, FALSE, FALSE, TRUE, TRUE)}

Text(source, mentions, explicit, undecided, corrects, confesses) ==
    [source |-> source, mentions |-> mentions, explicit |-> explicit, undecided |-> undecided,
     corrects |-> corrects, confesses |-> confesses]

\* "Actually I will pay myself, not my parents"; "I lied: my parents may pay, it is not
\* decided yet".
MCTexts == {Text(own, {own, Parents}, TRUE, FALSE, TRUE, FALSE),
            Text(Parents, {Parents}, FALSE, TRUE, FALSE, TRUE)}

MCUpdates == {None, [state |-> "claimed", value |-> own, refs |-> {}]}

MCProposals == {None, [flags |-> {}, missing |-> {Proof}]}

MCReviews == {None, Blank("reviewed")}

Proposed(decision, requested, kind, doc) ==
    [decision |-> decision, requested |-> requested, kind |-> kind, doc |-> doc]

MCActions == {Proposed("continue_interview", <<i20>>, "interview_question", None),
              Proposed("need_more_evidence", <<Proof, i20>>, "required_document", None),
              Proposed("simulated_refusal", <<>>, "refusal", None)}

MCBoards == {[conflicts |-> <<>>, open |-> FALSE],
             [conflicts |-> <<Conflict("claim", "high", "plain", {School}, {}, {i20})>>, open |-> FALSE]}
===========================================================================
