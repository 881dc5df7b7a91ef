---------------------------- MODULE MCInterview ----------------------------
(* A small instance of Interview for TLC.                                  *)
EXTENDS Interview

Claim(id, field, value) ==
    [id |-> id, field |-> field, value |-> value, status |-> "documented",
     sup |-> {id}, con |-> {}]

Card(id) == [id |-> id, source |-> "uploaded_file", refs |-> {id}]

\* A statement of the parents' bank that shows tuition paid to one school, an
\* employer's letter that speaks for itself in part, another school's letter.
MCResults ==
    {[claims |-> <<Claim(<<"bank", 1>>, Funding, "parents"),
                   Claim(<<"bank", 2>>, "/education/school", "MIT")>>,
      evidence |-> <<Card(<<"bank", 1>>), Card(<<"bank", 2>>)>>,
      proofs |-> <<>>, conflicts |-> <<>>, followups |-> <<>>],
     [claims |-> <<[Claim(<<"employer", 1>>, Funding, "employer")
                      EXCEPT !.con = {<<"employer", 2>>}]>>,
      evidence |-> <<Card(<<"employer", 1>>), [Card(<<"employer", 2>>) EXCEPT !.refs = {}]>>,
      proofs |-> <<[id |-> "salary", document |-> "payslip", status |-> "partial"]>>,
      conflicts |-> <<>>, followups |-> <<>>],
     [claims |-> <<Claim(<<"school", 1>>, "/education/school", "NYU")>>,
      evidence |-> <<Card(<<"school", 1>>)>>,
      proofs |-> <<[id |-> "admission", document |-> "i20", status |-> "satisfied"]>>,
      conflicts |-> <<>>, followups |-> <<[claims |-> {<<"school", 1>>}, evidence |-> {}]>>]}

Message(id, topic, plain, closes) ==
    [id |-> id, topic |-> topic, plain |-> plain, acknowledges |-> FALSE, closes |-> closes]

MCGateMessage == Message("family", None, FALSE, FALSE)

MCReplies ==
    {[says |-> "family", topic |-> "funding", told |-> TRUE, complains |-> FALSE],
     [says |-> None, topic |-> None, told |-> TRUE, complains |-> TRUE]}

Output(decision, asks, message) ==
    [decision |-> decision, asks |-> asks, message |-> message,
     next |-> IF decision = "simulated_refusal" THEN "end_session" ELSE "continue_interview"]

MCOutputs ==
    {Output("continue_interview", {"i20"}, Message("end", None, FALSE, TRUE)),
     Output("continue_interview", {}, Message("job", "post_study_plan", TRUE, FALSE)),
     Output("need_more_evidence", {"funding_proof"}, Message("bank", "funding", FALSE, FALSE)),
     Output("simulated_refusal", {}, Message("refused", None, FALSE, FALSE))}
=============================================================================
