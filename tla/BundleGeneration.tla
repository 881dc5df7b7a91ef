-------------------------- MODULE BundleGeneration --------------------------
(***************************************************************************)
(* The calls of the language model that make one bundle of materials: a    *)
(* plan of the facts, one call for each required document, a summary.      *)
(*                                                                         *)
(* The content of a document is left out: an answer that parses and passes *)
(* the validators of its text and its fields is "valid".                   *)
(***************************************************************************)
EXTENDS Naturals, Sequences, SequencesExt

CONSTANTS
    Required,       \* sequence of the document types the visa family asks for
    Core,           \* types without which no bundle is one: ds160, passport_bio
    MinDocuments,   \* documents a bundle has at least
    MaxRetries,     \* times a call that did not get through is repeated
    Attempts        \* times a document is asked for

ASSUME RequiredTypes == Required \in Seq(STRING) /\ IsInjective(Required)
ASSUME GenerationBounds == MinDocuments \in Nat /\ MaxRetries \in Nat /\ Attempts \in Nat \ {0}

RequiredSet == ToSet(Required)

\* How a call ends.  "lost" stands for connection errors, timeouts and answers
\* 5xx; "refused" for answers 4xx; "invalid" for an answer that is no JSON
\* object or fails a validator, and for a model that is not configured.
Outcomes == {"valid", "invalid", "lost", "refused"}

\* The work that is left: what is asked for next, how often it was.
Planning == [pc |-> "plan", made |-> <<>>, attempt |-> 1, retry |-> 0]

Asking(g) == g.pc \in {"plan", "document", "summary"}

\* What is asked for once the documents in made are there.
NextCall(g, made) ==
    [pc |-> IF Len(made) = Len(Required) THEN "summary" ELSE "document",
     made |-> made, attempt |-> 1, retry |-> 0]

\* The bundle's validator and _validate_required_documents.
Accepted(made) ==
    /\ Len(made) >= MinDocuments
    /\ Core \cup RequiredSet \subseteq ToSet(made)

Failed(g) == [g EXCEPT !.pc = "failed"]
Assembled(g) == IF Accepted(g.made) THEN [g EXCEPT !.pc = "made"] ELSE Failed(g)

\* No more retries: only the summary can be done without.
Abandoned(g) == IF g.pc = "summary" THEN Assembled(g) ELSE Failed(g)

\* The answer that was hoped for.
Valid(g) ==
    CASE g.pc = "plan" -> NextCall(g, <<>>)
      [] g.pc = "document" -> NextCall(g, Append(g.made, Required[Len(g.made) + 1]))
      [] g.pc = "summary" -> Assembled(g)

\* One answer of the provider.  Only a call that did not get through is
\* repeated, and only a document that was answered badly is asked for again.
Answered(g, outcome) ==
    IF outcome = "lost" /\ g.retry < MaxRetries
    THEN [g EXCEPT !.retry = @ + 1]
    ELSE IF outcome = "invalid" /\ g.pc = "document" /\ g.attempt < Attempts
    THEN [g EXCEPT !.attempt = @ + 1, !.retry = 0]
    ELSE IF outcome = "valid" THEN Valid(g) ELSE Abandoned(g)

=============================================================================
