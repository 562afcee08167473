-------------------------- MODULE CitationVerifier --------------------------
(***************************************************************************)
(* What becomes of a model's answer: security/citation_verifier.py, the    *)
(* extractive fallback core/extractive_answer.py and the part of chat in   *)
(* service.py that chooses between them.                                   *)
(*                                                                         *)
(* A text is a set of statements and quotes, their order and wording left  *)
(* out; of a text the regular expressions tell apart only Features and     *)
(* Score.  Citations are sets too: that two of them are equal changes no   *)
(* outcome, as only whether any was dropped decides what is returned.      *)
(***************************************************************************)
EXTENDS Naturals

CONSTANTS
    Chunks,
    Sources,            \* a document with its file name, tenant, matter and page
    SourceOf,           \* SourceOf[c]: the source that chunk c is of
    Quotes,             \* texts that are quoted
    EmptyQuote,         \* a quote of white space only, which normalizes to ""
    Occurs,             \* Occurs[c]: the quotes whose normal form is in that of c's text
    Sentences,          \* Sentences[c]: those that are whole sentences of c
    Score,              \* Score[q]: _definition_support_score of q for the question's target
    MaxScore,           \* the sum of all that the score may add
    Statements,         \* texts of answers and claims that the model writes
    NoText,             \* a claim's text of white space only
    DefinitionText,     \* DefinitionText[q]: _definition_answer_text of q
    Refusal,
    Features,           \* Features[x]: what x says to a question about types
    None

(* term: names the target of the question; on and off: states types of the *)
(* target, of something else; kinds: qualifies the target in two ways.     *)
Feature == {"term", "on", "off", "kinds"}
Texts == Quotes \union Statements

ASSUME TextAssumption ==
    /\ EmptyQuote \notin Quotes /\ NoText \notin Texts
    /\ Refusal \notin Texts
    /\ SourceOf \in [Chunks -> Sources]
    /\ Occurs \in [Chunks -> SUBSET Quotes]
    /\ Sentences \in [Chunks -> SUBSET Quotes]
    /\ \A c \in Chunks : Sentences[c] \subseteq Occurs[c]
    /\ MaxScore \in Nat /\ Score \in [Quotes -> 0..MaxScore]
    /\ DefinitionText \in [Quotes -> Statements]
    /\ Features \in [Texts -> SUBSET Feature]

(* The source that a citation states is the model's own at first.          *)
Citation == [chunk: Chunks, quote: Quotes \union {EmptyQuote}, source: Sources]
Claim == [text: Statements \union {NoText}, citations: SUBSET Citation]
LLMAnswer == [text: SUBSET (Texts \union {Refusal}), claims: SUBSET Claim]
GuardrailStatus == {"accepted", "repaired", "rejected"}
Verdict == [answer: LLMAnswer, status: GuardrailStatus]

(* Does the question ask for types of something?  For a definition?        *)
Question == [types: BOOLEAN, definition: BOOLEAN]

ASSUME NoneAssumption == None \notin LLMAnswer \union Verdict

-----------------------------------------------------------------------------
(* A text that says x says what its parts say.                             *)
Says(texts) == UNION {Features[x] : x \in texts \intersect Texts}
Quoted(citations) == {c.quote : c \in citations}

(* _answers_type_query: the claim and its quotes have to be about the      *)
(* types of the target, and not of something else.                         *)
AnswersTypeQuery(question, text, claim, citations) ==
    question.types =>
        LET generated == Says(text \union {claim.text})
            cited == Says(Quoted(citations))
        IN  /\ "term" \in generated \union cited
            /\ "off" \in generated => "on" \in generated
            /\ "off" \in cited => "on" \in cited
            /\ "on" \in cited \/ "kinds" \in cited

(* Mutant: the quote may be in any of the chunks.                          *)
Verbatim_Mutant(citation, chunks) ==
    /\ citation.chunk \in chunks
    /\ \E c \in chunks : citation.quote \in Occurs[c] \union {EmptyQuote}

(* The quote is a substring of the chunk it names, once both are           *)
(* normalized; the empty string is a substring of every text.              *)
Verbatim(citation, chunks) ==
    /\ citation.chunk \in chunks
    /\ citation.quote \in Occurs[citation.chunk] \union {EmptyQuote}

(* A verified citation gets the source of its chunk.                       *)
Verified(claim, chunks) ==
    {[c EXCEPT !.source = SourceOf[c.chunk]] : c \in {d \in claim.citations : Verbatim(d, chunks)}}

Kept(question, text, claim, chunks) ==
    /\ Verified(claim, chunks) # {}
    /\ AnswersTypeQuery(question, text, claim, Verified(claim, chunks))

RepairedClaims(answer, chunks, question) ==
    {[claim EXCEPT !.citations = Verified(claim, chunks)] :
        claim \in {c \in answer.claims : Kept(question, answer.text, c, chunks)}}

(* dropped > 0: a citation is dropped, by itself or with its claim.  A     *)
(* claim without citations is dropped too, and not counted.                *)
Drops(answer, chunks, question) ==
    \E claim \in answer.claims : \E c \in claim.citations :
        \/ ~Verbatim(c, chunks)
        \/ ~Kept(question, answer.text, claim, chunks)

(* answer_from_claims: the text of each claim, or its quotes.              *)
ClaimText(claim) ==
    IF claim.text # NoText THEN {claim.text} ELSE Quoted(claim.citations) \ {EmptyQuote}
AnswerFromClaims(claims) == UNION {ClaimText(claim) : claim \in claims}

Rejection == [answer |-> [text |-> {Refusal}, claims |-> {}], status |-> "rejected"]

(* Mutant: a repaired answer keeps the text of the model.                  *)
Verify_Mutant(answer, chunks, question) ==
    LET claims == RepairedClaims(answer, chunks, question)
    IN  IF claims = {} THEN Rejection
        ELSE [answer |-> [text |-> answer.text, claims |-> claims],
              status |-> IF Drops(answer, chunks, question) THEN "repaired" ELSE "accepted"]

(* CitationVerifier.verify.                                                *)
Verify(answer, chunks, question) ==
    LET claims == RepairedClaims(answer, chunks, question)
        dropped == Drops(answer, chunks, question)
    IN  IF claims = {} THEN Rejection
        ELSE [answer |-> [text |-> IF dropped THEN AnswerFromClaims(claims) ELSE answer.text,
                          claims |-> claims],
              status |-> IF dropped THEN "repaired" ELSE "accepted"]

-----------------------------------------------------------------------------
(* has_definition_support.                                                 *)
HasDefinitionSupport(question, answer) ==
    question.definition =>
        \E claim \in answer.claims : \E c \in claim.citations :
            c.quote # EmptyQuote /\ Score[c.quote] > 0

Candidates(chunks) ==
    {cand \in [chunk: chunks, quote: Quotes] :
        cand.quote \in Sentences[cand.chunk] /\ Score[cand.quote] > 0}

(* One claim, the definition, cited from the sentence it is taken from.    *)
ExtractiveAnswer(cand) ==
    LET text == DefinitionText[cand.quote]
        citation == [chunk |-> cand.chunk, quote |-> cand.quote, source |-> SourceOf[cand.chunk]]
    IN  [text |-> {text}, claims |-> {[text |-> text, citations |-> {citation}]}]

(* build_extractive_definition_answer: from the sentence of the highest    *)
(* score, the first of them in the order of retrieval, which is any here.  *)
Extractives(question, chunks) ==
    {ExtractiveAnswer(cand) : cand \in {x \in Candidates(chunks) :
        question.definition /\ \A y \in Candidates(chunks) : Score[y.quote] <= Score[x.quote]}}

(* Mutant: the fallback replaces what was rejected only.                   *)
FallbackApplies_Mutant(question, verdict) == verdict.status = "rejected"

FallbackApplies(question, verdict) ==
    verdict.status # "accepted" \/ ~HasDefinitionSupport(question, verdict.answer)

(* The fallback's answer, when its own citation is accepted.               *)
Replacement(verdict, extractive, chunks, question) ==
    LET second == Verify(extractive, chunks, question)
    IN  IF second.status = "accepted"
        THEN [answer |-> second.answer, status |-> "repaired"]
        ELSE verdict

(* What chat may return for an answer of the model.                        *)
Returned(answer, chunks, question) ==
    LET verdict == Verify(answer, chunks, question)
        extractives == Extractives(question, chunks)
    IN  IF extractives # {} /\ FallbackApplies(question, verdict)
        THEN {Replacement(verdict, e, chunks, question) : e \in extractives}
        ELSE {verdict}

-----------------------------------------------------------------------------
VARIABLES
    question,           \* the question, as far as the two modules look at it
    retrieved,          \* the chunks retrieved for it
    generated,          \* the answer of the provider
    response            \* what chat returns

vars == <<question, retrieved, generated, response>>

(* A model may answer anything: claims without citations, citations of     *)
(* chunks it was not given, quotes that occur nowhere.  Bound: the sizes   *)
(* of the answers that it gives are in Generable.                          *)
CONSTANT Generable

ASSUME GenerableAssumption ==
    Generable \subseteq [text: SUBSET Statements, claims: SUBSET Claim]

Init ==
    /\ question \in Question
    /\ retrieved \in SUBSET Chunks
    /\ generated = None /\ response = None

Generate ==
    /\ generated = None
    /\ generated' \in Generable
    /\ UNCHANGED <<question, retrieved, response>>

Respond ==
    /\ generated # None /\ response = None
    /\ response' \in Returned(generated, retrieved, question)
    /\ UNCHANGED <<question, retrieved, generated>>

(* The next question.                                                      *)
Ask ==
    /\ response # None
    /\ question' \in Question
    /\ retrieved' \in SUBSET Chunks
    /\ generated' = None /\ response' = None

Next == Generate \/ Respond \/ Ask

Spec == Init /\ [][Next]_vars

-----------------------------------------------------------------------------
(* The type of what is asked, generated and returned.                      *)
TypeOK ==
    /\ question \in Question
    /\ retrieved \subseteq Chunks
    /\ generated \in Generable \union {None}
    /\ response \in Verdict \union {None}

(* Every claim that is returned has a citation, and every citation names a *)
(* retrieved chunk, quotes that chunk and no other, and states the source  *)
(* of that chunk whatever the model said of it: also when the answer is    *)
(* the fallback's (CitationVerifier.verify, CiteOrDieService.chat).        *)
Grounded ==
    response # None =>
        \A claim \in response.answer.claims :
            /\ claim.citations # {}
            /\ \A c \in claim.citations :
                  /\ c.chunk \in retrieved
                  /\ c.quote \in Occurs[c.chunk] \union {EmptyQuote}
                  /\ c.source = SourceOf[c.chunk]

(* Unless the model's answer was accepted as it stands, nothing is said    *)
(* that no returned claim says or quotes (answer_from_claims).             *)
NoDroppedText ==
    response # None /\ response.status # "accepted" =>
        \A x \in response.answer.text :
            \/ x = Refusal /\ response.answer.claims = {}
            \/ \E claim \in response.answer.claims :
                  x = claim.text \/ x \in Quoted(claim.citations)

(* A question for a definition is answered from a retrieved sentence that  *)
(* gives one, if there is any, whatever the model answered (the fallback   *)
(* of CiteOrDieService.chat; a question that asks for types as well may be *)
(* rejected).                                                              *)
DefinitionAnswered ==
    response # None /\ question.definition /\ ~question.types /\ Candidates(retrieved) # {} =>
        /\ response.status # "rejected"
        /\ HasDefinitionSupport(question, response.answer)

(* "If the answer cannot be tied back to the retrieved text, the app       *)
(* rejects or repairs it" (README.md:7-8): of an answer that is made of    *)
(* its claims, no statement is returned without the claim that makes it.   *)
AnswerTiedBack ==
    /\ response # None
    /\ generated.text = {claim.text : claim \in generated.claims} \ {NoText}
    => \A x \in response.answer.text \intersect Statements :
          \E claim \in response.answer.claims : x = claim.text
=============================================================================
