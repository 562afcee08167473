----------------------- MODULE CitationVerifierProofs -----------------------
(***************************************************************************)
(* What CitationVerifier promises of every answer a model may give, for    *)
(* any chunks, quotes and scores.                                          *)
(***************************************************************************)
EXTENDS CitationVerifier, WellFoundedInduction, TLAPS

USE TextAssumption, NoneAssumption, GenerableAssumption

GroundedIn(claims, chunks) ==
    \A claim \in claims :
        /\ claim.citations # {}
        /\ \A c \in claim.citations :
              /\ c.chunk \in chunks
              /\ c.quote \in Occurs[c.chunk] \union {EmptyQuote}
              /\ c.source = SourceOf[c.chunk]

OnlyClaims(answer) ==
    \A x \in answer.text :
        \/ x = Refusal /\ answer.claims = {}
        \/ \E claim \in answer.claims : x = claim.text \/ x \in Quoted(claim.citations)

(* The verified citations of a claim quote the chunks that they name.      *)
LEMMA VerifiedSound ==
    ASSUME NEW claim \in Claim, NEW chunks \in SUBSET Chunks
    PROVE  /\ Verified(claim, chunks) \subseteq Citation
           /\ \A c \in Verified(claim, chunks) :
                 /\ c.chunk \in chunks
                 /\ c.quote \in Occurs[c.chunk] \union {EmptyQuote}
                 /\ c.source = SourceOf[c.chunk]
<1> SUFFICES ASSUME NEW c \in Verified(claim, chunks)
    PROVE  /\ c \in Citation /\ c.chunk \in chunks
           /\ c.quote \in Occurs[c.chunk] \union {EmptyQuote}
           /\ c.source = SourceOf[c.chunk]
  OBVIOUS
<1>1. PICK d \in claim.citations : Verbatim(d, chunks) /\ c = [d EXCEPT !.source = SourceOf[d.chunk]]
  BY DEF Verified
<1>2. d \in Citation
  BY DEF Claim
<1>3. c = [chunk |-> d.chunk, quote |-> d.quote, source |-> SourceOf[d.chunk]]
  BY <1>1, <1>2 DEF Citation
<1>4. c \in Citation
  BY <1>2, <1>3 DEF Citation
<1> QED
  BY <1>1, <1>3, <1>4 DEF Verbatim

(* A claim that is kept is the model's with its verified citations.        *)
LEMMA RepairedCites ==
    ASSUME NEW answer \in LLMAnswer, NEW chunks \in SUBSET Chunks, NEW q \in Question,
           NEW r \in RepairedClaims(answer, chunks, q)
    PROVE  \E claim \in answer.claims :
              /\ Kept(q, answer.text, claim, chunks)
              /\ claim \in Claim
              /\ r = [text |-> claim.text, citations |-> Verified(claim, chunks)]
<1>1. PICK claim \in answer.claims :
        /\ Kept(q, answer.text, claim, chunks)
        /\ r = [claim EXCEPT !.citations = Verified(claim, chunks)]
  BY DEF RepairedClaims
<1>2. claim \in Claim
  BY DEF LLMAnswer
<1>3. r = [text |-> claim.text, citations |-> Verified(claim, chunks)]
  BY <1>1, <1>2 DEF Claim
<1> QED
  BY <1>1, <1>2, <1>3

LEMMA RepairedSound ==
    ASSUME NEW answer \in LLMAnswer, NEW chunks \in SUBSET Chunks, NEW q \in Question
    PROVE  /\ RepairedClaims(answer, chunks, q) \subseteq Claim
           /\ GroundedIn(RepairedClaims(answer, chunks, q), chunks)
<1> SUFFICES ASSUME NEW r \in RepairedClaims(answer, chunks, q)
    PROVE  /\ r \in Claim /\ r.citations # {}
           /\ \A c \in r.citations :
                 /\ c.chunk \in chunks
                 /\ c.quote \in Occurs[c.chunk] \union {EmptyQuote}
                 /\ c.source = SourceOf[c.chunk]
  BY DEF GroundedIn
<1>1. PICK claim \in answer.claims :
        /\ Kept(q, answer.text, claim, chunks)
        /\ claim \in Claim
        /\ r = [text |-> claim.text, citations |-> Verified(claim, chunks)]
  BY RepairedCites
<1>2. Verified(claim, chunks) \subseteq Citation /\ claim.text \in Statements \union {NoText}
  BY <1>1, VerifiedSound DEF Claim
<1>3. r \in Claim
  BY <1>1, <1>2 DEF Claim
<1>4. r.citations = Verified(claim, chunks) /\ r.citations # {}
  BY <1>1 DEF Kept
<1> QED
  BY <1>1, <1>3, <1>4, VerifiedSound

(* verify returns grounded claims, and no text but theirs unless nothing   *)
(* was dropped.                                                            *)
LEMMA VerifySound ==
    ASSUME NEW answer \in LLMAnswer, NEW chunks \in SUBSET Chunks, NEW q \in Question
    PROVE  LET v == Verify(answer, chunks, q)
           IN  /\ v \in Verdict
               /\ GroundedIn(v.answer.claims, chunks)
               /\ v.status # "accepted" => OnlyClaims(v.answer)
<1> DEFINE claims == RepairedClaims(answer, chunks, q)
           said == AnswerFromClaims(claims)
<1>1. claims \subseteq Claim /\ GroundedIn(claims, chunks)
  BY RepairedSound
<1>2. said \subseteq Texts
  <2> SUFFICES ASSUME NEW claim \in claims PROVE ClaimText(claim) \subseteq Texts
    BY DEF AnswerFromClaims
  <2>1. claim \in Claim
    BY <1>1
  <2> QED
    BY <2>1 DEF ClaimText, Claim, Citation, Quoted, Texts
<1>3. \A x \in said : \E claim \in claims : x = claim.text \/ x \in Quoted(claim.citations)
  BY DEF AnswerFromClaims, ClaimText
<1>4. answer.text \in SUBSET (Texts \union {Refusal})
  BY DEF LLMAnswer
<1>5. CASE claims = {}
  BY <1>5 DEF Verify, Rejection, Verdict, LLMAnswer, GuardrailStatus, GroundedIn, OnlyClaims
<1>6. CASE claims # {} /\ Drops(answer, chunks, q)
  <2>1. Verify(answer, chunks, q) =
        [answer |-> [text |-> said, claims |-> claims], status |-> "repaired"]
    BY <1>6 DEF Verify
  <2> HIDE DEF claims, said
  <2>2. [text |-> said, claims |-> claims] \in LLMAnswer
    BY <1>1, <1>2 DEF LLMAnswer
  <2>4. OnlyClaims([text |-> said, claims |-> claims])
    BY <1>3 DEF OnlyClaims
  <2> DEFINE v == Verify(answer, chunks, q)
  <2>5. /\ v.answer = [text |-> said, claims |-> claims] /\ v.status = "repaired"
        /\ v = [answer |-> v.answer, status |-> v.status]
    BY <2>1
  <2>6. v \in Verdict
    BY <2>1, <2>2 DEF Verdict, GuardrailStatus
  <2> HIDE DEF v
  <2> QED
    BY <1>1, <2>4, <2>5, <2>6 DEF v
<1>7. CASE claims # {} /\ ~Drops(answer, chunks, q)
  <2>1. Verify(answer, chunks, q) =
        [answer |-> [text |-> answer.text, claims |-> claims], status |-> "accepted"]
    BY <1>7 DEF Verify
  <2> HIDE DEF claims
  <2>2. [text |-> answer.text, claims |-> claims] \in LLMAnswer
    BY <1>1, <1>4 DEF LLMAnswer
  <2> DEFINE v == Verify(answer, chunks, q)
  <2>5. v.answer = [text |-> answer.text, claims |-> claims] /\ v.status = "accepted"
    BY <2>1
  <2>6. v \in Verdict
    BY <2>1, <2>2 DEF Verdict, GuardrailStatus
  <2> HIDE DEF v
  <2> QED
    BY <1>1, <2>5, <2>6 DEF v
<1> QED
  BY <1>5, <1>6, <1>7

-----------------------------------------------------------------------------
(* An accepted answer is returned with its text and the claims kept.       *)
LEMMA Accepted ==
    ASSUME NEW answer, NEW chunks, NEW q, Verify(answer, chunks, q).status = "accepted"
    PROVE  /\ Verify(answer, chunks, q).answer.text = answer.text
           /\ Verify(answer, chunks, q).answer.claims = RepairedClaims(answer, chunks, q)
           /\ RepairedClaims(answer, chunks, q) # {}
BY DEF Verify, Rejection

(* The citation of the fallback is a sentence of the chunk it names.       *)
LEMMA ExtractiveShape ==
    ASSUME NEW chunks \in SUBSET Chunks, NEW cand \in Candidates(chunks)
    PROVE  LET citation == [chunk |-> cand.chunk, quote |-> cand.quote,
                            source |-> SourceOf[cand.chunk]]
               claim == [text |-> DefinitionText[cand.quote], citations |-> {citation}]
           IN  /\ citation \in Citation /\ Verbatim(citation, chunks)
               /\ claim \in Claim
               /\ ExtractiveAnswer(cand) = [text |-> {claim.text}, claims |-> {claim}]
               /\ ExtractiveAnswer(cand) \in LLMAnswer
<1>1. /\ cand.chunk \in chunks /\ cand.chunk \in Chunks /\ cand.quote \in Quotes
      /\ cand.quote \in Occurs[cand.chunk]
  BY DEF Candidates
<1> DEFINE citation == [chunk |-> cand.chunk, quote |-> cand.quote,
                        source |-> SourceOf[cand.chunk]]
           claim == [text |-> DefinitionText[cand.quote], citations |-> {citation}]
<1>2. citation \in Citation /\ Verbatim(citation, chunks)
  BY <1>1 DEF Citation, Verbatim
<1>3. DefinitionText[cand.quote] \in Statements
  BY <1>1
<1>4. claim \in Claim
  BY <1>2, <1>3 DEF Claim
<1>5. ExtractiveAnswer(cand) = [text |-> {claim.text}, claims |-> {claim}]
  BY DEF ExtractiveAnswer
<1>6. [text |-> {claim.text}, claims |-> {claim}] \in LLMAnswer
  BY <1>3, <1>4 DEF LLMAnswer, Texts
<1> QED
  BY <1>2, <1>4, <1>5, <1>6

(* Unless the question asks for types too, the fallback's citation is      *)
(* accepted.                                                               *)
LEMMA ExtractiveAccepted ==
    ASSUME NEW chunks \in SUBSET Chunks, NEW q \in Question, ~q.types,
           NEW cand \in Candidates(chunks)
    PROVE  LET v == Verify(ExtractiveAnswer(cand), chunks, q)
           IN  /\ v.status = "accepted"
               /\ HasDefinitionSupport(q, v.answer)
<1> DEFINE citation == [chunk |-> cand.chunk, quote |-> cand.quote,
                        source |-> SourceOf[cand.chunk]]
           claim == [text |-> DefinitionText[cand.quote], citations |-> {citation}]
           answer == [text |-> {claim.text}, claims |-> {claim}]
<1>1. /\ citation \in Citation /\ Verbatim(citation, chunks) /\ claim \in Claim
      /\ ExtractiveAnswer(cand) = answer
  BY ExtractiveShape
<1>2. citation.quote = cand.quote /\ citation.quote # EmptyQuote /\ Score[citation.quote] > 0
  BY DEF Candidates
<1>3. citation = [citation EXCEPT !.source = SourceOf[citation.chunk]]
  BY <1>1 DEF Citation
<1>4. claim.citations = {citation}
  OBVIOUS
<1> HIDE DEF citation
<1>5. Verified(claim, chunks) = {citation}
  BY <1>1, <1>3, <1>4 DEF Verified
<1>6. Kept(q, answer.text, claim, chunks)
  BY <1>5 DEF Kept, AnswersTypeQuery
<1>7. claim = [claim EXCEPT !.citations = Verified(claim, chunks)]
  BY <1>4, <1>5
<1>8. answer.claims = {claim}
  OBVIOUS
<1> HIDE DEF claim
<1>9. RepairedClaims(answer, chunks, q) = {claim}
  BY <1>6, <1>7, <1>8 DEF RepairedClaims
<1>10. ~Drops(answer, chunks, q)
  BY <1>1, <1>4, <1>6, <1>8 DEF Drops
<1> HIDE DEF answer
<1>11. Verify(answer, chunks, q) =
       [answer |-> [text |-> answer.text, claims |-> {claim}], status |-> "accepted"]
  BY <1>9, <1>10 DEF Verify
<1> DEFINE v == Verify(answer, chunks, q)
<1>12. v.status = "accepted" /\ v.answer.claims = {claim}
  BY <1>11
<1> HIDE DEF v
<1>13. HasDefinitionSupport(q, v.answer)
  BY <1>2, <1>4, <1>12 DEF HasDefinitionSupport
<1> QED
  BY <1>1, <1>12, <1>13 DEF v

(* What chat returns is as sound as what verify returns.                   *)
LEMMA ReturnedSound ==
    ASSUME NEW answer \in LLMAnswer, NEW chunks \in SUBSET Chunks, NEW q \in Question,
           NEW r \in Returned(answer, chunks, q)
    PROVE  /\ r \in Verdict
           /\ GroundedIn(r.answer.claims, chunks)
           /\ r.status # "accepted" => OnlyClaims(r.answer)
<1>1. CASE r = Verify(answer, chunks, q)
  BY <1>1, VerifySound
<1>2. ASSUME NEW cand \in Candidates(chunks),
             Verify(ExtractiveAnswer(cand), chunks, q).status = "accepted",
             r = [answer |-> Verify(ExtractiveAnswer(cand), chunks, q).answer,
                  status |-> "repaired"]
      PROVE  /\ r \in Verdict /\ GroundedIn(r.answer.claims, chunks) /\ OnlyClaims(r.answer)
  <2> DEFINE extractive == ExtractiveAnswer(cand)
             second == Verify(extractive, chunks, q)
  <2>1. extractive \in LLMAnswer
    BY ExtractiveShape
  <2>2. second \in Verdict /\ GroundedIn(second.answer.claims, chunks)
    BY <2>1, VerifySound
  <2>3. /\ second.answer.text = extractive.text
        /\ second.answer.claims = RepairedClaims(extractive, chunks, q)
        /\ second.answer.claims # {}
    BY <1>2, Accepted
  <2> DEFINE citation == [chunk |-> cand.chunk, quote |-> cand.quote,
                          source |-> SourceOf[cand.chunk]]
             claim == [text |-> DefinitionText[cand.quote], citations |-> {citation}]
  <2>4. extractive.text = {claim.text} /\ extractive.claims = {claim}
    BY DEF ExtractiveAnswer
  <2>5. \A kept \in RepairedClaims(extractive, chunks, q) : kept.text = claim.text
    BY <2>1, <2>4, RepairedCites
  <2> HIDE DEF extractive, second, claim
  <2>6. OnlyClaims(second.answer)
    BY <2>3, <2>4, <2>5 DEF OnlyClaims
  <2>7. r.answer = second.answer /\ r.status = "repaired"
    BY <1>2 DEF second, extractive
  <2>8. r \in Verdict
    BY <1>2, <2>2 DEF Verdict, GuardrailStatus, second, extractive
  <2> QED
    BY <2>2, <2>6, <2>7, <2>8
<1>3. \/ r = Verify(answer, chunks, q)
      \/ \E cand \in Candidates(chunks) :
            /\ Verify(ExtractiveAnswer(cand), chunks, q).status = "accepted"
            /\ r = [answer |-> Verify(ExtractiveAnswer(cand), chunks, q).answer,
                    status |-> "repaired"]
  BY DEF Returned, Replacement, Extractives
<1> QED
  BY <1>1, <1>2, <1>3

(* Scores are bounded, so one of the candidates is a best one.             *)
LEMMA BestCandidate ==
    ASSUME NEW chunks \in SUBSET Chunks, Candidates(chunks) # {}
    PROVE  \E x \in Candidates(chunks) :
              \A y \in Candidates(chunks) : Score[y.quote] <= Score[x.quote]
<1> DEFINE short == {MaxScore - Score[x.quote] : x \in Candidates(chunks)}
<1>1. \A x \in Candidates(chunks) : x.quote \in Quotes
  BY DEF Candidates
<1>2. short \in SUBSET Nat /\ short # {}
  BY <1>1
<1>3. PICK n \in short : \A k \in short : n <= k
  <2> DEFINE less == {pair \in Nat \X Nat : pair[1] < pair[2]}
  <2>1. OpToRel(<, Nat) = less
    BY DEF OpToRel
  <2>2. IsWellFoundedOn(less, Nat)
    BY <2>1, NatLessThanWellFounded
  <2> HIDE DEF less, short
  <2>3. PICK n \in short : \A k \in short : <<k, n>> \notin less
    BY <1>2, <2>2, WFMin
  <2>4. \A k \in short : ~(k < n)
    BY <1>2, <2>3 DEF less
  <2> QED
    BY <1>2, <2>4
<1>4. PICK x \in Candidates(chunks) : n = MaxScore - Score[x.quote]
  BY <1>3
<1>5. ASSUME NEW y \in Candidates(chunks) PROVE Score[y.quote] <= Score[x.quote]
  <2>1. n <= MaxScore - Score[y.quote]
    BY <1>3
  <2>2. Score[x.quote] \in 0..MaxScore /\ Score[y.quote] \in 0..MaxScore
    BY <1>1
  <2> QED
    BY <1>4, <2>1, <2>2
<1> QED
  BY <1>5

(* A question for a definition alone is answered with support, if any      *)
(* retrieved sentence gives it.                                            *)
LEMMA DefinitionReturned ==
    ASSUME NEW answer \in LLMAnswer, NEW chunks \in SUBSET Chunks, NEW q \in Question,
           q.definition, ~q.types, Candidates(chunks) # {},
           NEW r \in Returned(answer, chunks, q)
    PROVE  r.status # "rejected" /\ HasDefinitionSupport(q, r.answer)
<1>0. Extractives(q, chunks) # {}
  BY BestCandidate DEF Extractives
<1>1. CASE FallbackApplies(q, Verify(answer, chunks, q))
  <2>1. PICK e \in Extractives(q, chunks) :
          r = Replacement(Verify(answer, chunks, q), e, chunks, q)
    BY <1>0, <1>1 DEF Returned
  <2>2. PICK cand \in Candidates(chunks) : e = ExtractiveAnswer(cand)
    BY <2>1 DEF Extractives
  <2>3. Verify(e, chunks, q).status = "accepted" /\ HasDefinitionSupport(q, Verify(e, chunks, q).answer)
    BY <2>2, ExtractiveAccepted
  <2>4. r = [answer |-> Verify(e, chunks, q).answer, status |-> "repaired"]
    BY <2>1, <2>3 DEF Replacement
  <2> QED
    BY <2>3, <2>4
<1>2. CASE ~FallbackApplies(q, Verify(answer, chunks, q))
  <2>1. r = Verify(answer, chunks, q)
    BY <1>2 DEF Returned
  <2> QED
    BY <1>2, <2>1 DEF FallbackApplies
<1> QED
  BY <1>1, <1>2

-----------------------------------------------------------------------------
(* The inductive invariant: a response is one that chat may return for the *)
(* question, the chunks and the answer that are still there.               *)
AnswerInv ==
    /\ TypeOK
    /\ response # None =>
          generated # None /\ response \in Returned(generated, retrieved, question)

LEMMA GenerableAnswers == Generable \subseteq LLMAnswer
BY DEF LLMAnswer, Texts

LEMMA AnswerInvariant == Spec => []AnswerInv
<1>1. Init => AnswerInv
  BY DEF Init, AnswerInv, TypeOK
<1>2. AnswerInv /\ [Next]_vars => AnswerInv'
  <2> SUFFICES ASSUME AnswerInv, [Next]_vars PROVE AnswerInv'
    OBVIOUS
  <2>1. CASE Generate
    BY <2>1 DEF Generate, AnswerInv, TypeOK
  <2>2. CASE Respond
    <3>1. generated \in LLMAnswer /\ retrieved \in SUBSET Chunks /\ question \in Question
      BY <2>2, GenerableAnswers DEF Respond, AnswerInv, TypeOK
    <3>2. response' \in Verdict
      BY <2>2, <3>1, ReturnedSound DEF Respond
    <3> QED
      BY <2>2, <3>2 DEF Respond, AnswerInv, TypeOK
  <2>3. CASE Ask
    BY <2>3 DEF Ask, AnswerInv, TypeOK
  <2>4. CASE UNCHANGED vars
    BY <2>4 DEF vars, AnswerInv, TypeOK
  <2> QED
    BY <2>1, <2>2, <2>3, <2>4 DEF Next
<1> QED
  BY <1>1, <1>2, PTL DEF Spec

LEMMA ResponseReturned ==
    ASSUME AnswerInv, response # None
    PROVE  /\ generated \in LLMAnswer /\ retrieved \in SUBSET Chunks /\ question \in Question
           /\ response \in Returned(generated, retrieved, question)
BY GenerableAnswers DEF AnswerInv, TypeOK

(* What is asked, generated and returned keeps its type.                   *)
THEOREM TypeCorrect == Spec => []TypeOK
BY AnswerInvariant, PTL DEF AnswerInv

(* Every claim of a response is cited, verbatim, from a retrieved chunk.   *)
THEOREM GroundedHolds == Spec => []Grounded
<1>1. AnswerInv => Grounded
  <2> SUFFICES ASSUME AnswerInv, response # None
      PROVE  GroundedIn(response.answer.claims, retrieved)
    BY DEF Grounded, GroundedIn
  <2> QED
    BY ResponseReturned, ReturnedSound
<1> QED
  BY <1>1, AnswerInvariant, PTL

(* A repaired or rejected answer says nothing that was dropped.            *)
THEOREM NoDroppedTextHolds == Spec => []NoDroppedText
<1>1. AnswerInv => NoDroppedText
  <2> SUFFICES ASSUME AnswerInv, response # None, response.status # "accepted"
      PROVE  OnlyClaims(response.answer)
    BY DEF NoDroppedText, OnlyClaims
  <2> QED
    BY ResponseReturned, ReturnedSound
<1> QED
  BY <1>1, AnswerInvariant, PTL

(* A retrieved definition answers a question for a definition.             *)
THEOREM DefinitionAnsweredHolds == Spec => []DefinitionAnswered
<1>1. AnswerInv => DefinitionAnswered
  <2> SUFFICES ASSUME AnswerInv, response # None, question.definition, ~question.types,
                      Candidates(retrieved) # {}
      PROVE  response.status # "rejected" /\ HasDefinitionSupport(question, response.answer)
    BY DEF DefinitionAnswered
  <2> QED
    BY ResponseReturned, DefinitionReturned
<1> QED
  BY <1>1, AnswerInvariant, PTL
=============================================================================
