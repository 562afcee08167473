------------------------- MODULE MCCitationVerifier -------------------------
(***************************************************************************)
(* Small instances of CitationVerifier: chunk c1 has the sentence q1, c2   *)
(* the sentences q1 and q2 and the phrase q3.                              *)
(***************************************************************************)
EXTENDS CitationVerifier, TLC

CONSTANTS c1, c2, src1, src2, q1, q2, q3, s1, s2

MCSourceOf == (c1 :> src1) @@ (c2 :> src2)
MCSentences == (c1 :> {q1}) @@ (c2 :> {q1, q2})
MCOccurs == (c1 :> {q1}) @@ (c2 :> {q1, q2, q3})

(* q1 and q2 define the target, q2 better; q3 does not.                    *)
MCScore == (q1 :> 1) @@ (q2 :> 2) @@ (q3 :> 0)
MCDefinitionText == (q1 :> s1) @@ (q2 :> s1) @@ (q3 :> s1)

(* s2 states types of something else than the question is about, q1 states *)
(* those it is about, and q3 qualifies the target in two ways.             *)
MCFeatures ==
    (q1 :> {"term", "on"}) @@ (q2 :> {"term"}) @@ (q3 :> {"term", "kinds"})
    @@ (s1 :> {"term"}) @@ (s2 :> {"off"})

(* Bounds: the model states the source src1, its claims have at most two   *)
(* citations in all, and there are at most two claims.                     *)
Cited == [chunk: Chunks, quote: Quotes \union {EmptyQuote}, source: {src1}]
AtMostTwo(S) == {{}} \union {{x, y} : x, y \in S}
UpToOne(S) == {{}} \union {{x} : x \in S}

ClaimTexts == Statements \union {NoText}
Single == [text: ClaimTexts, citations: UpToOne(Cited)]
Double == [text: ClaimTexts, citations: AtMostTwo(Cited)]

MCGenerable ==
    [text: SUBSET Statements, claims: AtMostTwo(Single) \union UpToOne(Double)]
=============================================================================
