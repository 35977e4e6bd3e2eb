---------------------------- MODULE AnswerChecks ----------------------------
(***************************************************************************)
(* What the answer orchestrator computes around the language model: the    *)
(* plan, the groups of evidence that are summarised one by one, the        *)
(* citations of a draft, its verification and the choice between two       *)
(* drafts.  An evidence item also says where it can be anchored (a span    *)
(* of text, a page or nothing) and whether it contradicts; a draft is a    *)
(* sequence of claims with the markers each carries and how well its       *)
(* evidence supports it, in hundredths.                                    *)
(***************************************************************************)
EXTENDS ContextPacking

Verdicts == <<"unverified", "conflicting", "partially_verified", "verified">>

Rank(verdict) == CHOOSE r \in DOMAIN Verdicts : Verdicts[r] = verdict

MinNat(a, b) == IF a < b THEN a ELSE b

(* AnswerPlanningPolicy.choose_plan.                                       *)
DocumentsOf(items) == {items[i].doc : i \in DOMAIN items} \ {None}

Contradicts(items) == \E i \in DOMAIN items : items[i].against

ChoosePlan(mode, items) ==
    IF mode = "visual" THEN "visual_grounded_synthesis"
    ELSE IF mode = "argumentative" \/ Contradicts(items) THEN "argument_synthesis"
    ELSE IF mode = "global" THEN "global_synthesis"
    ELSE IF /\ mode \notin {"exact", "factual_local"}
            /\ Cardinality(DocumentsOf(items)) >= 2
            /\ mode = "multi_hop" \/ Len(items) > 8
         THEN "hierarchical_synthesis" ELSE "direct_answer"

StagedPlans == {"hierarchical_synthesis", "global_synthesis", "argument_synthesis"}

-----------------------------------------------------------------------------
(* Synthesis groups: the indices of the items of each document, in order   *)
(* of first appearance, and merged into at most calls buckets, each group  *)
(* into the one that has the fewest items.                                 *)
GroupKey(item) == IF item.doc = None THEN <<item.kind, item.title>> ELSE <<"doc", item.doc>>

GroupsByKey(items) ==
    LET First == {i \in DOMAIN items : \A j \in 1..(i - 1) : GroupKey(items[j]) # GroupKey(items[i])}
    IN  [n \in 1..Cardinality(First) |->
            {i \in DOMAIN items : GroupKey(items[i]) = GroupKey(items[Nth(First, n)])}]

Lightest(buckets) ==
    CHOOSE b \in DOMAIN buckets : \A c \in DOMAIN buckets :
        LET weights == <<Cardinality(buckets[b]), Cardinality(buckets[c])>>
        IN  weights[1] < weights[2] \/ (weights[1] = weights[2] /\ b <= c)

(* Mutant of Merge: the groups beyond the last bucket are dropped.         *)
MergeDropping(groups, calls) == SubSeq(groups, 1, calls)

Poured(groups, calls) ==
    LET Buckets[n \in 0..Len(groups)] ==
            IF n = 0 THEN [b \in 1..calls |-> {}]
            ELSE LET buckets == Buckets[n - 1]
                 IN  [buckets EXCEPT ![Lightest(buckets)] = @ \cup groups[n]]
    IN  Buckets[Len(groups)]

Merge(groups, calls) == Filter(Poured(groups, calls), LAMBDA bucket : bucket # {})

SynthesisGroups(items, calls) ==
    LET groups == GroupsByKey(items)
    IN  IF Len(groups) <= calls THEN groups ELSE Merge(groups, calls)

-----------------------------------------------------------------------------
(* Citations: the items a draft's markers point to, when they can be cited. *)
EvidenceIsCitable(item) == Citable(item) /\ item.anchor # "none"

Marks(draft) == UNION {draft.claims[i].marks : i \in DOMAIN draft.claims}

ValidMarks(items, marks) == marks \cap DOMAIN items

CitableMarks(items, marks) == {i \in ValidMarks(items, marks) : EvidenceIsCitable(items[i])}

BindCitations(items, draft) == CitableMarks(items, Marks(draft))

(* The claims of a draft: how many, cited, supported, and mean support.    *)
ClaimSupport(items, claim) == IF CitableMarks(items, claim.marks) = {} THEN 0 ELSE claim.support

CitedClaims(items, draft) ==
    {i \in DOMAIN draft.claims : CitableMarks(items, draft.claims[i].marks) # {}}

SupportedClaims(items, draft) ==
    {i \in CitedClaims(items, draft) : draft.claims[i].support >= 18}

Percent(part, whole) == IF whole = 0 THEN 0 ELSE (100 * part) \div whole

MeanSupport(items, draft) ==
    LET n == Len(draft.claims)
    IN  IF n = 0 THEN 0
        ELSE Total([i \in 1..n |-> ClaimSupport(items, draft.claims[i])]) \div n

LocalScore(items, draft) ==
    LET n == Len(draft.claims)
    IN  MinNat(100, (20 * draft.overlap
                     + 35 * Percent(Cardinality(CitedClaims(items, draft)), n)
                     + 25 * Percent(Cardinality(SupportedClaims(items, draft)), n)
                     + 20 * MeanSupport(items, draft)) \div 100)

LocalIssues(items, plan, spanish, draft) ==
    LET cited  == CitedClaims(items, draft)
        uncitable == ValidMarks(items, Marks(draft)) \ CitableMarks(items, Marks(draft))
    IN  {issue \in {"uncited_claims", "weak_claim_support", "invalid_citation_markers",
                    "uncitable_evidence_references", "wrong_output_language",
                    "missing_citations", "unresolved_contradiction"} :
            \/ issue = "uncited_claims" /\ cited # DOMAIN draft.claims
            \/ issue = "weak_claim_support" /\ SupportedClaims(items, draft) # cited
            \/ issue = "invalid_citation_markers" /\ ~(Marks(draft) \subseteq DOMAIN items)
            \/ issue = "uncitable_evidence_references" /\ uncitable # {}
            \/ issue = "wrong_output_language" /\ spanish /\ draft.english
            \/ issue = "missing_citations" /\ BindCitations(items, draft) = {}
            \/ issue = "unresolved_contradiction"
                  /\ Contradicts(items) /\ plan # "argument_synthesis"}

Blocking == {"missing_citations", "invalid_citation_markers", "wrong_output_language"}

MinGrounding == 35

LocalVerdict(score, issues) ==
    IF score < MinGrounding \/ issues \cap Blocking # {} THEN "unverified"
    ELSE IF "unresolved_contradiction" \in issues THEN "conflicting"
    ELSE IF score < 70 THEN "partially_verified" ELSE "verified"

(* The verifying model can only lower the verdict and the score.           *)
WithOpinion(local, opinion) ==
    [verdict |-> IF Rank(opinion.verdict) < Rank(local.verdict)
                 THEN opinion.verdict ELSE local.verdict,
     score   |-> IF opinion.score > 0 THEN MinNat(local.score, opinion.score) ELSE local.score,
     issues  |-> local.issues \cup opinion.issues]

Lowered(checked, verdict, score) ==
    [verdict |-> verdict, score |-> MinNat(checked.score, score), issues |-> checked.issues]

AtMostPartial(checked, score) ==
    Lowered(checked, IF checked.verdict = "verified" THEN "partially_verified" ELSE checked.verdict,
            score)

(* Mutant of Capped: an uncitable reference is only an issue.              *)
CappedByLanguage(checked) ==
    IF "wrong_output_language" \in checked.issues
    THEN Lowered(checked, "unverified", MinGrounding - 1) ELSE checked

Capped(checked) ==
    IF "wrong_output_language" \in checked.issues
    THEN Lowered(checked, "unverified", MinGrounding - 1)
    ELSE IF checked.issues \cap {"uncitable_evidence_references", "invalid_citation_markers"} # {}
    THEN AtMostPartial(checked, 69)
    ELSE IF checked.issues \cap {"uncited_claims", "weak_claim_support"} # {}
    THEN AtMostPartial(checked, 74) ELSE checked

(* _verify; opinions is the set of what the model may have answered: the   *)
(* empty set when it could not be asked, or its one opinion.               *)
Verify(items, plan, spanish, draft, opinions) ==
    LET score  == LocalScore(items, draft)
        issues == LocalIssues(items, plan, spanish, draft)
        local  == [verdict |-> LocalVerdict(score, issues), score |-> score, issues |-> issues]
    IN  Capped(IF opinions = {} THEN local
               ELSE WithOpinion(local, CHOOSE o \in opinions : TRUE))

-----------------------------------------------------------------------------
(* The repair: when a second draft is asked for, and when it is preferred. *)
NeedsRepair(checked, citations) ==
    \/ checked.verdict \in {"unverified", "conflicting"}
    \/ checked.score < 55
    \/ citations = {}

Quality(checked, citations) ==
    <<Rank(checked.verdict), checked.score, Cardinality(citations),
      0 - Cardinality(checked.issues)>>

LexGreater(a, b) ==
    \E i \in DOMAIN a : a[i] > b[i] /\ \A j \in 1..(i - 1) : a[j] = b[j]

Better(new, newCitations, old, oldCitations) ==
    LexGreater(Quality(new, newCitations), Quality(old, oldCitations))

=============================================================================
