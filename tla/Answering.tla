------------------------------ MODULE Answering ------------------------------
(***************************************************************************)
(* One question, from the search to the stored answer: the evidence found  *)
(* by HybridSearch is ranked and packed; a draft is written by the         *)
(* language model, in one call or by a map over groups of evidence and a   *)
(* reduction; it is verified, repaired at most once, and stored with its   *)
(* citations, or the request fails and nothing is stored.  Every call to   *)
(* the language model may fail.                                            *)
(***************************************************************************)
EXTENDS HybridSearch, AnswerChecks

CONSTANTS Corpora,     \* what the layers may find: sequences of hits, best first
          Drafts,      \* what the model may write
          Opinions,    \* what the verifying model may say
          Policies,    \* strict mode on or off; the question in Spanish or not
          MapCalls     \* synthesis_max_map_calls

ASSUME AnsweringAssumption ==
    /\ Policies \subseteq [strict : BOOLEAN, spanish : BOOLEAN]
    /\ MapCalls \in Nat \ {0}
    /\ \A c \in Corpora :
          /\ c \in Seq(ToSet(c))
          /\ \A i \in DOMAIN c : c[i].score \in Int /\ c[i].tokens \in Nat
          /\ \A i, j \in DOMAIN c : i < j => c[i].score >= c[j].score
    /\ Drafts \subseteq [claims : Seq([marks : SUBSET Nat, support : Nat]),
                          overlap : Nat, english : BOOLEAN]
    /\ Opinions \subseteq [verdict : ToSet(Verdicts), score : Nat, issues : SUBSET STRING]
    /\ \A o \in Opinions : IsFiniteSet(o.issues)

VARIABLES
    corpus,     \* the hits of this corpus
    policy,     \* one of Policies
    at,         \* step of the request
    pack,       \* evidence_pack.items
    memos,      \* indices covered by each map call made
    draft,      \* the text of the answer so far
    cites,      \* indices of the items cited
    checked,    \* its verification
    first       \* quality of the first draft (history)

answerVars == <<corpus, policy, at, pack, memos, draft, cites, checked, first>>
allVars    == <<hybridVars, answerVars>>

NoDraft   == [claims |-> <<>>, overlap |-> 0, english |-> FALSE]
Unchecked == [verdict |-> "unverified", score |-> 0, issues |-> {}]

Lenient   == [strict |-> FALSE, spanish |-> FALSE]

(* The corpus and the policy are chosen when they are first looked at.     *)
AnswerInit ==
    /\ HybridInit
    /\ corpus = <<>> /\ policy = Lenient
    /\ at = "search" /\ pack = <<>> /\ memos = <<>>
    /\ draft = NoDraft /\ cites = {} /\ checked = Unchecked /\ first = <<0, 0, 0, 0>>

(* How many hits a route asks for.                                         *)
ResultLimit(mode) ==
    CASE mode \in {"exact", "global", "visual"} -> 8
      [] mode = "argumentative" -> 12
      [] mode = "multi_hop" -> 20
      [] OTHER -> 10

(* The hits of the search in a corpus: those of the kinds it has found, as *)
(* many as the route asks for.  Chunks made of metadata only are dropped   *)
(* unless there is nothing else.                                           *)
RankedHits(c) ==
    LET hits == {i \in DOMAIN c : c[i].kind \in kinds}
        substantive == {i \in hits : ~c[i].metadataOnly}
        ranked == Places(c, IF substantive = {} THEN hits ELSE substantive)
    IN  SubSeq(ranked, 1, MinNat(ResultLimit(setting.mode), Len(ranked)))

TakeEvidence ==
    /\ at = "search" /\ call = "returned"
    /\ corpus' \in Corpora
    /\ pack' = Pack(setting.mode, RankedHits(corpus'))
    /\ policy' \in Policies
    /\ at' = "evidence"
    /\ UNCHANGED <<hybridVars, memos, draft, cites, checked, first>>

(* _enforce_strict_evidence, with one item and, for visual, a page needed. *)
EvidenceRefused ==
    policy.strict /\ (pack = <<>> \/ (setting.mode = "visual"
                        /\ \A i \in DOMAIN pack : pack[i].kind # "visual_page"))

Plan   == ChoosePlan(setting.mode, pack)
Groups == SynthesisGroups(pack, MapCalls)
Staged == Plan \in StagedPlans /\ Len(Groups) >= 2

AnswerKeeps(vars) == UNCHANGED <<hybridVars, corpus, policy, pack>> /\ UNCHANGED vars

Compose ==
    /\ at = "evidence"
    /\ at' = IF EvidenceRefused THEN "refused" ELSE IF Staged THEN "map" ELSE "write"
    /\ AnswerKeeps(<<memos, draft, cites, checked, first>>)

SummarizeGroup ==
    /\ at = "map"
    /\ \E groups \in {Groups} :
          /\ memos' = Append(memos, groups[Len(memos) + 1])
          /\ at' = IF Len(memos') = Len(groups) THEN "write" ELSE "map"
    /\ AnswerKeeps(<<draft, cites, checked, first>>)

WriteDraft ==
    /\ at = "write"
    /\ draft' \in Drafts
    /\ cites' = BindCitations(pack, draft')
    /\ at' = "verify"
    /\ AnswerKeeps(<<memos, checked, first>>)

(* The model does not answer, or answers nothing, and there is no other    *)
(* way to write a draft.                                                   *)
ModelFails ==
    /\ at \in {"map", "write"}
    /\ at' = "failed"
    /\ AnswerKeeps(<<memos, draft, cites, checked, first>>)

MayOpine == {{}} \cup {{o} : o \in Opinions}

VerifyDraft ==
    /\ at = "verify"
    /\ \E opinions \in MayOpine :
          checked' = Verify(pack, Plan, policy.spanish, draft, opinions)
    /\ first' = Quality(checked', cites)
    /\ at' = IF NeedsRepair(checked', cites) THEN "repair" ELSE "settle"
    /\ AnswerKeeps(<<memos, draft, cites>>)

Adopt(new, newChecked) ==
    /\ draft' = new /\ cites' = BindCitations(pack, new)
    /\ checked' = [newChecked EXCEPT !.issues = @ \cup {"regenerated_after_failed_verification"}]

RepairDraft ==
    /\ at = "repair"
    /\ \E new \in Drafts, opinions \in MayOpine :
          LET newChecked == Verify(pack, Plan, policy.spanish, new, opinions)
          IN  IF Better(newChecked, BindCitations(pack, new), checked, cites)
              THEN Adopt(new, newChecked)
              ELSE UNCHANGED <<draft, cites, checked>>
    /\ at' = "settle"
    /\ AnswerKeeps(<<memos, first>>)

RepairFails ==
    /\ at = "repair" /\ at' = "settle"
    /\ AnswerKeeps(<<memos, draft, cites, checked, first>>)

FallsBack == policy.spanish /\ "wrong_output_language" \in checked.issues

Settle ==
    /\ at = "settle" /\ at' = "strict"
    /\ IF FallsBack
       THEN /\ draft' = NoDraft /\ cites' = {}
            /\ checked' = [verdict |-> "unverified", score |-> 0,
                           issues |-> checked.issues \cup {"spanish_fallback"}]
       ELSE UNCHANGED <<draft, cites, checked>>
    /\ AnswerKeeps(<<memos, first>>)

(* _enforce_strict_answer. *)
AnswerRefused ==
    policy.strict /\ \/ cites = {}
                     \/ checked.score < MinGrounding
                     \/ setting.mode = "visual" /\ \A i \in cites : pack[i].anchor # "page"

StoreAnswer ==
    /\ at = "strict"
    /\ at' = IF AnswerRefused THEN "refused" ELSE "answered"
    /\ AnswerKeeps(<<memos, draft, cites, checked, first>>)

AnswerNext ==
    \/ at = "search" /\ HybridNext /\ UNCHANGED answerVars
    \/ TakeEvidence \/ Compose \/ SummarizeGroup \/ WriteDraft \/ ModelFails
    \/ VerifyDraft \/ RepairDraft \/ RepairFails \/ Settle \/ StoreAnswer

AnswerSpec == AnswerInit /\ [][AnswerNext]_allVars

-----------------------------------------------------------------------------
AnswerTypeOK ==
    /\ HybridTypeOK
    /\ corpus \in Corpora \cup {<<>>} /\ policy \in [strict : BOOLEAN, spanish : BOOLEAN]
    /\ at \in {"search", "evidence", "map", "write", "verify", "repair", "settle", "strict",
               "answered", "refused", "failed"}
    /\ ToSet(pack) \subseteq ToSet(corpus)
    /\ draft \in Drafts \cup {NoDraft}
    /\ cites \subseteq DOMAIN pack
    /\ checked.verdict \in ToSet(Verdicts) /\ checked.score \in 0..100

(* What goes into the prompt is within the limits of its route, and no     *)
(* text goes in twice, whatever was found.                                 *)
PackIsWithinLimits ==
    /\ WithinLimits(Limits(setting.mode), pack)
    /\ \A i, j \in DOMAIN pack : SameText(pack[i], pack[j]) => i = j

(***************************************************************************)
(* Whichever draft is stored, and with or without a repair or the Spanish  *)
(* fallback: the citations stored are those its markers make, no more and  *)
(* no less; and in strict mode there is one, a page in visual mode.        *)
(***************************************************************************)
CitationsAreOfTheText ==
    at = "answered" =>
        /\ cites = BindCitations(pack, draft)
        /\ policy.strict => \E i \in cites :
                EvidenceIsCitable(pack[i]) /\ (setting.mode = "visual" => pack[i].anchor = "page")

(* A repair never makes the answer worse than its first draft was: the     *)
(* verdict, then the score, then the citations.  Only the fallback does.   *)
RepairNeverWorse ==
    at = "answered" /\ "spanish_fallback" \notin checked.issues =>
        ~LexGreater(first, Quality(checked, cites))

(***************************************************************************)
(* An answer stored as verified, whatever the verifying model said of it:  *)
(* every claim is cited and supported, every marker points to evidence     *)
(* that can be cited, and it is in the question's language.                *)
(***************************************************************************)
VerifiedIsClean ==
    at = "answered" /\ checked.verdict = "verified" =>
        /\ CitedClaims(pack, draft) = DOMAIN draft.claims
        /\ \A i \in DOMAIN draft.claims : draft.claims[i].support >= 18
        /\ \A m \in Marks(draft) : m \in DOMAIN pack /\ EvidenceIsCitable(pack[m])
        /\ ~(policy.spanish /\ draft.english)

(* What compose stores after any number of failing or flattering calls to  *)
(* the language model: the text, its citations and its verdict belong to   *)
(* each other, and the evidence was within its limits.                     *)
AnswerIsSound ==
    /\ AnswerTypeOK /\ PackIsWithinLimits
    /\ CitationsAreOfTheText /\ RepairNeverWorse /\ VerifiedIsClean

(* A synthesis reads every item of the pack, each in one map call, and in  *)
(* no more calls than are allowed, before the answer is written.           *)
SynthesisReadsEverything ==
    at = "write" /\ Staged =>
        /\ Len(memos) <= MapCalls
        /\ \A i \in DOMAIN pack : \E m \in DOMAIN memos : i \in memos[m]
        /\ \A m, n \in DOMAIN memos : m # n => memos[m] \cap memos[n] = {}

=============================================================================
