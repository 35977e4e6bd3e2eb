----------------------------- MODULE MCAnswering -----------------------------
(* Values of the constants of Answering for the model checker.             *)
EXTENDS Answering

Hit(kind, doc, score, tokens, text) ==
    [kind |-> kind, doc |-> doc, score |-> score, tokens |-> tokens, candidate |-> TRUE,
     short |-> FALSE, text |-> text, title |-> kind,
     anchor |-> IF kind = "visual_page" THEN "page" ELSE "text",
     against |-> FALSE, metadataOnly |-> FALSE]

PlainCorpus ==
    <<Hit("visual_page", "d3", 800, 100, 1), Hit("chunk", "d1", 700, 100, 1),
      Hit("proposition", "d2", 600, 100, 1), Hit("summary", None, 500, 100, 1),
      Hit("graph_edge", "d2", 400, 100, 1)>>

(* The chunk is only metadata, the proposition contradicts.                *)
OddCorpus ==
    [PlainCorpus EXCEPT ![2].metadataOnly = TRUE, ![3].against = TRUE, ![4].doc = "d1"]

(* Many hits of each layer: documents have more than their share of them,  *)
(* summaries are long, and some texts come twice.                          *)
CrowdedCorpus ==
    <<Hit("visual_page", "d3", 950, 60, 1), Hit("visual_page", "d3", 940, 60, 2),
      Hit("visual_page", "d3", 930, 60, 1), Hit("visual_page", "d3", 920, 60, 3),
      Hit("visual_page", "d3", 910, 60, 4),
      Hit("chunk", "d1", 900, 90, 1), Hit("chunk", "d1", 890, 90, 2),
      Hit("chunk", "d1", 880, 90, 1), Hit("chunk", "d1", 870, 90, 3),
      Hit("chunk", "d1", 860, 90, 4), Hit("chunk", "d1", 850, 90, 5),
      Hit("proposition", "d2", 840, 30, 1), Hit("proposition", "d2", 830, 30, 1),
      Hit("summary", "d4", 820, 2500, 1), Hit("summary", "d5", 810, 2500, 2),
      Hit("summary", "d2", 800, 2500, 3), Hit("summary", "d6", 790, 50, 4),
      Hit("summary", "d7", 780, 50, 5), Hit("summary", "d8", 770, 50, 6),
      Hit("graph_edge", "d2", 500, 40, 1), Hit("graph_edge", "d3", 490, 40, 2),
      Hit("graph_edge", None, 480, 40, 3)>>

MCCorpora == {PlainCorpus, OddCorpus, CrowdedCorpus}

Marked(marks, support) == [marks |-> marks, support |-> support]

Written(claims, english) == [claims |-> claims, overlap |-> 90, english |-> english]

(* Well cited; partly cited; weakly supported; a marker beyond the pack;   *)
(* markers to every item; in the wrong language; without claims.           *)
MCDrafts ==
    {Written(<<Marked({1}, 90)>>, FALSE),
     Written(<<Marked({1}, 90), Marked({}, 90)>>, FALSE),
     Written(<<Marked({2}, 10), Marked({1}, 60)>>, FALSE),
     Written(<<Marked({1, 99}, 90)>>, FALSE),
     Written(<<Marked({1}, 90), Marked({2, 3}, 90)>>, FALSE),
     Written(<<Marked({1}, 90)>>, TRUE),
     Written(<<>>, FALSE)}

MCPolicies ==
    {[strict |-> FALSE, spanish |-> TRUE], [strict |-> TRUE, spanish |-> TRUE],
     [strict |-> TRUE, spanish |-> FALSE]}

MCOpinions ==
    {[verdict |-> "verified", score |-> 90, issues |-> {}],
     [verdict |-> "verified", score |-> 40, issues |-> {"uncited_claims"}],
     [verdict |-> "partially_verified", score |-> 0, issues |-> {"wrong_output_language"}],
     [verdict |-> "conflicting", score |-> 50, issues |-> {}]}
=============================================================================
