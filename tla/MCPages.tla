------------------------------ MODULE MCPages ------------------------------
(* The web application shows one page at a time.  A behaviour is either    *)
(* the one of the page that imports documents (ImportSession) or the one   *)
(* of the page that asks questions (ChatPage); the two share no state, and *)
(* the one that is not open does nothing.                                  *)
EXTENDS MCImportSession, ChatPage

NoImport == [batches |-> {}, folder |-> FALSE, results |-> {}]

MCPlans == BatchesOrFolder \cup {NoImport}

(* Two chats: one of the first collection, and one not created yet.        *)
MCStarts == {<<"c1", [x \in Chats |-> IF x = "x" THEN "c1" ELSE "none"]>>}

PagesInit == Init /\ PageInit /\ (plan = NoImport => backend = "sqlite")

PagesNext ==
    \/ plan # NoImport /\ Next /\ UNCHANGED pageVars
    \/ plan = NoImport /\ PageNext /\ UNCHANGED vars

PagesSpec == PagesInit /\ [][PagesNext]_<<vars, pageVars>> /\ Fairness /\ PageFairness
=============================================================================
