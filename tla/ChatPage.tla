------------------------------ MODULE ChatPage ------------------------------
(***************************************************************************)
(* The page that asks questions in conversations, and the part of the API  *)
(* it talks to: chats and their messages, and answers that take minutes    *)
(* and are stored whether or not anybody still waits for them.             *)
(*                                                                         *)
(* Every continuation of an await in the page is a step of its own, and so *)
(* is each transaction of the API.  A question, the answer to it and the   *)
(* pair of messages that records both share one number.  The detail shown  *)
(* beside the thread (evidence, citations, documents) is left out, and so  *)
(* is the search without an answer, which stores nothing.                  *)
(***************************************************************************)
EXTENDS Naturals, Sequences, FiniteSets, Lists

CONSTANTS
    Collections,
    Chats,          \* chats that ever exist
    Starts,         \* at first: the collection selected, and of each chat its
                    \* collection, or "none" yet
    Texts,          \* what is asked
    MaxAsks,        \* bound on the questions asked
    MaxMoves,       \* bound on the clicks on a turn, a chat or a collection
    MaxUses,        \* bound on questions and clicks together
    MaxPolls,       \* 40 in the code: polls for a stored answer
    NoChat

ASSUME PageAssumption ==
    /\ Starts \subseteq Collections \X [Chats -> Collections \cup {"none"}]
    /\ NoChat \notin Chats
    /\ MaxAsks \in Nat /\ MaxMoves \in Nat /\ MaxUses \in Nat /\ MaxPolls \in Nat

VARIABLES
    chatOf,     \* API: the collection of each chat, or "deleted", or "none" yet
    messages,   \* API: the pairs of messages of each chat
    work,       \* API: questions being answered, and those whose answer is stored
    asks,       \* counter for the bound
    coll,       \* page: the collection selected
    listing,    \* page: whether the list of its chats is awaited
    chats,      \* page: the chats listed
    activeChat, \* page: the chat selected
    fetch,      \* page: the messages awaited for it
    turns,      \* page: the thread shown
    activeTurn, \* page: the turn selected, 0 for none
    moves,      \* counter for the bound
    deletions,  \* page and API: the chats being deleted
    ask         \* page: the submission in progress

apiVars    == <<chatOf, messages, work, asks>>
threadVars == <<turns, activeTurn>>
chatVars   == <<coll, listing, chats, activeChat, fetch>>
clickVars  == <<moves, deletions>>
pageVars   == <<apiVars, threadVars, chatVars, clickVars, ask>>

NoAsk   == [stage |-> "none", id |-> 0, text |-> "none", chat |-> NoChat, coll |-> "none", polls |-> 0]
NoFetch == [stage |-> "none", got |-> <<>>]
Awaited == [stage |-> "asked", got |-> <<>>]

Turn(id, text)        == [id |-> id, text |-> text, pending |-> FALSE]
PendingTurn(id, text) == [id |-> id, text |-> text, pending |-> TRUE]

PageInit ==
    /\ \E s \in Starts : coll = s[1] /\ chatOf = s[2]
    /\ messages = [c \in Chats |-> <<>>] /\ work = {} /\ asks = 0
    /\ listing = TRUE /\ chats = {} /\ activeChat = NoChat /\ fetch = NoFetch
    /\ turns = <<>> /\ activeTurn = 0 /\ moves = 0 /\ deletions = {}
    /\ ask = NoAsk

-----------------------------------------------------------------------------
(* The API.                                                                *)

(* AnswerService.answer commits the answer with its two messages; that the *)
(* chat still exists is not asked.                                         *)
Store(w) ==
    /\ ~w.stored
    /\ messages' = [messages EXCEPT ![w.chat] = Append(@, [id |-> w.id, text |-> w.text])]
    /\ work' = (work \ {w}) \cup {[w EXCEPT !.stored = TRUE]}
    /\ UNCHANGED <<chatOf, asks, threadVars, chatVars, ask>>

(* A refusal, an error or a crash: nothing is stored.                      *)
AnswerFails(w) ==
    /\ ~w.stored
    /\ work' = work \ {w}
    /\ UNCHANGED <<chatOf, messages, asks, threadVars, chatVars, ask>>

Exists(chat) == chat # NoChat /\ chatOf[chat] \in Collections

-----------------------------------------------------------------------------
(* The thread.                                                             *)
Cleared == turns' = <<>> /\ activeTurn' = 0

(* hydrateTurn, without the detail it then loads.                          *)
ClickTurn ==
    /\ \E i \in DOMAIN turns : activeTurn' = turns[i].id
    /\ UNCHANGED <<apiVars, chatVars, turns, ask>>

-----------------------------------------------------------------------------

(* Collections and chats.  Selecting one cancels what was awaited for the  *)
(* one before (the cleanup of the effect).                                 *)
Open(chat) ==
    /\ activeChat' = chat
    /\ fetch' = IF chat = NoChat THEN NoFetch ELSE IF chat = activeChat THEN fetch ELSE Awaited

SelectCollection(c) ==
    /\ c # coll
    /\ coll' = c /\ listing' = TRUE
    /\ UNCHANGED <<apiVars, threadVars, chats, activeChat, fetch, ask>>

ChatsArrive ==
    /\ listing
    /\ listing' = FALSE
    /\ chats' = {x \in Chats : chatOf[x] = coll}
    /\ \/ chats' = {} /\ Open(NoChat) /\ Cleared
       \/ \E x \in chats' : Open(x) /\ UNCHANGED threadVars
    /\ UNCHANGED <<apiVars, coll, ask>>

SelectChat(x) ==
    /\ x \in chats /\ x # activeChat
    /\ Open(x)
    /\ UNCHANGED <<apiVars, threadVars, coll, listing, chats, ask>>

(* handleDeleteChat awaits DELETE /chats/{id}, with the chat selected and  *)
(* the chats listed at the click in its closure.                           *)
DeleteChat(x) ==
    /\ x \in chats
    /\ deletions' = deletions \cup {[chat |-> x, active |-> activeChat, listed |-> chats, done |-> FALSE]}
    /\ UNCHANGED <<apiVars, threadVars, chatVars, ask>>

Ends(d) == deletions' = deletions \ {d}

(* The API deletes the chat.                                               *)
ChatIsDeleted(d) ==
    /\ ~d.done /\ Exists(d.chat)
    /\ chatOf' = [chatOf EXCEPT ![d.chat] = "deleted"]
    /\ messages' = [messages EXCEPT ![d.chat] = <<>>]
    /\ deletions' = (deletions \ {d}) \cup {[d EXCEPT !.done = TRUE]}
    /\ UNCHANGED <<work, asks, threadVars, chatVars, ask>>

(* A refusal (the chat does not exist), a lost connection or a timeout,    *)
(* before the chat is deleted or after: the page only shows an error.      *)
DeletionFails(d) == Ends(d) /\ UNCHANGED <<apiVars, threadVars, chatVars, ask>>

(* The rest of handleDeleteChat: what it compares and whom it opens are    *)
(* those of its closure, whatever has been opened meanwhile.               *)
DeletionReturns(d) ==
    /\ d.done /\ Ends(d)
    /\ chats' = chats \ {d.chat}
    /\ LET remaining == d.listed \ {d.chat}
       IN  \/ d.chat # d.active /\ UNCHANGED <<activeChat, fetch, threadVars>>
           \/ d.chat = d.active /\ remaining = {} /\ Open(NoChat) /\ Cleared
           \/ d.chat = d.active /\ (\E y \in remaining : Open(y)) /\ UNCHANGED threadVars
    /\ UNCHANGED <<apiVars, coll, listing, ask>>

(* The API reads the messages at some moment, the page has them later.     *)
ReadMessages ==
    /\ fetch.stage = "asked"
    /\ fetch' = IF Exists(activeChat) THEN [stage |-> "read", got |-> messages[activeChat]]
                ELSE NoFetch
    /\ UNCHANGED <<apiVars, threadVars, coll, listing, chats, activeChat, ask>>

IsPending(t) == t.pending /\ t.id = ask.id      \* pendingTurnIdRef

MessagesArrive ==
    /\ fetch.stage = "read"
    /\ fetch' = NoFetch
    /\ LET stored == [i \in DOMAIN fetch.got |-> Turn(fetch.got[i].id, fetch.got[i].text)]
       IN  /\ turns' = stored \o Filter(turns, IsPending)
           /\ activeTurn' = IF stored # <<>> THEN stored[Len(stored)].id
                            ELSE IF ask.stage \in {"none", "creating"} THEN 0 ELSE activeTurn
    /\ UNCHANGED <<apiVars, coll, listing, chats, activeChat, ask>>

-----------------------------------------------------------------------------
(* A submission (handleSubmit).  Room is what the bound on uses leaves.    *)
Begun == IF ask.stage = "creating" THEN asks + 1 ELSE asks
Room  == Begun + moves < MaxUses

Begin(chat, text) ==
    /\ asks' = asks + 1
    /\ ask' = [NoAsk EXCEPT !.stage = "sent", !.id = asks + 1, !.text = text, !.chat = chat, !.coll = coll]
    /\ work' = work \cup {[id |-> asks + 1, text |-> text, chat |-> chat, stored |-> FALSE]}
    /\ turns' = Append(turns, PendingTurn(asks + 1, text))
    /\ activeTurn' = 0

Submit(text) ==
    /\ ask.stage = "none" /\ asks < MaxAsks /\ Room
    /\ activeChat # NoChat
    /\ Begin(activeChat, text)
    /\ UNCHANGED <<chatOf, messages, chatVars>>

(* Without a chat one is created first, and the page waits for it.         *)
SubmitWithoutChat(text) ==
    /\ ask.stage = "none" /\ asks < MaxAsks /\ Room
    /\ activeChat = NoChat
    /\ ask' = [NoAsk EXCEPT !.stage = "creating", !.text = text, !.coll = coll]
    /\ UNCHANGED <<apiVars, threadVars, chatVars>>

ChatIsCreated ==
    /\ ask.stage = "creating"
    /\ \E x \in Chats :
         /\ chatOf[x] = "none"
         /\ chatOf' = [chatOf EXCEPT ![x] = ask.coll]
         /\ chats' = chats \cup {x}
         /\ Open(x)
         /\ asks' = asks + 1
         /\ ask' = [ask EXCEPT !.stage = "sent", !.id = asks + 1, !.chat = x]
         /\ work' = work \cup {[id |-> asks + 1, text |-> ask.text, chat |-> x, stored |-> FALSE]}
         /\ turns' = Append(turns, PendingTurn(asks + 1, ask.text))
    /\ activeTurn' = 0
    /\ UNCHANGED <<messages, coll, listing>>

ChatIsNotCreated ==
    /\ ask.stage = "creating"
    /\ ask' = NoAsk
    /\ UNCHANGED <<apiVars, threadVars, chatVars>>

(* commitTurn: the pending turn, if the thread still has it, becomes the   *)
(* answered one, which is selected in any case.                            *)
CommitTurn(pair) ==
    /\ turns' = [i \in DOMAIN turns |->
                    IF IsPending(turns[i]) THEN Turn(pair.id, pair.text) ELSE turns[i]]
    /\ activeTurn' = pair.id
    /\ ask' = NoAsk
    /\ UNCHANGED <<apiVars, chatVars>>

Respond ==
    /\ ask.stage = "sent"
    /\ \E w \in work : w.stored /\ w.id = ask.id /\ CommitTurn(w)

(* An error response, a lost connection or a timeout of the page; the API  *)
(* may go on with the question.                                            *)
Lose ==
    /\ ask.stage = "sent"
    /\ ask' = [ask EXCEPT !.stage = "recovering"]
    /\ UNCHANGED <<apiVars, threadVars, chatVars>>

AnyPair(text) == DOMAIN messages[ask.chat]      \* mutant

(* The pairs of the chat that ask the same.                                *)
SamePrompt(text) == {i \in DOMAIN messages[ask.chat] : messages[ask.chat][i].text = text}

NotCounted(polls) == polls      \* mutant
Counted(polls)    == polls + 1

(* One round of recoverSavedAnswer: the newest of them is the answer.      *)
Recover ==
    /\ ask.stage = "recovering" /\ ask.polls < MaxPolls
    /\ LET found == IF Exists(ask.chat) THEN SamePrompt(ask.text) ELSE {}
       IN  \/ \E i \in found : (\A j \in found : j <= i) /\ CommitTurn(messages[ask.chat][i])
           \/ /\ found = {}
              /\ ask' = [ask EXCEPT !.polls = Counted(@)]
              /\ UNCHANGED <<apiVars, threadVars, chatVars>>

WithoutPending(thread) == Filter(thread, LAMBDA t : ~IsPending(t))

GiveUp ==
    /\ ask.stage = "recovering" /\ ask.polls = MaxPolls
    /\ turns' = WithoutPending(turns)
    /\ ask' = NoAsk
    /\ UNCHANGED <<apiVars, chatVars, activeTurn>>

-----------------------------------------------------------------------------
Api == \E w \in work : Store(w) \/ AnswerFails(w)

Click ==
    /\ moves < MaxMoves /\ Room /\ moves' = moves + 1
    /\ \/ ClickTurn /\ UNCHANGED deletions
       \/ \E c \in Collections : SelectCollection(c) /\ UNCHANGED deletions
       \/ \E x \in Chats : SelectChat(x) /\ UNCHANGED deletions
       \/ \E x \in Chats : DeleteChat(x)

Deletion == \E d \in deletions : ChatIsDeleted(d) \/ DeletionFails(d) \/ DeletionReturns(d)

Deliver == ChatsArrive \/ ReadMessages \/ MessagesArrive

Question ==
    \/ \E text \in Texts : Submit(text) \/ SubmitWithoutChat(text)
    \/ ChatIsCreated \/ ChatIsNotCreated \/ Respond \/ Lose \/ Recover \/ GiveUp

PageNext ==
    \/ Click
    \/ Deletion /\ UNCHANGED moves
    \/ (Api \/ Deliver \/ Question) /\ UNCHANGED clickVars

(* A request ends: with a response, or aborted by the timeout of the page. *)
(* The loop that recovers an answer goes on.                               *)
PageFairness ==
    /\ WF_pageVars((Respond \/ Lose) /\ UNCHANGED clickVars)
    /\ WF_pageVars((ChatIsCreated \/ ChatIsNotCreated) /\ UNCHANGED clickVars)
    /\ WF_pageVars((Recover \/ GiveUp) /\ UNCHANGED clickVars)

PageSpec == PageInit /\ [][PageNext]_pageVars /\ PageFairness

-----------------------------------------------------------------------------
(* Properties.                                                             *)

(* Shape of the state.                                                     *)
PageTypeOK ==
    /\ asks \in 0..MaxAsks /\ moves \in 0..MaxMoves /\ coll \in Collections
    /\ ask.stage \in {"none", "creating", "sent", "recovering"} /\ ask.polls \in 0..MaxPolls
    /\ {w.id : w \in work} \subseteq 1..asks
    /\ activeChat \in Chats \cup {NoChat} /\ chats \subseteq Chats
    /\ activeTurn \in 0..asks
    /\ fetch.stage # "none" => activeChat # NoChat
    /\ \A d \in deletions : d.chat \in d.listed /\ d.listed \subseteq Chats

(* A turn is shown as pending only while its submission is in progress,    *)
(* and once, through changes of chat and collection, threads that arrive   *)
(* meanwhile, failures and recoveries (handleSubmit and the effect that    *)
(* loads the messages).                                                    *)
PendingMeansAsking ==
    \A i \in DOMAIN turns :
        turns[i].pending =>
            /\ ask.stage \in {"sent", "recovering"} /\ turns[i].id = ask.id
            /\ \A j \in DOMAIN turns : turns[j].pending => j = i

(* A submission that ends with an answer ends with a stored answer to the  *)
(* question that was asked, given in the chat where it was asked, although *)
(* a recovered answer is found by the wording alone (recoverSavedAnswer).  *)
AnswerFitsTheQuestion ==
    [][ask.stage \in {"sent", "recovering"} /\ ask' = NoAsk =>
          \/ \E w \in work : /\ w.stored /\ w.id = activeTurn'
                             /\ w.text = ask.text /\ w.chat = ask.chat
          \/ ask.polls = MaxPolls]_pageVars

(* What the thread shows through lost responses, recoveries and callbacks  *)
(* that arrive late: a pending turn only while its question is asked (a    *)
(* change of chat, collection or a deletion may clear it before), and in   *)
(* the end the answer to it.                                               *)
ThreadIsSound == [](PageTypeOK /\ PendingMeansAsking) /\ AnswerFitsTheQuestion

(* A submission does not keep the page waiting for ever, whatever becomes  *)
(* of the connection, the API and the chat (the finally of handleSubmit).  *)
SubmissionsEnd == ask.stage # "none" ~> ask.stage = "none"
=============================================================================
