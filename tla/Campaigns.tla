------------------------------ MODULE Campaigns ------------------------------
(***************************************************************************)
(* Generated texts that are kept: outreach messages with the count of their   *)
(* campaign (routers/ghost_agency.py) and content clones                       *)
(* (routers/content_cloner.py).  A request loads the campaign, calls the model, *)
(* and writes text, count and usage record in one transaction after it; the     *)
(* monthly counter in Redis is incremented in between.                          *)
(***************************************************************************)
EXTENDS Naturals, FiniteSets

CONSTANTS
    Texts,      \* requests that generate; each is also the name of its text
    Campaigns,  \* campaign ids
    Archive,    \* where content clones go: no campaign
    NoText

ASSUME CampaignsAssumption ==
    Archive \notin Campaigns /\ NoText \notin Texts /\ IsFiniteSet(Texts)

VARIABLES
    campaigns,  \* those with a row
    generated,  \* [Campaigns -> messages_generated, or the last one]
    texts,       \* committed texts with where they are
    text,       \* [Texts -> where the request is, its campaign, the count it loaded]
    rowHolder,  \* [Campaigns -> the transaction that has updated the row, or NoText]
    counted,    \* the month's counter
    \* history
    born,       \* campaign ids ever given out
    written,    \* texts ever committed
    mixed,      \* campaigns that two requests had loaded at once
    unseen      \* a call of Redis has failed

campaignVars == <<campaigns, generated, texts, text, rowHolder, counted,
                  born, written, mixed, unseen>>

Unwritten == [at |-> "unsent", of |-> Archive, seen |-> 0]

CampaignsInit ==
    /\ campaigns = {} /\ born = {} /\ generated = [c \in Campaigns |-> 0]
    /\ texts = {} /\ written = {}
    /\ text = [t \in Texts |-> Unwritten]
    /\ rowHolder = [c \in Campaigns |-> NoText]
    /\ counted = 0 /\ mixed = {} /\ unseen = FALSE

Open(t) == text[t].at \in {"called", "flushed", "counted"}

CreateCampaign(c) ==
    /\ c \notin born
    /\ born' = born \cup {c} /\ campaigns' = campaigns \cup {c}
    /\ UNCHANGED <<generated, texts, text, rowHolder, counted, written, mixed, unseen>>

\* The campaign is loaded, then the model called: generate_outreach.
Generate(t, c) ==
    /\ text[t].at = "unsent" /\ c \in campaigns
    /\ text' = [text EXCEPT ![t] = [at |-> "called", of |-> c, seen |-> generated[c]]]
    /\ mixed' = mixed \cup {d \in {c} : \E u \in Texts : text[u].of = d /\ Open(u)}
    /\ UNCHANGED <<campaigns, born, generated, texts, rowHolder, counted, written, unseen>>

\* create_clone.
Clone(t) ==
    /\ text[t].at = "unsent"
    /\ text' = [text EXCEPT ![t] = [at |-> "called", of |-> Archive, seen |-> 0]]
    /\ UNCHANGED <<campaigns, born, generated, texts, rowHolder, counted, written, mixed, unseen>>

\* The flush in record_usage: UPDATE of the campaign, INSERT of the text.  It waits for
\* another transaction's update; a campaign deleted meanwhile raises.
Flush(t) ==
    LET c == text[t].of IN
    /\ text[t].at = "called"
    /\ c # Archive => c \in campaigns /\ rowHolder[c] = NoText
    /\ text' = [text EXCEPT ![t].at = "flushed"]
    /\ rowHolder' = [d \in Campaigns |-> IF d = c THEN t ELSE rowHolder[d]]
    /\ UNCHANGED <<campaigns, born, generated, texts, counted, written, mixed, unseen>>

\* INCR; its errors are swallowed.
CountText(t) ==
    /\ text[t].at = "flushed"
    /\ text' = [text EXCEPT ![t].at = "counted"]
    /\ \/ counted' = counted + 1 /\ UNCHANGED unseen
       \/ unseen' = TRUE /\ UNCHANGED counted
    /\ UNCHANGED <<campaigns, born, generated, texts, rowHolder, written, mixed>>

Released(t) == [c \in Campaigns |-> IF rowHolder[c] = t THEN NoText ELSE rowHolder[c]]

CommitText(t) ==
    LET c == text[t].of IN
    /\ text[t].at = "counted"
    /\ texts' = texts \cup {[name |-> t, of |-> c]} /\ written' = written \cup {t}
    /\ generated' = [d \in Campaigns |-> IF d = c THEN text[t].seen + 1 ELSE generated[d]]
    /\ text' = [text EXCEPT ![t].at = "stored"]
    /\ rowHolder' = Released(t)
    /\ UNCHANGED <<campaigns, born, counted, mixed, unseen>>

\* A deleted campaign, a lost connection or a client that leaves: nothing is stored.
DropText(t) ==
    /\ Open(t)
    /\ text' = [text EXCEPT ![t].at = "dropped"]
    /\ rowHolder' = Released(t)
    /\ UNCHANGED <<campaigns, born, generated, texts, counted, written, mixed, unseen>>

\* Mutant: the messages stay.
DeleteKeepsTexts(c) ==
    /\ c \in campaigns /\ rowHolder[c] = NoText
    /\ campaigns' = campaigns \ {c}
    /\ UNCHANGED <<generated, texts, text, rowHolder, counted, born, written, mixed, unseen>>

\* DELETE waits for an update in progress; the foreign key deletes the messages.
DeleteCampaign(c) ==
    /\ c \in campaigns /\ rowHolder[c] = NoText
    /\ campaigns' = campaigns \ {c}
    /\ texts' = {k \in texts : k.of # c}
    /\ UNCHANGED <<generated, text, rowHolder, counted, born, written, mixed, unseen>>

CampaignsNext ==
    \/ \E c \in Campaigns : CreateCampaign(c) \/ DeleteCampaign(c)
    \/ \E t \in Texts, c \in Campaigns : Generate(t, c)
    \/ \E t \in Texts :
        Clone(t) \/ Flush(t) \/ CountText(t) \/ CommitText(t) \/ DropText(t)

-----------------------------------------------------------------------------
(* Properties.                                                              *)

CampaignsTypeOK ==
    /\ generated \in [Campaigns -> 0..Cardinality(Texts)] /\ campaigns \subseteq born
    /\ texts \subseteq [name : Texts, of : Campaigns \cup {Archive}]
    /\ \A t \in Texts : text[t].of \in Campaigns \cup {Archive}
    /\ \A c \in Campaigns : rowHolder[c] # NoText =>
         text[rowHolder[c]].of = c /\ text[rowHolder[c]].at \in {"flushed", "counted"}
    /\ counted \in 0..Cardinality(Texts)
    /\ written \subseteq Texts /\ mixed \subseteq Campaigns /\ unseen \in BOOLEAN

\* A campaign's messages_generated never exceeds its messages, and is their number unless
\* two requests had loaded the campaign at once; no message outlives its campaign; and each
\* text stored is counted against the month, unless Redis failed.
TextsCounted ==
    /\ \A c \in campaigns : LET own == {k \in texts : k.of = c} IN
         /\ generated[c] <= Cardinality(own)
         /\ c \notin mixed => generated[c] = Cardinality(own)
    /\ \A k \in texts : k.of \in campaigns \cup {Archive}
    /\ unseen \/ Cardinality(written) <= counted
=============================================================================
