-------------------------------- MODULE Memory --------------------------------
(***************************************************************************)
(* What the system remembers: the wiki entries and the experiences of      *)
(* reviews, each with an embedding vector, and the agent's recall of both. *)
(*                                                                         *)
(* For every signal the agent embeds a query, fills in the vectors of wiki *)
(* entries that have none, and asks both tables for the rows nearest to    *)
(* its query.  The review worker embeds the experience it inserts.  Each   *)
(* worker makes its embedder once, when it starts, from the configured     *)
(* provider; the operator edits the configuration and the tables by hand.  *)
(*                                                                         *)
(*   idle --embed--> fill --per entry: embed, UPDATE--> recall --> wikis -> idle *)
(*                                                                         *)
(* A vector is its semantic space, its length and whether its numbers are  *)
(* finite: normalising turns an infinite one into a NaN, and the vector    *)
(* type takes neither.  The nearest rows are any rows.                     *)
(***************************************************************************)
EXTENDS Naturals, Sequences, FiniteSets

CONSTANTS
    Topics,          \* the symbols of signals
    Seeds,           \* the topics of V004's wiki entries, a sequence
    Dim,             \* EMBEDDING_DIM, and the length of the vector columns
    Lengths,         \* lengths of the vectors the provider may return
    NotFinite,       \* the provider may return numbers that are not finite
    BackfillLimit,   \* entries filled in before a recall
    RecallLimit,     \* rows a recall returns
    MaxEntries,      \* bound on the wiki
    MaxExperiences,  \* bound on the experiences
    MaxDisruptions,  \* bound on faults, restarts, clears and switches together
    None             \* the absent value

ASSUME NumbersAssumption ==
    /\ Dim \in Nat \ {0} /\ Lengths \subseteq Nat \ {0} /\ NotFinite \in BOOLEAN
    /\ BackfillLimit \in Nat \ {0} /\ RecallLimit \in Nat
    /\ MaxEntries \in Nat /\ MaxExperiences \in Nat /\ MaxDisruptions \in Nat
ASSUME SeedsAssumption == Seeds \in Seq(Topics \cup {None})
ASSUME NoneAssumption == /\ None \notin Topics
                         /\ None \notin [space : {"hash", "model"}, dim : Nat, finite : BOOLEAN]

VARIABLES
    provider,     \* EMBEDDING_PROVIDER as configured now
    embedder,     \* the embedder each running worker made when it started
    wiki,         \* wiki_entry in the order of created_at
    experiences,  \* experience_memory in the order of created_at
    agent,        \* the agent's round on a signal
    review,       \* the experience the review worker is about to insert
    outcome,      \* how the last round of each worker ended
    disruptions,  \* how many disruptions there were
    unrestarted,  \* history: workers not restarted since the provider changed
    clean,        \* history: tables cleared since their writer was restarted
    fellBack      \* history: the provider failed and a fallback took its place

tables == <<wiki, experiences>>
history == <<unrestarted, clean, fellBack>>
vars == <<provider, embedder, tables, agent, review, outcome, disruptions, history>>

-----------------------------------------------------------------------------
(* Types *)

Workers == {"agent", "review"}

Providers == {"hash", "model"}

Vector == [space : Providers, dim : Nat, finite : BOOLEAN]

Subject == Topics \cup {None}      \* None: a row on every topic

Entry == [topic : Subject, vector : Vector \cup {None}, active : BOOLEAN]

Experience == [topic : Subject, vector : Vector \cup {None}]

Round == [pc        : {"idle", "batch", "fill", "recall", "wikis", "done"},
          topic     : Subject,
          query     : Vector \cup {None},
          batch     : SUBSET Nat,            \* the entries to fill in
          todo      : SUBSET Nat,            \* those still to do
          hand      : Vector \cup {None},    \* the vector about to be stored
          disturbed : BOOLEAN,               \* history: a fault, a refusal or a clear meanwhile
          hits      : SUBSET Nat]            \* the entries recalled

TypeOK ==
    /\ provider \in Providers
    /\ embedder \in [Workers -> Providers]
    /\ wiki \in Seq(Entry)
    /\ experiences \in Seq(Experience)
    /\ agent \in Round
    /\ agent.todo \subseteq agent.batch
    /\ agent.batch \cup agent.hits \subseteq DOMAIN wiki
    /\ review \in Vector \cup {None}
    /\ outcome \in [Workers -> {"none", "done", "failed", "unavailable"}]
    /\ disruptions \in 0..MaxDisruptions
    /\ unrestarted \subseteq Workers
    /\ clean \subseteq {"wiki", "experiences"}
    /\ fellBack \in BOOLEAN

-----------------------------------------------------------------------------
(* EmbeddingProvider *)

\* Mutant of Fitted: the provider's vector is taken as it is.
Unfitted(n) == n

\* A vector of length n is padded with zeros or cut off.
Fitted(n) == IF n < Dim THEN n + (Dim - n) ELSE Dim

HashVector == [space |-> "hash", dim |-> Dim, finite |-> TRUE]      \* DeterministicEmbedder

\* What OpenAICompatEmbedder makes of what the provider returns: NaN and
\* infinite numbers pass through float() and the division by the norm.
ModelVectors == [space : {"model"}, dim : {Fitted(n) : n \in Lengths}, finite : {TRUE, ~NotFinite}]

\* It answers with the model's vector or, whatever raises, with the hash.
Embeddings(kind) ==
    IF kind = "hash"
    THEN {[vector |-> HashVector, fellBack |-> FALSE]}
    ELSE {[vector |-> v, fellBack |-> FALSE] : v \in ModelVectors}
           \cup {[vector |-> HashVector, fellBack |-> TRUE]}

\* What the vector columns take.
Storable(v) == v.dim = Dim /\ v.finite

-----------------------------------------------------------------------------
(* Reading the tables *)

Bare == {i \in DOMAIN wiki : wiki[i].active /\ wiki[i].vector = None}

\* Mutant of Backlog: without the condition on the vector.
OldestActive ==
    LET on == {i \in DOMAIN wiki : wiki[i].active}
    IN  {i \in on : Cardinality({j \in on : j < i}) < BackfillLimit}

\* wiki_without_embedding: the oldest of them.
Backlog == {i \in Bare : Cardinality({j \in Bare : j < i}) < BackfillLimit}

\* recall_wikis before its limit.
Relevant(t) == {i \in DOMAIN wiki : wiki[i].active /\ wiki[i].topic \in {t, None}}

\* Entries without a vector come first, then the nearest; the limit cuts off.
Recalls(t) ==
    {hits \in SUBSET Relevant(t) :
        /\ Cardinality(hits) <= RecallLimit
        /\ Cardinality(hits) < RecallLimit => hits = Relevant(t)
        /\ \A i \in hits, j \in Relevant(t) \ hits : j \in Bare => i \in Bare}

-----------------------------------------------------------------------------
(* Initial state: the seeded wiki, workers just started *)

IdleRound == [pc |-> "idle", topic |-> None, query |-> None, batch |-> {}, todo |-> {},
              hand |-> None, disturbed |-> FALSE, hits |-> {}]

\* Mutant of NewEntry: active has no default.
NewEntryUnset(t) == [topic |-> t, vector |-> None, active |-> None]

NewEntry(t) == [topic |-> t, vector |-> None, active |-> TRUE]

Init ==
    /\ provider \in Providers
    /\ embedder = [w \in Workers |-> provider]
    /\ wiki = [i \in DOMAIN Seeds |-> NewEntry(Seeds[i])]
    /\ experiences = <<>>
    /\ agent = IdleRound
    /\ review = None
    /\ outcome = [w \in Workers |-> "none"]
    /\ disruptions = 0
    /\ unrestarted = {}
    /\ clean = {"wiki", "experiences"}
    /\ fellBack = FALSE

-----------------------------------------------------------------------------
(* handle_signal, up to the decision *)

\* The query of the next signal is embedded.
StartRound(t) ==
    /\ agent.pc = "idle"
    /\ \E e \in Embeddings(embedder["agent"]) :
         /\ agent' = [IdleRound EXCEPT !.pc = "batch", !.topic = t, !.query = e.vector]
         /\ fellBack' = (fellBack \/ e.fellBack)
    /\ UNCHANGED <<provider, embedder, tables, review, outcome, disruptions, unrestarted, clean>>

ReadBacklog ==
    /\ agent.pc = "batch"
    /\ agent' = [agent EXCEPT !.pc = "fill", !.batch = Backlog, !.todo = Backlog]
    /\ UNCHANGED <<provider, embedder, tables, review, outcome, disruptions, history>>

EmbedEntry ==
    /\ agent.pc = "fill"
    /\ agent.todo # {}
    /\ agent.hand = None
    /\ \E e \in Embeddings(embedder["agent"]) :
         /\ agent' = [agent EXCEPT !.hand = e.vector]
         /\ fellBack' = (fellBack \/ e.fellBack)
    /\ UNCHANGED <<provider, embedder, tables, review, outcome, disruptions, unrestarted, clean>>

\* The entry of the batch whose turn it is has its vector in hand.
IsNext(i) ==
    /\ agent.pc = "fill"
    /\ agent.hand # None
    /\ i \in agent.todo
    /\ \A j \in agent.todo : i <= j

\* update_wiki_embedding, whatever the row holds by now.  The column refuses
\* some vectors; the error is caught and the loop goes on.
StoreEntry(i) ==
    /\ IsNext(i)
    /\ wiki' = IF Storable(agent.hand) THEN [wiki EXCEPT ![i].vector = agent.hand] ELSE wiki
    /\ agent' = [agent EXCEPT !.hand = None, !.todo = @ \ {i},
                             !.disturbed = @ \/ ~Storable(agent.hand)]
    /\ UNCHANGED <<provider, embedder, experiences, review, outcome, disruptions, history>>

\* The UPDATE fails: the row is left as it is.
StoreFails(i) ==
    /\ IsNext(i)
    /\ disruptions < MaxDisruptions
    /\ agent' = [agent EXCEPT !.hand = None, !.todo = @ \ {i}, !.disturbed = TRUE]
    /\ disruptions' = disruptions + 1
    /\ UNCHANGED <<provider, embedder, tables, review, outcome, history>>

\* Mutant of EndFill: the wiki is recalled first and filled in later.
EndFillAtOnce ==
    /\ agent.pc = "fill"
    /\ agent' = [agent EXCEPT !.pc = "recall", !.hand = None]
    /\ UNCHANGED <<provider, embedder, tables, review, outcome, disruptions, history>>

EndFill ==
    /\ agent.pc = "fill"
    /\ agent.todo = {}
    /\ agent' = [agent EXCEPT !.pc = "recall"]
    /\ UNCHANGED <<provider, embedder, tables, review, outcome, disruptions, history>>

\* recall_experiences: a query that is not finite is no vector, and comparing
\* vectors of different lengths is an error; either fails the signal.  The rows
\* it finds go into the prompt only.
RecallExperiences ==
    /\ agent.pc = "recall"
    /\ IF \/ ~agent.query.finite
          \/ \E i \in DOMAIN experiences :
                /\ experiences[i].vector # None
                /\ experiences[i].topic \in {agent.topic, None}
                /\ agent.query.dim # experiences[i].vector.dim
       THEN /\ agent' = IdleRound
            /\ outcome' = [outcome EXCEPT !["agent"] = "failed"]
       ELSE /\ agent' = [agent EXCEPT !.pc = "wikis"]
            /\ UNCHANGED outcome
    /\ UNCHANGED <<provider, embedder, tables, review, disruptions, history>>

RecallWikis ==
    /\ agent.pc = "wikis"
    /\ IF \/ ~agent.query.finite
          \/ \E i \in Relevant(agent.topic) \ Bare : agent.query.dim # wiki[i].vector.dim
       THEN /\ agent' = IdleRound
            /\ outcome' = [outcome EXCEPT !["agent"] = "failed"]
       ELSE /\ \E hits \in Recalls(agent.topic) :
                 agent' = [agent EXCEPT !.pc = "done", !.hits = hits]
            /\ UNCHANGED outcome
    /\ UNCHANGED <<provider, embedder, tables, review, disruptions, history>>

\* bump_wiki_use, and on to the decision.
EndRound ==
    /\ agent.pc = "done"
    /\ agent' = IdleRound
    /\ outcome' = [outcome EXCEPT !["agent"] = "done"]
    /\ UNCHANGED <<provider, embedder, tables, review, disruptions, history>>

\* A query fails outside the loop over the batch: so does the signal.
RoundFails ==
    /\ agent.pc \notin {"idle", "fill"}
    /\ disruptions < MaxDisruptions
    /\ agent' = IdleRound
    /\ outcome' = [outcome EXCEPT !["agent"] = "unavailable"]
    /\ disruptions' = disruptions + 1
    /\ UNCHANGED <<provider, embedder, tables, review, history>>

-----------------------------------------------------------------------------
(* review_one *)

EmbedExperience ==
    /\ review = None
    /\ Len(experiences) < MaxExperiences
    /\ \E e \in Embeddings(embedder["review"]) :
         /\ review' = e.vector
         /\ fellBack' = (fellBack \/ e.fellBack)
    /\ UNCHANGED <<provider, embedder, tables, agent, outcome, disruptions, unrestarted, clean>>

\* insert_review_bundle; a vector the column refuses fails the review.
InsertExperience(t) ==
    /\ review # None
    /\ IF Storable(review)
       THEN /\ experiences' = Append(experiences, [topic |-> t, vector |-> review])
            /\ outcome' = [outcome EXCEPT !["review"] = "done"]
       ELSE /\ outcome' = [outcome EXCEPT !["review"] = "failed"]
            /\ UNCHANGED experiences
    /\ review' = None
    /\ UNCHANGED <<provider, embedder, wiki, agent, disruptions, history>>

InsertFails ==
    /\ review # None
    /\ disruptions < MaxDisruptions
    /\ review' = None
    /\ outcome' = [outcome EXCEPT !["review"] = "unavailable"]
    /\ disruptions' = disruptions + 1
    /\ UNCHANGED <<provider, embedder, tables, agent, history>>

-----------------------------------------------------------------------------
(* What the operator does, and crashes *)

AddEntry(t) ==
    /\ Len(wiki) < MaxEntries
    /\ wiki' = Append(wiki, NewEntry(t))
    /\ UNCHANGED <<provider, embedder, experiences, agent, review, outcome, disruptions, history>>

Deactivate(i) ==
    /\ wiki[i].active
    /\ wiki' = [wiki EXCEPT ![i].active = FALSE]
    /\ UNCHANGED <<provider, embedder, experiences, agent, review, outcome, disruptions, history>>

\* One more of the disruptions there is a bound on.
Disrupt ==
    /\ disruptions < MaxDisruptions
    /\ disruptions' = disruptions + 1

\* The .env is edited; no running worker notices.
ChangeProvider ==
    /\ Disrupt
    /\ \E p \in Providers \ {provider} : provider' = p
    /\ unrestarted' = Workers
    /\ clean' = {}
    /\ UNCHANGED <<embedder, tables, agent, review, outcome, fellBack>>

\* Mutant of Restart: the embedder outlives the worker.
RestartAsWas(w) ==
    /\ Disrupt
    /\ agent' = IF w = "agent" THEN IdleRound ELSE agent
    /\ review' = IF w = "review" THEN None ELSE review
    /\ unrestarted' = unrestarted \ {w}
    /\ UNCHANGED <<provider, embedder, tables, outcome, clean, fellBack>>

\* A worker stops, or dies, and starts again: make_embedder reads the settings.
Restart(w) ==
    /\ Disrupt
    /\ embedder' = [embedder EXCEPT ![w] = provider]
    /\ agent' = IF w = "agent" THEN IdleRound ELSE agent
    /\ review' = IF w = "review" THEN None ELSE review
    /\ unrestarted' = unrestarted \ {w}
    /\ UNCHANGED <<provider, tables, outcome, clean, fellBack>>

\* UPDATE wiki_entry SET embedding = NULL
ClearWiki ==
    /\ Disrupt
    /\ wiki' = [i \in DOMAIN wiki |-> [wiki[i] EXCEPT !.vector = None]]
    /\ agent' = [agent EXCEPT !.disturbed = agent.pc # "idle"]
    /\ clean' = clean \cup (IF "agent" \in unrestarted THEN {} ELSE {"wiki"})
    /\ UNCHANGED <<provider, embedder, experiences, review, outcome, unrestarted, fellBack>>

\* UPDATE experience_memory SET embedding = NULL
ClearExperiences ==
    /\ Disrupt
    /\ experiences' = [i \in DOMAIN experiences |-> [experiences[i] EXCEPT !.vector = None]]
    /\ clean' = clean \cup (IF "review" \in unrestarted THEN {} ELSE {"experiences"})
    /\ UNCHANGED <<provider, embedder, wiki, agent, review, outcome, unrestarted, fellBack>>

AgentStep ==
    \/ \E t \in Topics : StartRound(t)
    \/ ReadBacklog
    \/ EmbedEntry
    \/ \E i \in DOMAIN wiki : StoreEntry(i)
    \/ EndFill
    \/ RecallExperiences
    \/ RecallWikis
    \/ EndRound

ReviewStep == EmbedExperience \/ \E t \in Topics : InsertExperience(t)

Operator ==
    \/ \E t \in Subject : AddEntry(t)
    \/ \E i \in DOMAIN wiki : Deactivate(i)
    \/ ChangeProvider
    \/ \E w \in Workers : Restart(w)
    \/ ClearWiki
    \/ ClearExperiences

Next ==
    \/ AgentStep
    \/ \E i \in DOMAIN wiki : StoreFails(i)
    \/ RoundFails
    \/ ReviewStep
    \/ InsertFails
    \/ Operator

\* The event loop runs the agent, and signals keep coming.
Spec == Init /\ [][Next]_vars /\ WF_vars(AgentStep)

-----------------------------------------------------------------------------
(* Properties *)

\* The embedding provider never fails a signal or a review, however long the
\* vectors it returns and whenever it fails: only the database does (embed's
\* fallback, padding and cutting; wiki.md: it never blocks the agent).
NeverBlocked == \A w \in Workers : outcome[w] # "failed"

\* Every vector in table rows is of the configured provider's space.
OfProvider(rows) ==
    \A i \in DOMAIN rows : rows[i].vector # None => rows[i].vector.space = provider

\* When the operator follows wiki.md - change the provider, restart the workers,
\* clear both tables - and no request fell back to the hash, a recall compares
\* vectors of one semantic space, whatever the workers had in hand during the
\* switch.
OneSpace ==
    ~fellBack =>
        /\ "wiki" \in clean => OfProvider(wiki)
        /\ "experiences" \in clean => OfProvider(experiences)
        /\ agent.query # None /\ "agent" \notin unrestarted => agent.query.space = provider

\* In a round without a fault, a refusal or a clear, an entry is recalled without
\* a vector only when it was not among those the round had to fill in
\* (backfill_wiki_embeddings comes before recall_wikis).
FilledBeforeRecall ==
    agent.disturbed \/ \A i \in agent.hits \cap agent.batch : wiki[i].vector # None

\* However many entries are waiting and whichever stores fail, a new or cleared
\* entry gets its vector or is deactivated (wiki.md: the agent-worker fills it
\* in on its next run).
EntryIsFilled == \A i \in 1..MaxEntries : []<>(i \notin Bare)
=============================================================================
