----------------------------- MODULE MemoryProofs -----------------------------
(***************************************************************************)
(* Proofs about the memory: every vector has the column's length, so no    *)
(* signal fails for its embedding as long as the provider's numbers are    *)
(* finite; after the protocol of wiki.md a table and the queries against   *)
(* it are of one semantic space; a round fills in what it has to before it *)
(* recalls.                                                                *)
(***************************************************************************)
EXTENDS Memory, SequenceTheorems, TLAPS

USE NumbersAssumption, NoneAssumption

-----------------------------------------------------------------------------
(* The inductive invariant *)

TablesType ==
    /\ provider \in Providers
    /\ embedder \in [Workers -> Providers]
    /\ wiki \in Seq(Entry)
    /\ experiences \in Seq(Experience)
    /\ review \in Vector \cup {None}
    /\ outcome \in [Workers -> {"none", "done", "failed", "unavailable"}]
    /\ disruptions \in 0..MaxDisruptions
    /\ unrestarted \subseteq Workers
    /\ clean \subseteq {"wiki", "experiences"}
    /\ fellBack \in BOOLEAN

RoundType ==
    /\ agent \in Round
    /\ agent.todo \subseteq agent.batch
    /\ agent.batch \cup agent.hits \subseteq DOMAIN wiki

\* Every vector there is has the length of the column, and is finite when the
\* provider's are.
Fits(v) == v # None => v \in Vector /\ v.dim = Dim /\ (NotFinite \/ v.finite)

TablesFit ==
    /\ \A i \in DOMAIN wiki : Fits(wiki[i].vector)
    /\ \A i \in DOMAIN experiences : Fits(experiences[i].vector)
    /\ Fits(review)

RoundFits ==
    /\ Fits(agent.query)
    /\ Fits(agent.hand)
    /\ agent.pc # "idle" => agent.query # None

\* Without a fallback, what was embedded since a worker was restarted is of the
\* configured space: its embedder, what it has in hand and, once cleared, the
\* table it writes.
Of(v) == v # None => v.space = provider

EmbeddersAgree == ~fellBack => \A w \in Workers \ unrestarted : embedder[w] = provider

RoundAgrees == ~fellBack /\ "agent" \notin unrestarted => Of(agent.query) /\ Of(agent.hand)

ReviewAgrees == ~fellBack /\ "review" \notin unrestarted => Of(review)

WikiAgrees == ~fellBack /\ "wiki" \in clean => "agent" \notin unrestarted /\ OfProvider(wiki)

ExperiencesAgree ==
    ~fellBack /\ "experiences" \in clean => "review" \notin unrestarted /\ OfProvider(experiences)

\* What the round has done of its batch is filled in.
Filling ==
    /\ agent.pc # "fill" => agent.todo = {}
    /\ agent.pc # "done" => agent.hits = {}
    /\ agent.pc = "idle" => agent.batch = {}
    /\ agent.disturbed \/ \A i \in agent.batch \ agent.todo : wiki[i].vector # None

Agree == EmbeddersAgree /\ RoundAgrees /\ ReviewAgrees /\ WikiAgrees /\ ExperiencesAgree

\* Nothing fails for its vector when the provider's numbers are finite.
Unblocked == NotFinite \/ NeverBlocked

Inv == TablesType /\ RoundType /\ TablesFit /\ RoundFits /\ Agree /\ Filling /\ Unblocked

-----------------------------------------------------------------------------
(* Embeddings *)

LEMMA FittedIsDim == ASSUME NEW n \in Lengths PROVE Fitted(n) = Dim
  BY DEF Fitted

\* What an embedder answers, whatever the provider did.
LEMMA EmbeddingFits ==
    ASSUME NEW k \in Providers, NEW e \in Embeddings(k)
    PROVE  /\ e.vector \in Vector /\ e.vector # None /\ Fits(e.vector)
           /\ e.fellBack \in BOOLEAN
           /\ ~e.fellBack => e.vector.space = k
<1>1. /\ HashVector \in Vector /\ HashVector.dim = Dim /\ HashVector.space = "hash"
      /\ HashVector.finite
  BY DEF HashVector, Vector, Providers
<1>2. None \notin Vector
  BY DEF Vector, Providers
<1>3. Fits(HashVector)
  BY <1>1 DEF Fits
<1>4. CASE k = "hash"
  <2>1. e = [vector |-> HashVector, fellBack |-> FALSE]
    BY <1>4 DEF Embeddings
  <2>2. QED
    BY <1>1, <1>2, <1>3, <1>4, <2>1
<1>5. CASE k # "hash"
  <2>1. k = "model"
    BY <1>5 DEF Providers
  <2>2. CASE e = [vector |-> HashVector, fellBack |-> TRUE]
    BY <1>1, <1>2, <1>3, <2>2
  <2>3. ASSUME NEW v \in ModelVectors, e = [vector |-> v, fellBack |-> FALSE]
        PROVE  /\ e.vector \in Vector /\ e.vector # None /\ Fits(e.vector)
               /\ e.fellBack \in BOOLEAN
               /\ ~e.fellBack => e.vector.space = k
    <3>1. /\ v \in Vector /\ v.space = "model" /\ v.dim = Dim
          /\ NotFinite \/ v.finite
      BY FittedIsDim DEF ModelVectors, Vector, Providers
    <3>2. Fits(v)
      BY <3>1 DEF Fits
    <3>3. QED
      BY <1>2, <2>1, <2>3, <3>1, <3>2
  <2>4. QED
    BY <1>5, <2>2, <2>3 DEF Embeddings
<1>6. QED
  BY <1>4, <1>5

LEMMA BacklogInWiki == Backlog \subseteq DOMAIN wiki
  BY DEF Backlog, Bare

-----------------------------------------------------------------------------
(* The invariant is inductive *)

LEMMA InitInv == Init => Inv
<1> SUFFICES ASSUME Init PROVE Inv
  OBVIOUS
<1>1. TablesType
  <2>1. wiki \in Seq(Entry)
    <3>1. \A i \in DOMAIN Seeds : NewEntry(Seeds[i]) \in Entry
      BY SeedsAssumption DEF NewEntry, Entry, Subject
    <3>2. /\ Len(Seeds) \in Nat
          /\ DOMAIN Seeds = 1..Len(Seeds)
      BY SeedsAssumption
    <3>3. wiki \in [1..Len(Seeds) -> Entry]
      BY <3>1, <3>2 DEF Init
    <3> QED BY <3>2, <3>3
  <2>2. experiences \in Seq(Experience) BY DEF Init
  <2>3. /\ embedder \in [Workers -> Providers]
        /\ outcome \in [Workers -> {"none", "done", "failed", "unavailable"}]
    BY DEF Init
  <2>4. /\ provider \in Providers
        /\ review \in Vector \cup {None}
        /\ disruptions \in 0..MaxDisruptions
    BY DEF Init
  <2>5. /\ unrestarted \subseteq Workers
        /\ clean \subseteq {"wiki", "experiences"}
        /\ fellBack \in BOOLEAN
    BY DEF Init
  <2> QED BY <2>1, <2>2, <2>3, <2>4, <2>5 DEF TablesType
<1>2. RoundType
  BY DEF Init, RoundType, IdleRound, Round, Subject
<1>3. TablesFit /\ RoundFits
  BY SeedsAssumption DEF Init, TablesFit, RoundFits, IdleRound, Fits, NewEntry
<1>4. EmbeddersAgree
  BY DEF Init, EmbeddersAgree
<1>5. RoundAgrees /\ ReviewAgrees
  BY DEF Init, RoundAgrees, ReviewAgrees, Of, IdleRound
<1>6. WikiAgrees /\ ExperiencesAgree
  BY DEF Init, WikiAgrees, ExperiencesAgree, OfProvider, NewEntry
<1>7. Filling /\ Unblocked
  BY DEF Init, Filling, Unblocked, NeverBlocked, IdleRound
<1> QED BY <1>1, <1>2, <1>3, <1>4, <1>5, <1>6, <1>7 DEF Inv, Agree

\* A step of the agent on its round alone: it embeds nothing.
LEMMA RoundStep ==
    ASSUME Inv, TablesType', RoundType', Filling', Unblocked',
           UNCHANGED <<provider, embedder, tables, review, history>>,
           agent'.query \in {agent.query, None},
           agent'.hand \in {agent.hand, None},
           agent'.pc = "idle" \/ (agent.pc # "idle" /\ agent'.query = agent.query)
    PROVE  Inv'
<1>1. TablesFit' /\ RoundFits'
  BY DEF Inv, tables, TablesFit, RoundFits, Fits
<1>2. EmbeddersAgree' /\ ReviewAgrees' /\ WikiAgrees' /\ ExperiencesAgree'
  BY DEF Inv, Agree, tables, history, EmbeddersAgree, ReviewAgrees, WikiAgrees,
         ExperiencesAgree, Of, OfProvider
<1>3. RoundAgrees'
  BY DEF Inv, Agree, history, RoundAgrees, Of
<1> QED BY <1>1, <1>2, <1>3 DEF Inv, Agree

\* The round is over.
LEMMA BackToIdle ==
    ASSUME Inv, TablesType', Unblocked', agent' = IdleRound,
           UNCHANGED <<provider, embedder, tables, review, history>>
    PROVE  Inv'
<1>1. /\ agent'.pc = "idle" /\ agent'.query = None /\ agent'.hand = None
      /\ agent'.batch = {} /\ agent'.todo = {} /\ agent'.hits = {}
      /\ agent' \in Round
  BY DEF IdleRound, Round, Subject
<1>2. RoundType' /\ Filling'
  BY <1>1 DEF RoundType, Filling
<1>3. /\ agent'.query \in {agent.query, None} /\ agent'.hand \in {agent.hand, None}
      /\ UNCHANGED <<provider, embedder, tables, review, history>>
  BY <1>1
<1> QED BY <1>1, <1>2, <1>3, RoundStep

\* The steps of the round.
LEMMA ReadBacklogStep == ASSUME Inv, ReadBacklog PROVE Inv'
<1>1. TablesType' /\ Unblocked'
  BY DEF Inv, TablesType, Unblocked, NeverBlocked, ReadBacklog, tables, history
<1>2. agent \in Round BY DEF Inv, RoundType
<1>3. /\ agent' = [agent EXCEPT !.pc = "fill", !.batch = Backlog, !.todo = Backlog]
      /\ UNCHANGED <<provider, embedder, tables, review, history>>
      /\ UNCHANGED <<wiki, experiences>>
  BY DEF ReadBacklog, tables
<1>4. agent.pc = "batch" /\ Backlog \subseteq DOMAIN wiki /\ Backlog \in SUBSET Nat
  BY BacklogInWiki DEF Inv, TablesType, ReadBacklog
<1>5. /\ agent'.pc = "fill"
      /\ agent'.query = agent.query
      /\ agent'.batch = Backlog
      /\ agent'.todo = Backlog
      /\ agent'.hand = agent.hand
      /\ agent'.disturbed = agent.disturbed
      /\ agent'.hits = agent.hits
  BY <1>2, <1>3 DEF Round
<1>6. RoundType'
  <2>1. agent' \in Round BY <1>2, <1>3, <1>4 DEF Round
  <2> QED BY <2>1, <1>3, <1>4, <1>5 DEF RoundType, Inv
<1>7. Filling'
  BY <1>3, <1>5, <1>4 DEF Inv, Filling
<1> QED BY <1>1, <1>3, <1>4, <1>5, <1>6, <1>7, RoundStep

LEMMA StoreFailsStep == ASSUME Inv, NEW i \in DOMAIN wiki, StoreFails(i) PROVE Inv'
<1>1. TablesType' /\ Unblocked'
  BY DEF Inv, TablesType, Unblocked, NeverBlocked, StoreFails, tables, history
<1>2. agent \in Round BY DEF Inv, RoundType
<1>3. /\ agent' = [agent EXCEPT !.hand = None, !.todo = @ \ {i}, !.disturbed = TRUE]
      /\ UNCHANGED <<provider, embedder, tables, review, history>>
      /\ UNCHANGED <<wiki, experiences>>
  BY DEF StoreFails, tables
<1>4. agent.pc = "fill" BY DEF StoreFails, IsNext
<1>5. /\ agent'.pc = agent.pc
      /\ agent'.query = agent.query
      /\ agent'.batch = agent.batch
      /\ agent'.todo = agent.todo \ {i}
      /\ agent'.hand = None
      /\ agent'.disturbed = TRUE
      /\ agent'.hits = agent.hits
  BY <1>2, <1>3 DEF Round
<1>6. RoundType'
  <2>1. agent' \in Round BY <1>2, <1>3, <1>4 DEF Round
  <2> QED BY <2>1, <1>3, <1>4, <1>5 DEF RoundType, Inv
<1>7. Filling'
  BY <1>3, <1>5, <1>4 DEF Inv, Filling
<1> QED BY <1>1, <1>3, <1>4, <1>5, <1>6, <1>7, RoundStep

LEMMA EndFillStep == ASSUME Inv, EndFill PROVE Inv'
<1>1. TablesType' /\ Unblocked'
  BY DEF Inv, TablesType, Unblocked, NeverBlocked, EndFill, tables, history
<1>2. agent \in Round BY DEF Inv, RoundType
<1>3. /\ agent' = [agent EXCEPT !.pc = "recall"]
      /\ UNCHANGED <<provider, embedder, tables, review, history>>
      /\ UNCHANGED <<wiki, experiences>>
  BY DEF EndFill, tables
<1>4. agent.pc = "fill" /\ agent.todo = {} BY DEF EndFill
<1>5. /\ agent'.pc = "recall"
      /\ agent'.query = agent.query
      /\ agent'.batch = agent.batch
      /\ agent'.todo = agent.todo
      /\ agent'.hand = agent.hand
      /\ agent'.disturbed = agent.disturbed
      /\ agent'.hits = agent.hits
  BY <1>2, <1>3 DEF Round
<1>6. RoundType'
  <2>1. agent' \in Round BY <1>2, <1>3, <1>4 DEF Round
  <2> QED BY <2>1, <1>3, <1>4, <1>5 DEF RoundType, Inv
<1>7. Filling'
  BY <1>3, <1>5, <1>4 DEF Inv, Filling
<1> QED BY <1>1, <1>3, <1>4, <1>5, <1>6, <1>7, RoundStep

LEMMA EndRoundStep == ASSUME Inv, EndRound PROVE Inv'
<1>1. TablesType' /\ Unblocked'
  BY DEF Inv, TablesType, Unblocked, NeverBlocked, EndRound, tables, history, Workers
<1> QED BY <1>1, BackToIdle DEF EndRound

LEMMA RoundFailsStep == ASSUME Inv, RoundFails PROVE Inv'
<1>1. TablesType' /\ Unblocked'
  BY DEF Inv, TablesType, Unblocked, NeverBlocked, RoundFails, tables, history, Workers
<1> QED BY <1>1, BackToIdle DEF RoundFails

\* Ending a signal for its vector: that takes a provider whose numbers are not
\* finite.
LEMMA SignalFails ==
    ASSUME Inv, NotFinite, agent' = IdleRound, outcome' = [outcome EXCEPT !["agent"] = "failed"],
           UNCHANGED <<provider, embedder, tables, review, disruptions, history>>
    PROVE  Inv'
<1>1. outcome' \in [Workers -> {"none", "done", "failed", "unavailable"}]
  BY DEF Inv, TablesType
<1>2. TablesType' /\ Unblocked'
  BY <1>1 DEF Inv, TablesType, Unblocked, tables, history
<1>3. QED
  BY <1>2, BackToIdle

\* Vectors of different lengths are never compared.
LEMMA RecallExperiencesStep == ASSUME Inv, RecallExperiences PROVE Inv'
<1>0. CASE ~agent.query.finite
  <2>1. agent.query # None /\ Fits(agent.query)
    BY DEF Inv, RoundFits, RecallExperiences
  <2>2. NotFinite
    BY <1>0, <2>1 DEF Fits
  <2>3. QED
    BY <1>0, <2>2, SignalFails DEF RecallExperiences
<1> SUFFICES ASSUME agent.query.finite PROVE Inv'
  BY <1>0
<1>1. ~ \E i \in DOMAIN experiences :
            /\ experiences[i].vector # None
            /\ experiences[i].topic \in {agent.topic, None}
            /\ agent.query.dim # experiences[i].vector.dim
  BY DEF Inv, TablesFit, RoundFits, Fits, RecallExperiences
<1>2. /\ agent' = [agent EXCEPT !.pc = "wikis"]
      /\ agent.pc = "recall"
      /\ UNCHANGED outcome
      /\ UNCHANGED <<provider, embedder, tables, review, disruptions, history>>
      /\ UNCHANGED <<wiki, experiences>>
  BY <1>1 DEF RecallExperiences, tables
<1>3. TablesType' /\ Unblocked'
  BY <1>2 DEF Inv, TablesType, Unblocked, NeverBlocked, tables, history
<1>4. agent \in Round BY DEF Inv, RoundType
<1>5. /\ agent'.pc = "wikis" /\ agent'.query = agent.query /\ agent'.batch = agent.batch
      /\ agent'.todo = agent.todo /\ agent'.hand = agent.hand
      /\ agent'.disturbed = agent.disturbed /\ agent'.hits = agent.hits
      /\ agent' \in Round
  BY <1>2, <1>4 DEF Round
<1>6. RoundType' /\ Filling'
  BY <1>2, <1>5 DEF Inv, RoundType, Filling
<1> QED BY <1>2, <1>3, <1>5, <1>6, RoundStep

LEMMA RecallWikisStep == ASSUME Inv, RecallWikis PROVE Inv'
<1>0. CASE ~agent.query.finite
  <2>1. agent.query # None /\ Fits(agent.query)
    BY DEF Inv, RoundFits, RecallWikis
  <2>2. NotFinite
    BY <1>0, <2>1 DEF Fits
  <2>3. QED
    BY <1>0, <2>2, SignalFails DEF RecallWikis
<1> SUFFICES ASSUME agent.query.finite PROVE Inv'
  BY <1>0
<1>1. ~ \E i \in Relevant(agent.topic) \ Bare : agent.query.dim # wiki[i].vector.dim
  <2> SUFFICES ASSUME NEW i \in Relevant(agent.topic) \ Bare,
                      agent.query.dim # wiki[i].vector.dim
               PROVE  FALSE
    OBVIOUS
  <2>1. i \in DOMAIN wiki /\ wiki[i].vector # None BY DEF Relevant, Bare
  <2> QED BY <2>1 DEF Inv, TablesFit, RoundFits, Fits, RecallWikis
<1>2. PICK hits \in Recalls(agent.topic) :
          agent' = [agent EXCEPT !.pc = "done", !.hits = hits]
  BY <1>1 DEF RecallWikis
<1>3. /\ agent.pc = "wikis"
      /\ UNCHANGED outcome
      /\ UNCHANGED <<provider, embedder, tables, review, disruptions, history>>
      /\ UNCHANGED <<wiki, experiences>>
  BY <1>1 DEF RecallWikis, tables
<1>4. TablesType' /\ Unblocked'
  BY <1>3 DEF Inv, TablesType, Unblocked, NeverBlocked, tables, history
<1>5. agent \in Round BY DEF Inv, RoundType
<1>6. hits \subseteq DOMAIN wiki /\ hits \in SUBSET Nat
  <2>1. Recalls(agent.topic) \subseteq SUBSET (DOMAIN wiki) BY DEF Recalls, Relevant
  <2>2. DOMAIN wiki \subseteq Nat BY DEF Inv, TablesType
  <2> QED BY <2>1, <2>2
<1>7. /\ agent'.pc = "done" /\ agent'.query = agent.query /\ agent'.batch = agent.batch
      /\ agent'.todo = agent.todo /\ agent'.hand = agent.hand
      /\ agent'.disturbed = agent.disturbed /\ agent'.hits = hits
      /\ agent' \in Round
  BY <1>2, <1>5, <1>6 DEF Round
<1>8. RoundType' /\ Filling'
  BY <1>3, <1>6, <1>7 DEF Inv, RoundType, Filling
<1> QED BY <1>3, <1>4, <1>7, <1>8, RoundStep

\* What the agent embeds fits, and agrees with its embedder.
LEMMA StartRoundStep == ASSUME Inv, NEW t \in Topics, StartRound(t) PROVE Inv'
<1>1. PICK e \in Embeddings(embedder["agent"]) :
          /\ agent' = [IdleRound EXCEPT !.pc = "batch", !.topic = t, !.query = e.vector]
          /\ fellBack' = (fellBack \/ e.fellBack)
  BY DEF StartRound
<1>2. /\ UNCHANGED <<provider, embedder, wiki, experiences, review, outcome, disruptions>>
      /\ UNCHANGED <<unrestarted, clean>>
  BY DEF StartRound, tables
<1>3. /\ e.vector \in Vector /\ e.vector # None /\ Fits(e.vector)
      /\ e.fellBack \in BOOLEAN
      /\ ~e.fellBack => e.vector.space = embedder["agent"]
  BY EmbeddingFits DEF Inv, TablesType, Workers
<1>4. /\ agent'.pc = "batch" /\ agent'.query = e.vector /\ agent'.hand = None
      /\ agent'.batch = {} /\ agent'.todo = {} /\ agent'.hits = {}
      /\ agent' \in Round
  BY <1>1, <1>3 DEF IdleRound, Round, Subject
<1>5. TablesType' BY <1>1, <1>2, <1>3 DEF Inv, TablesType
<1>6. RoundType' /\ Filling' BY <1>4 DEF RoundType, Filling
<1>7. TablesFit' /\ RoundFits' BY <1>2, <1>3, <1>4 DEF Inv, TablesFit, RoundFits, Fits
<1>8. EmbeddersAgree' /\ ReviewAgrees' /\ WikiAgrees' /\ ExperiencesAgree'
  BY <1>1, <1>2 DEF Inv, Agree, EmbeddersAgree, ReviewAgrees, WikiAgrees, ExperiencesAgree,
                    Of, OfProvider
<1>9. RoundAgrees'
  BY <1>1, <1>2, <1>3, <1>4 DEF Inv, Agree, EmbeddersAgree, RoundAgrees, Of, Workers
<1>10. Unblocked' BY <1>2 DEF Inv, Unblocked, NeverBlocked
<1> QED BY <1>5, <1>6, <1>7, <1>8, <1>9, <1>10 DEF Inv, Agree

LEMMA EmbedEntryStep == ASSUME Inv, EmbedEntry PROVE Inv'
<1>1. PICK e \in Embeddings(embedder["agent"]) :
          /\ agent' = [agent EXCEPT !.hand = e.vector]
          /\ fellBack' = (fellBack \/ e.fellBack)
  BY DEF EmbedEntry
<1>2. /\ UNCHANGED <<provider, embedder, wiki, experiences, review, outcome, disruptions>>
      /\ UNCHANGED <<unrestarted, clean>>
  BY DEF EmbedEntry, tables
<1>3. /\ e.vector \in Vector /\ e.vector # None /\ Fits(e.vector)
      /\ e.fellBack \in BOOLEAN
      /\ ~e.fellBack => e.vector.space = embedder["agent"]
  BY EmbeddingFits DEF Inv, TablesType, Workers
<1>4. agent \in Round BY DEF Inv, RoundType
<1>5. /\ agent'.pc = agent.pc /\ agent'.query = agent.query /\ agent'.hand = e.vector
      /\ agent'.batch = agent.batch /\ agent'.todo = agent.todo
      /\ agent'.disturbed = agent.disturbed /\ agent'.hits = agent.hits
      /\ agent' \in Round
  BY <1>1, <1>3, <1>4 DEF Round
<1>6. TablesType' BY <1>1, <1>2, <1>3 DEF Inv, TablesType
<1>7. RoundType' /\ Filling' BY <1>2, <1>5 DEF Inv, RoundType, Filling
<1>8. TablesFit' /\ RoundFits' BY <1>2, <1>3, <1>5 DEF Inv, TablesFit, RoundFits, Fits
<1>9. EmbeddersAgree' /\ ReviewAgrees' /\ WikiAgrees' /\ ExperiencesAgree'
  BY <1>1, <1>2 DEF Inv, Agree, EmbeddersAgree, ReviewAgrees, WikiAgrees, ExperiencesAgree,
                    Of, OfProvider
<1>10. RoundAgrees'
  BY <1>1, <1>2, <1>3, <1>5 DEF Inv, Agree, EmbeddersAgree, RoundAgrees, Of, Workers
<1>11. Unblocked' BY <1>2 DEF Inv, Unblocked, NeverBlocked
<1> QED BY <1>6, <1>7, <1>8, <1>9, <1>10, <1>11 DEF Inv, Agree

LEMMA StoreEntryStep == ASSUME Inv, NEW i \in DOMAIN wiki, StoreEntry(i) PROVE Inv'
<1>1. /\ agent.pc = "fill" /\ agent.hand # None /\ i \in agent.todo
      /\ agent.hand \in Vector /\ Fits(agent.hand)
  BY DEF StoreEntry, IsNext, Inv, RoundFits, Fits
<1> DEFINE vector(j) == IF j = i /\ Storable(agent.hand) THEN agent.hand ELSE wiki[j].vector
<1>2. /\ wiki' = IF Storable(agent.hand) THEN [wiki EXCEPT ![i].vector = agent.hand] ELSE wiki
      /\ agent' = [agent EXCEPT !.hand = None, !.todo = @ \ {i},
                               !.disturbed = @ \/ ~Storable(agent.hand)]
      /\ UNCHANGED <<provider, embedder, experiences, review, outcome, disruptions>>
      /\ UNCHANGED <<unrestarted, clean, fellBack>>
  BY <1>1 DEF StoreEntry, history
<1>3. /\ wiki' \in Seq(Entry)
      /\ DOMAIN wiki' = DOMAIN wiki
      /\ \A j \in DOMAIN wiki : wiki'[j].vector = vector(j)
  <2>1. wiki \in Seq(Entry) BY DEF Inv, TablesType
  <2>2. wiki[i] \in Entry BY <2>1
  <2>3. [wiki[i] EXCEPT !.vector = agent.hand] \in Entry BY <1>1, <2>2 DEF Entry
  <2>4. wiki' = IF Storable(agent.hand)
                THEN [wiki EXCEPT ![i] = [wiki[i] EXCEPT !.vector = agent.hand]] ELSE wiki
    BY <1>2, <2>1
  <2>5. [wiki[i] EXCEPT !.vector = agent.hand].vector = agent.hand BY <2>2 DEF Entry
  <2> QED BY <2>1, <2>3, <2>4, <2>5
<1>4. agent \in Round BY DEF Inv, RoundType
<1>5. /\ agent'.pc = "fill" /\ agent'.query = agent.query /\ agent'.hand = None
      /\ agent'.batch = agent.batch /\ agent'.todo = agent.todo \ {i}
      /\ agent'.disturbed = (agent.disturbed \/ ~Storable(agent.hand)) /\ agent'.hits = agent.hits
      /\ agent' \in Round
  BY <1>1, <1>2, <1>4 DEF Round
<1>6. TablesType' BY <1>2, <1>3 DEF Inv, TablesType
<1>7. RoundType' BY <1>3, <1>5 DEF Inv, RoundType
<1>8. Filling'
  <2>1. agent.batch \subseteq DOMAIN wiki BY DEF Inv, RoundType
  <2> QED BY <1>1, <1>3, <1>5, <2>1 DEF Inv, Filling
<1>9. TablesFit' /\ RoundFits'
  BY <1>1, <1>2, <1>3, <1>5 DEF Inv, TablesFit, RoundFits, Fits
<1>10. EmbeddersAgree' /\ ReviewAgrees' /\ ExperiencesAgree' /\ RoundAgrees'
  BY <1>2, <1>5 DEF Inv, Agree, EmbeddersAgree, ReviewAgrees, ExperiencesAgree, RoundAgrees,
                    Of, OfProvider
<1>11. WikiAgrees'
  BY <1>1, <1>2, <1>3 DEF Inv, Agree, WikiAgrees, RoundAgrees, Of, OfProvider
<1>12. Unblocked' BY <1>2 DEF Inv, Unblocked, NeverBlocked
<1> QED BY <1>6, <1>7, <1>8, <1>9, <1>10, <1>11, <1>12 DEF Inv, Agree

-----------------------------------------------------------------------------
(* The review worker *)

LEMMA EmbedExperienceStep == ASSUME Inv, EmbedExperience PROVE Inv'
<1>1. PICK e \in Embeddings(embedder["review"]) :
          review' = e.vector /\ fellBack' = (fellBack \/ e.fellBack)
  BY DEF EmbedExperience
<1>2. /\ UNCHANGED <<provider, embedder, wiki, experiences, agent, outcome, disruptions>>
      /\ UNCHANGED <<unrestarted, clean>>
  BY DEF EmbedExperience, tables
<1>3. /\ e.vector \in Vector /\ e.vector # None /\ Fits(e.vector)
      /\ e.fellBack \in BOOLEAN
      /\ ~e.fellBack => e.vector.space = embedder["review"]
  BY EmbeddingFits DEF Inv, TablesType, Workers
<1>4. TablesType' BY <1>1, <1>2, <1>3 DEF Inv, TablesType
<1>5. RoundType' /\ Filling' /\ RoundFits' /\ Unblocked'
  BY <1>2 DEF Inv, RoundType, Filling, RoundFits, Unblocked, NeverBlocked
<1>6. TablesFit' BY <1>1, <1>2, <1>3 DEF Inv, TablesFit, Fits
<1>7. EmbeddersAgree' /\ RoundAgrees' /\ WikiAgrees' /\ ExperiencesAgree'
  BY <1>1, <1>2 DEF Inv, Agree, EmbeddersAgree, RoundAgrees, WikiAgrees, ExperiencesAgree,
                    Of, OfProvider
<1>8. ReviewAgrees'
  BY <1>1, <1>2, <1>3 DEF Inv, Agree, EmbeddersAgree, ReviewAgrees, Of, Workers
<1> QED BY <1>4, <1>5, <1>6, <1>7, <1>8 DEF Inv, Agree

LEMMA InsertExperienceStep == ASSUME Inv, NEW t \in Topics, InsertExperience(t) PROVE Inv'
<1> DEFINE x == [topic |-> t, vector |-> review]
<1>1. review # None /\ review \in Vector /\ review.dim = Dim /\ (NotFinite \/ review.finite)
  BY DEF InsertExperience, Inv, TablesFit, Fits
<1>0. CASE ~Storable(review)
  <2>1. NotFinite
    BY <1>0, <1>1 DEF Storable
  <2>2. /\ outcome' = [outcome EXCEPT !["review"] = "failed"] /\ review' = None
        /\ UNCHANGED <<provider, embedder, wiki, experiences, agent, disruptions>>
        /\ UNCHANGED <<unrestarted, clean, fellBack>>
    BY <1>0 DEF InsertExperience, history
  <2>3. outcome' \in [Workers -> {"none", "done", "failed", "unavailable"}]
    BY <2>2 DEF Inv, TablesType
  <2>4. TablesType' /\ Unblocked'
    BY <2>1, <2>2, <2>3 DEF Inv, TablesType, Unblocked
  <2>5. RoundType' /\ Filling' /\ RoundFits' /\ TablesFit'
    BY <2>2 DEF Inv, RoundType, Filling, RoundFits, TablesFit, Fits
  <2>6. Agree'
    BY <2>2 DEF Inv, Agree, EmbeddersAgree, RoundAgrees, WikiAgrees, ReviewAgrees,
                ExperiencesAgree, Of, OfProvider
  <2>7. QED
    BY <2>4, <2>5, <2>6 DEF Inv
<1> SUFFICES ASSUME Storable(review) PROVE Inv'
  BY <1>0
<1>2. /\ experiences' = Append(experiences, x)
      /\ outcome' = [outcome EXCEPT !["review"] = "done"]
      /\ review' = None
      /\ UNCHANGED <<provider, embedder, wiki, agent, disruptions>>
      /\ UNCHANGED <<unrestarted, clean, fellBack>>
  BY <1>1 DEF InsertExperience, history
<1>3. x \in Experience /\ x.vector = review
  BY <1>1 DEF Experience, Subject
<1>4. /\ experiences' \in Seq(Experience)
      /\ \A i \in DOMAIN experiences' :
            \/ i \in DOMAIN experiences /\ experiences'[i] = experiences[i]
            \/ experiences'[i] = x
  <2> HIDE DEF x
  <2>1. experiences \in Seq(Experience) BY DEF Inv, TablesType
  <2> QED BY <1>2, <1>3, <2>1
<1> HIDE DEF x
<1>5. TablesType' BY <1>2, <1>4 DEF Inv, TablesType
<1>6. RoundType' /\ Filling' /\ RoundFits'
  BY <1>2 DEF Inv, RoundType, Filling, RoundFits
<1>7. TablesFit' BY <1>1, <1>2, <1>3, <1>4 DEF Inv, TablesFit, Fits
<1>8. EmbeddersAgree' /\ RoundAgrees' /\ WikiAgrees' /\ ReviewAgrees'
  BY <1>2 DEF Inv, Agree, EmbeddersAgree, RoundAgrees, WikiAgrees, ReviewAgrees, Of, OfProvider
<1>9. ExperiencesAgree'
  BY <1>1, <1>2, <1>3, <1>4 DEF Inv, Agree, ExperiencesAgree, ReviewAgrees, Of, OfProvider
<1>10. Unblocked' BY <1>2 DEF Inv, TablesType, Unblocked, NeverBlocked
<1> QED BY <1>5, <1>6, <1>7, <1>8, <1>9, <1>10 DEF Inv, Agree

LEMMA InsertFailsStep == ASSUME Inv, InsertFails PROVE Inv'
<1>1. /\ review' = None
      /\ outcome' = [outcome EXCEPT !["review"] = "unavailable"]
      /\ disruptions' = disruptions + 1 /\ disruptions < MaxDisruptions
      /\ UNCHANGED <<provider, embedder, wiki, experiences, agent>>
      /\ UNCHANGED <<unrestarted, clean, fellBack>>
  BY DEF InsertFails, tables, history
<1>2. TablesType'
  <2>1. outcome' \in [Workers -> {"none", "done", "failed", "unavailable"}]
    BY <1>1 DEF Inv, TablesType
  <2> QED BY <1>1, <2>1 DEF Inv, TablesType
<1>3. RoundType' /\ Filling' /\ RoundFits'
  BY <1>1 DEF Inv, RoundType, Filling, RoundFits
<1>4. TablesFit' BY <1>1 DEF Inv, TablesFit, Fits
<1>5. Agree'
  BY <1>1 DEF Inv, Agree, EmbeddersAgree, RoundAgrees, WikiAgrees, ExperiencesAgree,
              ReviewAgrees, Of, OfProvider
<1>6. Unblocked' BY <1>1 DEF Inv, TablesType, Unblocked, NeverBlocked
<1> QED BY <1>2, <1>3, <1>4, <1>5, <1>6 DEF Inv

-----------------------------------------------------------------------------
(* The operator, and crashes *)

LEMMA AddEntryStep == ASSUME Inv, NEW t \in Subject, AddEntry(t) PROVE Inv'
<1>1. /\ wiki' = Append(wiki, NewEntry(t))
      /\ UNCHANGED <<provider, embedder, experiences, agent, review, outcome, disruptions>>
      /\ UNCHANGED <<unrestarted, clean, fellBack>>
  BY DEF AddEntry, history
<1>2. NewEntry(t) \in Entry /\ NewEntry(t).vector = None
  BY DEF NewEntry, Entry
<1>3. /\ wiki' \in Seq(Entry)
      /\ DOMAIN wiki \subseteq DOMAIN wiki'
      /\ \A i \in DOMAIN wiki : wiki'[i] = wiki[i]
      /\ \A i \in DOMAIN wiki' : i \in DOMAIN wiki \/ wiki'[i].vector = None
  <2>1. wiki \in Seq(Entry) BY DEF Inv, TablesType
  <2> QED BY <1>1, <1>2, <2>1
<1>4. TablesType' BY <1>1, <1>3 DEF Inv, TablesType
<1>5. RoundType' BY <1>1, <1>3 DEF Inv, RoundType
<1>6. Filling'
  <2>1. agent.batch \subseteq DOMAIN wiki BY DEF Inv, RoundType
  <2> QED BY <1>1, <1>3, <2>1 DEF Inv, Filling
<1>7. TablesFit' /\ RoundFits' BY <1>1, <1>3 DEF Inv, TablesFit, RoundFits, Fits
<1>8. EmbeddersAgree' /\ RoundAgrees' /\ ExperiencesAgree' /\ ReviewAgrees'
  BY <1>1 DEF Inv, Agree, EmbeddersAgree, RoundAgrees, ExperiencesAgree, ReviewAgrees,
              Of, OfProvider
<1>9. WikiAgrees' BY <1>1, <1>3 DEF Inv, Agree, WikiAgrees, OfProvider
<1>10. Unblocked' BY <1>1 DEF Inv, Unblocked, NeverBlocked
<1> QED BY <1>4, <1>5, <1>6, <1>7, <1>8, <1>9, <1>10 DEF Inv, Agree

LEMMA DeactivateStep == ASSUME Inv, NEW i \in DOMAIN wiki, Deactivate(i) PROVE Inv'
<1>1. /\ wiki' = [wiki EXCEPT ![i].active = FALSE]
      /\ UNCHANGED <<provider, embedder, experiences, agent, review, outcome, disruptions>>
      /\ UNCHANGED <<unrestarted, clean, fellBack>>
  BY DEF Deactivate, history
<1>2. /\ wiki' \in Seq(Entry)
      /\ DOMAIN wiki' = DOMAIN wiki
      /\ \A j \in DOMAIN wiki : wiki'[j].vector = wiki[j].vector
  <2>1. wiki \in Seq(Entry) BY DEF Inv, TablesType
  <2>2. wiki[i] \in Entry BY <2>1
  <2>3. [wiki[i] EXCEPT !.active = FALSE] \in Entry BY <2>2 DEF Entry
  <2>4. wiki' = [wiki EXCEPT ![i] = [wiki[i] EXCEPT !.active = FALSE]] BY <1>1, <2>1
  <2>5. [wiki[i] EXCEPT !.active = FALSE].vector = wiki[i].vector BY <2>2 DEF Entry
  <2> QED BY <2>1, <2>3, <2>4, <2>5
<1>3. TablesType' BY <1>1, <1>2 DEF Inv, TablesType
<1>4. RoundType' BY <1>1, <1>2 DEF Inv, RoundType
<1>5. Filling'
  <2>1. agent.batch \subseteq DOMAIN wiki BY DEF Inv, RoundType
  <2> QED BY <1>1, <1>2, <2>1 DEF Inv, Filling
<1>6. TablesFit' /\ RoundFits' BY <1>1, <1>2 DEF Inv, TablesFit, RoundFits, Fits
<1>7. EmbeddersAgree' /\ RoundAgrees' /\ ExperiencesAgree' /\ ReviewAgrees'
  BY <1>1 DEF Inv, Agree, EmbeddersAgree, RoundAgrees, ExperiencesAgree, ReviewAgrees,
              Of, OfProvider
<1>8. WikiAgrees' BY <1>1, <1>2 DEF Inv, Agree, WikiAgrees, OfProvider
<1>9. Unblocked' BY <1>1 DEF Inv, Unblocked, NeverBlocked
<1> QED BY <1>3, <1>4, <1>5, <1>6, <1>7, <1>8, <1>9 DEF Inv, Agree

LEMMA ChangeProviderStep == ASSUME Inv, ChangeProvider PROVE Inv'
<1>1. /\ provider' \in Providers
      /\ unrestarted' = Workers /\ clean' = {}
      /\ disruptions' = disruptions + 1 /\ disruptions < MaxDisruptions
      /\ UNCHANGED <<embedder, wiki, experiences, agent, review, outcome, fellBack>>
  BY DEF ChangeProvider, Disrupt, tables
<1>2. TablesType' BY <1>1 DEF Inv, TablesType
<1>3. RoundType' /\ Filling' /\ RoundFits' /\ TablesFit' /\ Unblocked'
  BY <1>1 DEF Inv, RoundType, Filling, RoundFits, TablesFit, Unblocked, NeverBlocked
<1>4. Agree'
  BY <1>1 DEF Agree, EmbeddersAgree, RoundAgrees, WikiAgrees, ExperiencesAgree, ReviewAgrees,
              Workers
<1> QED BY <1>2, <1>3, <1>4 DEF Inv

LEMMA RestartStep == ASSUME Inv, NEW w \in Workers, Restart(w) PROVE Inv'
<1>1. /\ embedder' = [embedder EXCEPT ![w] = provider]
      /\ agent' = IF w = "agent" THEN IdleRound ELSE agent
      /\ review' = IF w = "review" THEN None ELSE review
      /\ unrestarted' = unrestarted \ {w}
      /\ disruptions' = disruptions + 1 /\ disruptions < MaxDisruptions
      /\ UNCHANGED <<provider, wiki, experiences, outcome, clean, fellBack>>
  BY DEF Restart, Disrupt, tables
<1>2. /\ IdleRound.pc = "idle" /\ IdleRound.query = None /\ IdleRound.hand = None
      /\ IdleRound.batch = {} /\ IdleRound.todo = {} /\ IdleRound.hits = {}
      /\ IdleRound \in Round
  BY DEF IdleRound, Round, Subject
<1>3. TablesType'
  <2>1. embedder' \in [Workers -> Providers] BY <1>1 DEF Inv, TablesType
  <2> QED BY <1>1, <2>1 DEF Inv, TablesType
<1>4. RoundType' /\ Filling' BY <1>1, <1>2 DEF Inv, RoundType, Filling
<1>5. TablesFit' /\ RoundFits' BY <1>1, <1>2 DEF Inv, TablesFit, RoundFits, Fits
<1>6. EmbeddersAgree'
  BY <1>1 DEF Inv, TablesType, Agree, EmbeddersAgree
<1>7. RoundAgrees' BY <1>1, <1>2 DEF Inv, Agree, RoundAgrees, Of, Workers
<1>8. ReviewAgrees' BY <1>1 DEF Inv, Agree, ReviewAgrees, Of, Workers
<1>9. WikiAgrees' /\ ExperiencesAgree'
  BY <1>1 DEF Inv, Agree, WikiAgrees, ExperiencesAgree, OfProvider
<1>10. Unblocked' BY <1>1 DEF Inv, Unblocked, NeverBlocked
<1> QED BY <1>3, <1>4, <1>5, <1>6, <1>7, <1>8, <1>9, <1>10 DEF Inv, Agree

LEMMA ClearWikiStep == ASSUME Inv, ClearWiki PROVE Inv'
<1>1. /\ wiki' = [i \in DOMAIN wiki |-> [wiki[i] EXCEPT !.vector = None]]
      /\ agent' = [agent EXCEPT !.disturbed = agent.pc # "idle"]
      /\ clean' = clean \cup (IF "agent" \in unrestarted THEN {} ELSE {"wiki"})
      /\ disruptions' = disruptions + 1 /\ disruptions < MaxDisruptions
      /\ UNCHANGED <<provider, embedder, experiences, review, outcome, unrestarted, fellBack>>
  BY DEF ClearWiki, Disrupt
<1>2. /\ wiki' \in Seq(Entry)
      /\ DOMAIN wiki' = DOMAIN wiki
      /\ \A i \in DOMAIN wiki : wiki'[i].vector = None
  <2>1. wiki \in Seq(Entry) BY DEF Inv, TablesType
  <2>2. ASSUME NEW i \in DOMAIN wiki
        PROVE  /\ [wiki[i] EXCEPT !.vector = None] \in Entry
               /\ [wiki[i] EXCEPT !.vector = None].vector = None
    <3>1. wiki[i] \in Entry BY <2>1
    <3> QED BY <3>1 DEF Entry
  <2>3. Len(wiki) \in Nat /\ DOMAIN wiki = 1..Len(wiki) BY <2>1
  <2>4. wiki' \in [1..Len(wiki) -> Entry] BY <1>1, <2>2, <2>3
  <2>5. wiki' \in Seq(Entry) /\ DOMAIN wiki' = DOMAIN wiki BY <2>3, <2>4
  <2> QED BY <1>1, <2>2, <2>5
<1>3. agent \in Round BY DEF Inv, RoundType
<1>4. /\ agent'.pc = agent.pc /\ agent'.query = agent.query /\ agent'.hand = agent.hand
      /\ agent'.batch = agent.batch /\ agent'.todo = agent.todo /\ agent'.hits = agent.hits
      /\ agent'.disturbed = (agent.pc # "idle")
      /\ agent' \in Round
  BY <1>1, <1>3 DEF Round
<1>5. TablesType' BY <1>1, <1>2 DEF Inv, TablesType
<1>6. RoundType' BY <1>2, <1>4 DEF Inv, RoundType
<1>7. Filling' BY <1>2, <1>4 DEF Inv, Filling, RoundType
<1>8. TablesFit' /\ RoundFits' BY <1>1, <1>2, <1>4 DEF Inv, TablesFit, RoundFits, Fits
<1>9. EmbeddersAgree' /\ RoundAgrees' /\ ReviewAgrees' /\ ExperiencesAgree'
  BY <1>1, <1>4 DEF Inv, Agree, EmbeddersAgree, RoundAgrees, ReviewAgrees, ExperiencesAgree,
                    Of, OfProvider
<1>10. WikiAgrees' BY <1>1, <1>2 DEF Inv, Agree, WikiAgrees, OfProvider
<1>11. Unblocked' BY <1>1 DEF Inv, Unblocked, NeverBlocked
<1> QED BY <1>5, <1>6, <1>7, <1>8, <1>9, <1>10, <1>11 DEF Inv, Agree

LEMMA ClearExperiencesStep == ASSUME Inv, ClearExperiences PROVE Inv'
<1>1. /\ experiences' = [i \in DOMAIN experiences |-> [experiences[i] EXCEPT !.vector = None]]
      /\ clean' = clean \cup (IF "review" \in unrestarted THEN {} ELSE {"experiences"})
      /\ disruptions' = disruptions + 1 /\ disruptions < MaxDisruptions
      /\ UNCHANGED <<provider, embedder, wiki, agent, review, outcome, unrestarted, fellBack>>
  BY DEF ClearExperiences, Disrupt
<1>2. /\ experiences' \in Seq(Experience)
      /\ \A i \in DOMAIN experiences' : experiences'[i].vector = None
  <2>1. experiences \in Seq(Experience) BY DEF Inv, TablesType
  <2>2. ASSUME NEW i \in DOMAIN experiences
        PROVE  /\ [experiences[i] EXCEPT !.vector = None] \in Experience
               /\ [experiences[i] EXCEPT !.vector = None].vector = None
    <3>1. experiences[i] \in Experience BY <2>1
    <3> QED BY <3>1 DEF Experience
  <2>3. Len(experiences) \in Nat /\ DOMAIN experiences = 1..Len(experiences) BY <2>1
  <2>4. experiences' \in [1..Len(experiences) -> Experience] BY <1>1, <2>2, <2>3
  <2>5. experiences' \in Seq(Experience) /\ DOMAIN experiences' = DOMAIN experiences BY <2>3, <2>4
  <2> QED BY <1>1, <2>2, <2>5
<1>3. TablesType' BY <1>1, <1>2 DEF Inv, TablesType
<1>4. RoundType' /\ Filling' /\ RoundFits' /\ Unblocked'
  BY <1>1 DEF Inv, RoundType, Filling, RoundFits, Unblocked, NeverBlocked
<1>5. TablesFit' BY <1>1, <1>2 DEF Inv, TablesFit, Fits
<1>6. EmbeddersAgree' /\ RoundAgrees' /\ ReviewAgrees' /\ WikiAgrees'
  BY <1>1 DEF Inv, Agree, EmbeddersAgree, RoundAgrees, ReviewAgrees, WikiAgrees, Of, OfProvider
<1>7. ExperiencesAgree' BY <1>1, <1>2 DEF Inv, Agree, ExperiencesAgree, OfProvider
<1> QED BY <1>3, <1>4, <1>5, <1>6, <1>7 DEF Inv, Agree

LEMMA StutterStep == ASSUME Inv, UNCHANGED vars PROVE Inv'
  BY DEF vars, tables, history, Inv, TablesType, RoundType, TablesFit, RoundFits, Fits, Agree,
         EmbeddersAgree, RoundAgrees, ReviewAgrees, WikiAgrees, ExperiencesAgree, Of, OfProvider,
         Filling, Unblocked, NeverBlocked

LEMMA NextStep == ASSUME Inv, [Next]_vars PROVE Inv'
<1>1. CASE AgentStep
  BY <1>1, StartRoundStep, ReadBacklogStep, EmbedEntryStep, StoreEntryStep, EndFillStep,
     RecallExperiencesStep, RecallWikisStep, EndRoundStep DEF AgentStep
<1>2. CASE \E i \in DOMAIN wiki : StoreFails(i) BY <1>2, StoreFailsStep
<1>3. CASE RoundFails BY <1>3, RoundFailsStep
<1>4. CASE ReviewStep BY <1>4, EmbedExperienceStep, InsertExperienceStep DEF ReviewStep
<1>5. CASE InsertFails BY <1>5, InsertFailsStep
<1>6. CASE Operator
  BY <1>6, AddEntryStep, DeactivateStep, ChangeProviderStep, RestartStep, ClearWikiStep,
     ClearExperiencesStep DEF Operator
<1>7. CASE UNCHANGED vars BY <1>7, StutterStep
<1> QED BY <1>1, <1>2, <1>3, <1>4, <1>5, <1>6, <1>7 DEF Next

LEMMA Invariance == Spec => []Inv
  BY InitInv, NextStep, PTL DEF Spec

-----------------------------------------------------------------------------
(* What the invariant says *)

\* Type correctness of the memory.
THEOREM TypeCorrect == Spec => []TypeOK
<1>1. Inv => TypeOK BY DEF Inv, TablesType, RoundType, TypeOK
<1> QED BY <1>1, Invariance, PTL

\* No signal and no review ever fails for its embedding, whatever lengths the
\* provider returns and whenever it fails, as long as its numbers are finite
\* (OpenAICompatEmbedder: the fallback, the padding and the cutting).
THEOREM EmbeddingNeverBlocks ==
    ASSUME ~NotFinite
    PROVE  Spec => []NeverBlocked
<1>1. Inv => NeverBlocked
  BY DEF Inv, Unblocked
<1>2. QED
  BY <1>1, Invariance, PTL

\* After the protocol of wiki.md a recall compares vectors of one space.
THEOREM RecallsInOneSpace == Spec => []OneSpace
<1>1. Inv => OneSpace
  BY DEF Inv, Agree, WikiAgrees, ExperiencesAgree, RoundAgrees, Of, OneSpace
<1> QED BY <1>1, Invariance, PTL

\* An undisturbed round recalls no entry of its batch without a vector.
THEOREM FillsBeforeItRecalls == Spec => []FilledBeforeRecall
<1>1. Inv => FilledBeforeRecall BY DEF Inv, RoundType, Filling, FilledBeforeRecall
<1> QED BY <1>1, Invariance, PTL

=============================================================================
