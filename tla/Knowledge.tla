----------------------------- MODULE Knowledge ------------------------------
(***************************************************************************)
(* What the system knows of the contents of its files. A request to the API *)
(* registers files and then extracts their text: one document per file, its *)
(* chunks, and a summary of the resource, written by statements that share  *)
(* no transaction. The live worker, when a contact asks for a file, embeds  *)
(* summaries and chunks that it has not embedded yet, searches them, and    *)
(* records the chunks it found. Requests and worker run concurrently, while *)
(* the owner edits the files.                                              *)
(***************************************************************************)
EXTENDS Integers, FiniteSets

CONSTANTS
    Files,         \* files of the resource root, in the order of their names
    TextFiles,     \* those whose type is text: registering them summarises them
    Contents,      \* what a file may contain; equal contents have equal hashes
    ChunkCount,    \* chunks extracted from it, 0 if no text can be extracted
    Requests,      \* concurrent requests of the API
    Contacts,
    Allowed,       \* files each contact may be sent; Catalog has how this changes
    IndexLimit,    \* VIJI_RESOURCE_EMBEDDING_INDEX_LIMIT, 50 unless set
    ChunkLimit,    \* VIJI_RESOURCE_EMBEDDING_CHUNK_LIMIT_PER_RESOURCE
    MaxRuns,       \* bound: extractions
    MaxDisruptions \* bound: edits of the owner, crashes of the API and the model server

ASSUME KnowledgeAssumption ==
    /\ Files \subseteq Nat /\ TextFiles \subseteq Files
    /\ Contents \subseteq Nat \ {0}
    /\ ChunkCount \in [Contents -> Nat]
    /\ Allowed \in [Contacts -> SUBSET Files]
    /\ IndexLimit \in Nat \ {0} /\ ChunkLimit \in Nat \ {0}
    /\ MaxRuns \in Nat /\ MaxDisruptions \in Nat

VARIABLES
    disk,       \* what each file contains, None if it is gone
    checksum,   \* res_file_assets: of what content, None before the row
    summary,    \* res_resources: of what content, None for null, NoRow before the row
    doc,        \* kb_documents of each file
    chunks,     \* kb_document_chunks
    embedded,   \* kb_embeddings of resources: the summary they were made of
    vectors,    \* kb_embeddings of chunks: the chunk and the content
    cited,      \* kb_retrieval_chunks: chunks found by a search
    request,    \* the API's requests
    search,     \* the live worker's search
    runs,       \* counts extractions, up to MaxRuns; numbers their chunks
    disturbed,  \* history: files whose last extraction broke off or overlapped
    disruptions \* counts edits and crashes, up to MaxDisruptions

catalog == <<checksum, summary>>
index == <<embedded, vectors, cited>>
vars == <<disk, catalog, doc, chunks, index, request, search, runs, disturbed, disruptions>>

None == 0
NoRow == -1
NotEmbedded == -1
NoDoc == [hash |-> None, state |-> "none", content |-> None]
Idle == [step |-> "idle", todo |-> {}, seen |-> [f \in Files |-> None],
         half |-> {}, hash |-> None, content |-> None, run |-> 0, next |-> 0]
NoSearch == [step |-> "idle", who |-> "none", todo |-> {},
             seen |-> [f \in Files |-> NoRow], found |-> {}]

\* What extractFileContent makes of a content: how it ends, and the places of the
\* chunks it cuts, at most so many of each file.
Status(c) == IF ChunkCount[c] > 0 THEN "extracted" ELSE "failed"
Places(c) == 1..ChunkCount[c]

First(S) == CHOOSE f \in S : \A g \in S : f <= g
ChunksOf(f) == {c \in chunks : c.file = f}

Init ==
    /\ disk \in [Files -> Contents \cup {None}]
    /\ checksum = [f \in Files |-> None]
    /\ summary = [f \in Files |-> NoRow]
    /\ doc = [f \in Files |-> NoDoc]
    /\ chunks = {} /\ vectors = {} /\ cited = {}
    /\ embedded = [f \in Files |-> NotEmbedded]
    /\ request = [r \in Requests |-> Idle]
    /\ search = NoSearch
    /\ runs = 0 /\ disturbed = {} /\ disruptions \in 0..MaxDisruptions

EditFile(f) ==
    /\ disruptions < MaxDisruptions
    /\ \E c \in (Contents \cup {None}) \ {disk[f]} : disk' = [disk EXCEPT ![f] = c]
    /\ disruptions' = disruptions + 1
    /\ UNCHANGED <<catalog, doc, chunks, index, request, search, runs, disturbed>>
-----------------------------------------------------------------------------
(* POST /resources/register and /resources/index, with extractContent *)

\* The file a request is at, and the requests that write the chunks of a file.
At(r) == First(request[r].todo)
Writing(f) == {r \in Requests : request[r].step \in {"delete", "insert", "summary"} /\ At(r) = f}

\* The files are read and hashed,
Scan(r) ==
    /\ request[r].step = "idle"
    /\ \E S \in SUBSET {f \in Files : disk[f] # None} :
          /\ S # {} /\ runs + Cardinality(S) <= MaxRuns
          /\ request' = [request EXCEPT ![r] =
                [Idle EXCEPT !.step = "store", !.todo = S,
                             !.seen = [f \in Files |-> IF f \in S THEN disk[f] ELSE None]]]
    /\ UNCHANGED <<disk, catalog, doc, chunks, index, search, runs, disturbed, disruptions>>

\* and their rows written, all files at once and each in two statements: its checksum,
StoreAsset(r) ==
    /\ request[r].step = "store"
    /\ \E f \in Files \ request[r].half :
          /\ request[r].seen[f] # None
          /\ checksum' = [checksum EXCEPT ![f] = request[r].seen[f]]
          /\ request' = [request EXCEPT ![r].half = @ \cup {f}]
    /\ UNCHANGED <<disk, summary, doc, chunks, index, search, runs, disturbed, disruptions>>

\* and the resource: of a file that is no text the summary becomes null.
StoreResource(r) ==
    /\ request[r].step = "store"
    /\ \E f \in request[r].half :
          LET q == request[r]
              left == [q.seen EXCEPT ![f] = None]
          IN  /\ summary' = [summary EXCEPT ![f] = IF f \in TextFiles THEN q.seen[f] ELSE None]
              /\ request' = [request EXCEPT ![r] =
                    IF \E g \in Files : left[g] # None
                    THEN [q EXCEPT !.seen = left, !.half = @ \ {f}]
                    ELSE [Idle EXCEPT !.step = "find", !.todo = q.todo]]
    /\ UNCHANGED <<disk, checksum, doc, chunks, index, search, runs, disturbed, disruptions>>

\* An exception ends the request; what it wrote stays.
Throw(r) ==
    /\ request' = [request EXCEPT ![r] = [Idle EXCEPT !.step = "failed"]]
    /\ disturbed' = disturbed \cup (IF r \in Writing(At(r)) THEN {At(r)} ELSE {})

\* understandFileResource: the checksum is read here, the file itself next.
Find(r) ==
    /\ request[r].step = "find" /\ runs < MaxRuns
    /\ request' = [request EXCEPT ![r].step = "extract", ![r].hash = checksum[At(r)],
                                  ![r].run = runs + 1]
    /\ runs' = runs + 1
    /\ UNCHANGED <<disk, catalog, doc, chunks, index, search, disturbed, disruptions>>

Extract(r) ==
    /\ request[r].step = "extract"
    /\ IF disk[At(r)] = None THEN Throw(r)
       ELSE /\ request' = [request EXCEPT ![r].step = "document", ![r].content = disk[At(r)]]
            /\ UNCHANGED disturbed
    /\ UNCHANGED <<disk, catalog, doc, chunks, index, search, runs, disruptions>>

\* upsertKnowledgeDocument replaces the document of the file; that of another file
\* with the same hash makes it fail.
UpsertDocument(r) ==
    /\ request[r].step = "document"
    /\ LET f == At(r)
           q == request[r]
       IN  IF \E g \in Files \ {f} : doc[g].hash = q.hash
           THEN Throw(r) /\ UNCHANGED doc
           ELSE /\ doc' = [doc EXCEPT ![f] =
                     [hash |-> q.hash, content |-> q.content, state |-> Status(q.content)]]
                /\ request' = [request EXCEPT ![r].step = "delete"]
                /\ disturbed' = IF Writing(f) = {} THEN disturbed \ {f} ELSE disturbed \cup {f}
    /\ UNCHANGED <<disk, catalog, chunks, index, search, runs, disruptions>>

\* Mutants: the old chunks stay; their embeddings stay.
DeleteChunksKeeping(r) ==
    /\ request[r].step = "delete"
    /\ request' = [request EXCEPT ![r].step = "insert", ![r].next =
                     Cardinality(ChunksOf(At(r))) + 1]
    /\ UNCHANGED <<disk, catalog, doc, chunks, index, search, runs, disturbed, disruptions>>

DeleteChunksOnly(r) ==
    /\ request[r].step = "delete"
    /\ chunks' = chunks \ ChunksOf(At(r))
    /\ request' = [request EXCEPT ![r].step = "insert", ![r].next = 1]
    /\ UNCHANGED <<disk, catalog, doc, index, search, runs, disturbed, disruptions>>

\* replaceDocumentChunks: a chunk that a search has recorded cannot be deleted.
\* With a chunk go its embeddings.
DeleteChunks(r) ==
    /\ request[r].step = "delete"
    /\ LET old == ChunksOf(At(r)) IN
         IF old \cap cited # {}
         THEN Throw(r) /\ UNCHANGED <<chunks, vectors>>
         ELSE /\ chunks' = chunks \ old
              /\ vectors' = {v \in vectors : v.chunk \notin old}
              /\ request' = [request EXCEPT ![r].step = "insert", ![r].next = 1]
              /\ UNCHANGED disturbed
    /\ UNCHANGED <<disk, catalog, doc, embedded, cited, search, runs, disruptions>>

\* One by one; the place of a chunk in its document is unique.
InsertChunk(r) ==
    /\ request[r].step = "insert"
    /\ LET f == At(r)
           q == request[r]
       IN  IF q.next \notin Places(q.content)
           THEN /\ request' = [request EXCEPT ![r].step = "summary"]
                /\ UNCHANGED <<chunks, disturbed>>
           ELSE IF \E c \in ChunksOf(f) : c.place = q.next
           THEN Throw(r) /\ UNCHANGED chunks
           ELSE /\ chunks' = chunks \cup {[run |-> q.run, place |-> q.next,
                                           file |-> f, content |-> q.content]}
                /\ request' = [request EXCEPT ![r].next = @ + 1]
                /\ UNCHANGED disturbed
    /\ UNCHANGED <<disk, catalog, doc, index, search, runs, disruptions>>

\* The first chunk, if there is one, becomes the summary; on to the next file.
UpdateSummary(r) ==
    /\ request[r].step = "summary"
    /\ LET f == At(r)
           q == request[r]
           rest == q.todo \ {f}
       IN  /\ summary' = IF Status(q.content) = "extracted" THEN [summary EXCEPT ![f] = q.content]
                         ELSE summary
           /\ request' = [request EXCEPT ![r] = IF rest = {} THEN Idle
                            ELSE [Idle EXCEPT !.step = "find", !.todo = rest]]
    /\ UNCHANGED <<disk, checksum, doc, chunks, index, search, runs, disturbed, disruptions>>

\* The caller has its error 500.
Answer(r) ==
    /\ request[r].step = "failed"
    /\ request' = [request EXCEPT ![r] = Idle]
    /\ UNCHANGED <<disk, catalog, doc, chunks, index, search, runs, disturbed, disruptions>>

Crash(r) ==
    /\ request[r].step \notin {"idle", "failed"} /\ disruptions < MaxDisruptions
    /\ request' = [request EXCEPT ![r] = Idle]
    /\ disturbed' = disturbed \cup (IF r \in Writing(At(r)) THEN {At(r)} ELSE {})
    /\ disruptions' = disruptions + 1
    /\ UNCHANGED <<disk, catalog, doc, chunks, index, search, runs>>
-----------------------------------------------------------------------------
(* findSemanticResourceMatches *)

others == <<disk, catalog, doc, chunks, request, runs, disturbed>>

\* listSearchableFileResources: of the files the contact may be sent the first by name.
Searchable(who) == {f \in Allowed[who] : summary[f] # NoRow}
Listed(who) ==
    {f \in Searchable(who) : Cardinality({g \in Searchable(who) : g < f}) < IndexLimit}

ListResources(who) ==
    /\ search.step = "idle"
    /\ search' = [step |-> IF Listed(who) = {} THEN "match" ELSE "resource", who |-> who,
                  found |-> {}, todo |-> Listed(who),
                  seen |-> [f \in Files |-> IF f \in Listed(who) THEN summary[f] ELSE NoRow]]
    /\ UNCHANGED <<others, index, disruptions>>

\* Mutant: what has an embedding is not embedded again.
EmbedResourceMutant ==
    /\ search.step = "resource"
    /\ LET f == First(search.todo) IN
         embedded' = IF embedded[f] # NotEmbedded THEN embedded
                     ELSE [embedded EXCEPT ![f] = search.seen[f]]
    /\ search' = [search EXCEPT !.step = "list", !.seen[First(search.todo)] = NoRow]
    /\ UNCHANGED <<others, vectors, cited, disruptions>>

\* ensureResourceEmbedding: made of the row as it was listed.
EmbedResource ==
    /\ search.step = "resource"
    /\ LET f == First(search.todo) IN
         /\ embedded' = [embedded EXCEPT ![f] = search.seen[f]]
         /\ search' = [search EXCEPT !.step = "list", !.seen[f] = NoRow]
    /\ UNCHANGED <<others, vectors, cited, disruptions>>

FirstChunks(f) ==
    {c \in ChunksOf(f) : Cardinality({d \in ChunksOf(f) : d.place < c.place}) < ChunkLimit}

\* ensureChunkEmbeddings, for a document whose extraction succeeded.
ListChunks ==
    /\ search.step = "list"
    /\ LET f == First(search.todo) IN
         search' = [search EXCEPT !.step = "embed",
                      !.found = IF doc[f].state = "extracted" THEN FirstChunks(f) ELSE {}]
    /\ UNCHANGED <<others, index, disruptions>>

NextFile ==
    LET rest == search.todo \ {First(search.todo)}
    IN  [search EXCEPT !.todo = rest, !.step = IF rest = {} THEN "match" ELSE "resource"]

\* Mutant: the vector is stored under the chunk's place in its document.
EmbedChunkMutant ==
    /\ search.step = "embed"
    /\ IF search.found = {}
       THEN search' = NextFile /\ UNCHANGED vectors
       ELSE \E c \in search.found :
              /\ vectors' = vectors \cup
                   {[chunk |-> d, content |-> c.content] :
                      d \in {e \in ChunksOf(c.file) : e.place = c.place}}
              /\ search' = [search EXCEPT !.found = @ \ {c}]
    /\ UNCHANGED <<others, embedded, cited, disruptions>>

\* The chunk may be gone by the time its vector is there: the insert fails, the
\* exception is caught and the search finds nothing.
EmbedChunk ==
    /\ search.step = "embed"
    /\ IF search.found = {}
       THEN search' = NextFile /\ UNCHANGED vectors
       ELSE \E c \in search.found :
              IF c \in chunks
              THEN /\ vectors' = vectors \cup {[chunk |-> c, content |-> c.content]}
                   /\ search' = [search EXCEPT !.found = @ \ {c}]
              ELSE search' = NoSearch /\ UNCHANGED vectors
    /\ UNCHANGED <<others, embedded, cited, disruptions>>

\* searchSemanticResourceMatches: the best match of each resource the contact may be
\* sent, listed or not: the resource itself or one of its chunks. How similar they are
\* is for the model to say.
Match ==
    /\ search.step = "match"
    /\ \E M \in SUBSET {c \in {v.chunk : v \in vectors} : c.file \in Searchable(search.who)} :
          /\ \A c, d \in M : c.file = d.file => c = d
          /\ search' = [search EXCEPT !.step = "cite", !.found = M]
    /\ UNCHANGED <<others, index, disruptions>>

\* createRetrievalRun records them one by one, if they are still there.
Cite ==
    /\ search.step = "cite"
    /\ IF search.found = {} THEN search' = NoSearch /\ UNCHANGED cited
       ELSE \E c \in search.found :
              IF c \in chunks
              THEN cited' = cited \cup {c} /\ search' = [search EXCEPT !.found = @ \ {c}]
              ELSE search' = NoSearch /\ UNCHANGED cited
    /\ UNCHANGED <<others, embedded, vectors, disruptions>>

\* The model is not available, or the worker dies.
SearchFails ==
    /\ search.step # "idle" /\ disruptions < MaxDisruptions
    /\ search' = NoSearch
    /\ disruptions' = disruptions + 1
    /\ UNCHANGED <<others, index>>

Ask == \E who \in Contacts : ListResources(who)
Answering == EmbedResource \/ ListChunks \/ EmbedChunk \/ Match \/ Cite
Search == Ask \/ Answering

Serve(r) ==
    \/ Scan(r) \/ StoreAsset(r) \/ StoreResource(r) \/ Find(r) \/ Extract(r) \/ UpsertDocument(r)
    \/ DeleteChunks(r) \/ InsertChunk(r) \/ UpdateSummary(r) \/ Answer(r) \/ Crash(r)

Next ==
    \/ \E f \in Files : EditFile(f)
    \/ \E r \in Requests : Serve(r)
    \/ Search \/ SearchFails

Spec == Init /\ [][Next]_vars

\* Assumption: every contact keeps asking for files, and a call of the model ends.
Fairness == WF_vars(Answering) /\ \A who \in Contacts : SF_vars(ListResources(who))
FairSpec == Spec /\ Fairness
-----------------------------------------------------------------------------
(* Properties *)

ChunkRows == [run : 1..MaxRuns, place : Nat, file : Files, content : Contents]

\* The state is what the tables say: no two chunks at one place, no two documents
\* of one hash, no record of a chunk that is not there.
TypeOK ==
    /\ disk \in [Files -> Contents \cup {None}]
    /\ checksum \in [Files -> Contents \cup {None}]
    /\ summary \in [Files -> Contents \cup {None, NoRow}]
    /\ \A f, g \in Files : f # g /\ doc[f] # NoDoc => doc[f].hash # doc[g].hash
    /\ \A c \in chunks : c \in ChunkRows
    /\ \A c, d \in chunks : c.file = d.file /\ c.place = d.place => c = d
    /\ cited \subseteq chunks
    /\ embedded \in [Files -> Contents \cup {None, NotEmbedded}]
    /\ runs \in 0..MaxRuns /\ disruptions \in 0..MaxDisruptions

\* A search compares with vectors of texts that are stored now: none outlives its
\* chunk or belongs to an earlier one, however extractions and searches overlap.
VectorsAreOfTheirChunks ==
    \A v \in vectors : v.chunk \in chunks /\ v.content = v.chunk.content

\* Unless its last extraction broke off or overlapped another, a document's chunks
\* are the whole of one version of its file, in order, and its state says so.
DocumentsAreWhole ==
    \A f \in Files \ disturbed :
        doc[f] # NoDoc /\ Writing(f) = {} =>
            /\ {c.place : c \in ChunksOf(f)} = Places(doc[f].content)
            /\ \A c \in ChunksOf(f) : c.content = doc[f].content
            /\ (doc[f].state = "extracted") <=> (ChunksOf(f) # {})

\* When files and rows change no more, searches bring the embeddings up to date of
\* the resources that the listing reaches for some contact, and of the first chunks of
\* their documents. Resources past the limit are left out: nothing else embeds them.
EmbeddingsCatchUp ==
    <>[](\A who \in Contacts : \A f \in Listed(who) :
            /\ embedded[f] = summary[f]
            /\ doc[f].state = "extracted" =>
                 \A c \in FirstChunks(f) : \E v \in vectors : v.chunk = c)

\* docs/09_IMPLEMENTATION_PHASES.md:1115 says "Resource register/index API paths
\* trigger extraction by default and return redacted extraction status summaries."
\* They fail for ever once a search has recorded a chunk of the file, and for a
\* copy of a file that has a document.
RegisteringExtracts == \A r \in Requests : request[r].step # "failed"
=============================================================================
