--------------------------- MODULE KnowledgeProofs ---------------------------
(***************************************************************************)
(* Theorems about Knowledge, for every set of files, contents and requests, *)
(* and every bound.                                                         *)
(***************************************************************************)
EXTENDS Knowledge, Extremes

Working == {"store", "find", "extract", "document", "delete", "insert", "summary"}

RequestRows ==
    [step : Working \cup {"idle", "failed"}, todo : SUBSET Files,
     seen : [Files -> Contents \cup {None}], hash : Contents \cup {None},
     content : Contents \cup {None}, half : SUBSET Files, run : 0..MaxRuns, next : Nat]

\* What a request knows when it has come to a step.
Knows(q) ==
    /\ q.step \in Working => q.todo # {}
    /\ q.step \in Working \ {"store", "find"} => q.run # 0
    /\ q.step \in {"document", "delete", "insert", "summary"} => q.content # None
    /\ q.step = "insert" => q.next # 0

GoodRequests == {q \in RequestRows : Knows(q)}

SearchTyped ==
    /\ search \in [step : {"idle", "resource", "list", "embed", "match", "cite"},
                   who : Contacts \cup {"none"}, todo : SUBSET Files,
                   seen : [Files -> Contents \cup {None, NoRow}],
                   found : SUBSET ChunkRows]
    /\ search.step \in {"resource", "list", "embed"} => search.todo # {}

DocRows == [hash : Contents \cup {None}, state : {"none", "extracted", "failed"},
            content : Contents \cup {None}]

\* A document's state says whether text was found in it.
DocsSay ==
    /\ doc \in [Files -> DocRows]
    /\ \A f \in Files : doc[f] # NoDoc =>
         /\ doc[f].content # None
         /\ doc[f].state = "extracted" <=> ChunkCount[doc[f].content] > 0

\* The first n chunks of a version of the file, and no others.
Holds(f, n) ==
    /\ {c.place : c \in ChunksOf(f)} = 1..n
    /\ \A c \in ChunksOf(f) : c.content = doc[f].content

\* Of an undisturbed file: whoever writes the chunks is alone, and has written so
\* many of them; when nobody does, all of them are there.
Whole(f) ==
    f \notin disturbed =>
        /\ \A r \in Writing(f) :
             /\ Writing(f) = {r}
             /\ doc[f] # NoDoc
             /\ doc[f].content = request[r].content
             /\ request[r].step = "insert" =>
                  /\ request[r].next <= ChunkCount[doc[f].content] + 1
                  /\ Holds(f, request[r].next - 1)
             /\ request[r].step = "summary" => Holds(f, ChunkCount[doc[f].content])
        /\ doc[f] # NoDoc /\ Writing(f) = {} => Holds(f, ChunkCount[doc[f].content])

Typed == TypeOK /\ request \in [Requests -> GoodRequests] /\ SearchTyped /\ DocsSay

IInv == Typed /\ VectorsAreOfTheirChunks /\ \A f \in Files : Whole(f)

LEMMA FirstIsIn == ASSUME NEW S \in SUBSET Files, S # {} PROVE First(S) \in S
<1>1. S \subseteq Nat
  BY KnowledgeAssumption DEF KnowledgeAssumption
<1>2. \E f \in S : \A g \in S : f <= g
  BY <1>1, HasLeast
<1> QED
  BY <1>2 DEF First

LEMMA AtIsAFile ==
    ASSUME Typed, NEW r \in Requests, request[r].step \in Working
    PROVE  At(r) \in Files /\ At(r) \in request[r].todo
  BY FirstIsIn DEF At, Typed, GoodRequests, RequestRows, Knows

LEMMA InitEstablishes == Init => IInv
<1> SUFFICES ASSUME Init PROVE IInv
  OBVIOUS
<1> USE KnowledgeAssumption DEF KnowledgeAssumption
<1>1. TypeOK
  BY DEF Init, TypeOK, None, NoRow, NotEmbedded, NoDoc
<1>2. request \in [Requests -> GoodRequests]
  <2>1. Idle \in GoodRequests
    BY DEF Idle, GoodRequests, RequestRows, Knows, Working, None
  <2> QED
    BY <2>1 DEF Init
<1>3. SearchTyped /\ DocsSay
  BY DEF Init, SearchTyped, NoSearch, DocsSay, DocRows, NoDoc, None
<1>4. VectorsAreOfTheirChunks
  BY DEF Init, VectorsAreOfTheirChunks
<1>5. \A f \in Files : Whole(f)
  BY DEF Init, Whole, Writing, Idle
<1> QED
  BY <1>1, <1>2, <1>3, <1>4, <1>5 DEF IInv, Typed
-----------------------------------------------------------------------------
(* Each part of the invariant, action by action *)

\* A request that moves on keeps what it knows.
LEMMA RequestMoves ==
    ASSUME Typed, NEW r \in Requests, NEW q \in GoodRequests,
           request' = [request EXCEPT ![r] = q]
    PROVE  request' \in [Requests -> GoodRequests]
  BY DEF Typed

LEMMA IdleIsGood ==
    /\ Idle \in GoodRequests
    /\ [Idle EXCEPT !.step = "failed"] \in GoodRequests
    /\ \A S \in SUBSET Files : S # {} => [Idle EXCEPT !.step = "find", !.todo = S] \in GoodRequests
<1> USE KnowledgeAssumption DEF KnowledgeAssumption, GoodRequests, RequestRows, Knows, Working, None
<1>1. Idle \in GoodRequests
  BY DEF Idle
<1>2. [Idle EXCEPT !.step = "failed"] \in GoodRequests
  BY DEF Idle
<1>3. ASSUME NEW S \in SUBSET Files, S # {}
      PROVE  [Idle EXCEPT !.step = "find", !.todo = S] \in GoodRequests
  <2> DEFINE p == [Idle EXCEPT !.step = "find"]
  <2>1. p \in RequestRows /\ p.step = "find"
    BY <1>1
  <2>2. [p EXCEPT !.todo = S] \in RequestRows
    BY <2>1
  <2>3. [p EXCEPT !.todo = S].todo = S /\ [p EXCEPT !.todo = S].step = "find"
    BY <2>1
  <2>4. [p EXCEPT !.todo = S] \in GoodRequests
    BY <2>2, <2>3, <1>3
  <2> QED
    BY <2>4
<1> QED
  BY <1>1, <1>2, <1>3

LEMMA RequestsStep ==
    ASSUME IInv, NEW r \in Requests, Serve(r)
    PROVE  request' \in [Requests -> GoodRequests]
<1> USE KnowledgeAssumption DEF KnowledgeAssumption, IInv
<1> DEFINE q == request[r]
<1>q. q \in GoodRequests
  BY DEF Typed
<1>1. CASE Scan(r)
  <2>1. PICK S \in SUBSET Files :
          /\ S # {}
          /\ request' = [request EXCEPT ![r] =
                [Idle EXCEPT !.step = "store", !.todo = S,
                             !.seen = [f \in Files |-> IF f \in S THEN disk[f] ELSE None]]]
    BY <1>1 DEF Scan
  <2>2. [Idle EXCEPT !.step = "store", !.todo = S,
                     !.seen = [f \in Files |-> IF f \in S THEN disk[f] ELSE None]] \in GoodRequests
    <3> DEFINE a == [Idle EXCEPT !.step = "store"]
               b == [a EXCEPT !.todo = S]
               p == [b EXCEPT !.seen = [f \in Files |-> IF f \in S THEN disk[f] ELSE None]]
    <3>1. a \in RequestRows /\ a.step = "store"
      BY IdleIsGood DEF GoodRequests, RequestRows, Working
    <3>2. b \in RequestRows /\ b.step = "store" /\ b.todo = S
      BY <3>1 DEF RequestRows
    <3> HIDE DEF b
    <3>3. p \in RequestRows /\ p.step = "store" /\ p.todo = S
      BY <3>2 DEF RequestRows, Typed, TypeOK
    <3>4. p \in GoodRequests
      BY <3>3, <2>1 DEF GoodRequests, Knows, Working
    <3> USE DEF b
    <3> QED
      BY <3>4
  <2> QED
    BY <2>1, <2>2, RequestMoves
<1>2. CASE StoreAsset(r)
  <2>1. PICK f \in Files : request' = [request EXCEPT ![r].half = @ \cup {f}]
    BY <1>2 DEF StoreAsset
  <2>2. [q EXCEPT !.half = q.half \cup {f}] \in GoodRequests
    BY <1>q, <1>2 DEF StoreAsset, GoodRequests, RequestRows, Knows, Working
  <2> QED
    BY <2>1, <2>2, RequestMoves
<1>11. CASE StoreResource(r)
  <2>1. q.todo \in SUBSET Files /\ q.todo # {} /\ q.step = "store"
    BY <1>11, <1>q DEF StoreResource, GoodRequests, RequestRows, Knows, Working
  <2>2. PICK f \in q.half :
          \/ request' = [request EXCEPT ![r] = [q EXCEPT !.seen = [q.seen EXCEPT ![f] = None],
                                                        !.half = q.half \ {f}]]
          \/ request' = [request EXCEPT ![r] = [Idle EXCEPT !.step = "find", !.todo = q.todo]]
    BY <1>11 DEF StoreResource
  <2>3. [q EXCEPT !.seen = [q.seen EXCEPT ![f] = None], !.half = q.half \ {f}] \in GoodRequests
    <3> DEFINE a == [q EXCEPT !.seen = [q.seen EXCEPT ![f] = None]]
               b == [a EXCEPT !.half = q.half \ {f}]
    <3>1. q \in RequestRows
      BY <1>q DEF GoodRequests
    <3>2. a \in RequestRows /\ a.step = "store" /\ a.todo = q.todo
      BY <2>1, <3>1 DEF RequestRows
    <3> HIDE DEF a
    <3>3. b \in RequestRows /\ b.step = "store" /\ b.todo = q.todo
      BY <3>1, <3>2 DEF RequestRows
    <3>4. b \in GoodRequests
      BY <2>1, <3>3 DEF GoodRequests, Knows, Working
    <3> USE DEF a
    <3> QED
      BY <3>4
  <2>4. [Idle EXCEPT !.step = "find", !.todo = q.todo] \in GoodRequests
    BY <2>1, IdleIsGood
  <2> QED
    BY <2>2, <2>3, <2>4, RequestMoves
<1>3. CASE Find(r)
  <2> DEFINE p == [q EXCEPT !.step = "extract", !.hash = checksum[At(r)], !.run = runs + 1]
  <2>1. request' = [request EXCEPT ![r] = p]
    BY <1>3 DEF Find
  <2>2. checksum[At(r)] \in Contents \cup {None}
    BY <1>3, AtIsAFile DEF Find, Working, Typed, TypeOK
  <2>3. runs + 1 \in 1..MaxRuns /\ q.todo # {}
    BY <1>3, <1>q DEF Find, Typed, TypeOK, GoodRequests, Knows, Working
  <2>4. p \in GoodRequests
    <3>1. q \in RequestRows /\ Knows(q)
      BY <1>q DEF GoodRequests
    <3> DEFINE a == [q EXCEPT !.step = "extract"]
               b == [a EXCEPT !.hash = checksum[At(r)]]
               c == [b EXCEPT !.run = runs + 1]
    <3>2. a \in RequestRows /\ a.step = "extract" /\ a.todo = q.todo
      BY <3>1 DEF RequestRows, Working
    <3> HIDE DEF a
    <3>3. b \in RequestRows /\ b.step = "extract" /\ b.todo = q.todo
      BY <3>2, <2>2 DEF RequestRows
    <3> HIDE DEF b
    <3>4. c \in RequestRows /\ c.step = "extract" /\ c.todo = q.todo /\ c.run = runs + 1
      BY <3>3, <2>3 DEF RequestRows
    <3> HIDE DEF c
    <3>5. Knows(c)
      <4>1. runs + 1 # 0
        BY <2>3
      <4> QED
        BY <3>4, <2>3, <4>1 DEF Knows, Working
    <3>6. c \in GoodRequests
      BY <3>4, <3>5 DEF GoodRequests
    <3> USE DEF a, b, c
    <3> QED
      BY <3>6
  <2> HIDE DEF p
  <2> QED
    BY <2>1, <2>4, RequestMoves
<1>4. ASSUME Throw(r) PROVE request' \in [Requests -> GoodRequests]
  BY <1>4, IdleIsGood, RequestMoves DEF Throw
<1>5. CASE Extract(r)
  <2> DEFINE p == [q EXCEPT !.step = "document", !.content = disk[At(r)]]
  <2>1. disk[At(r)] \in Contents \cup {None}
    BY <1>5, AtIsAFile DEF Extract, Working, Typed, TypeOK
  <2>2. CASE disk[At(r)] # None
    <3>1. request' = [request EXCEPT ![r] = p]
      BY <1>5, <2>2 DEF Extract
    <3>2. p \in GoodRequests
      BY <1>q, <1>5, <2>1, <2>2 DEF Extract, GoodRequests, RequestRows, Knows, Working
    <3> HIDE DEF p
    <3> QED
      BY <3>1, <3>2, RequestMoves
  <2> QED
    BY <1>4, <1>5, <2>2 DEF Extract
<1>6. CASE UpsertDocument(r)
  <2> DEFINE p == [q EXCEPT !.step = "delete"]
  <2>1. p \in GoodRequests
    BY <1>q, <1>6 DEF UpsertDocument, GoodRequests, RequestRows, Knows, Working
  <2>2. Throw(r) \/ request' = [request EXCEPT ![r] = p]
    BY <1>6 DEF UpsertDocument
  <2> HIDE DEF p
  <2> QED
    BY <1>4, <2>1, <2>2, RequestMoves
<1>7. CASE DeleteChunks(r)
  <2> DEFINE p == [q EXCEPT !.step = "insert", !.next = 1]
  <2>1. p \in GoodRequests
    <3>1. q \in RequestRows /\ Knows(q) /\ q.step = "delete"
      BY <1>q, <1>7 DEF GoodRequests, DeleteChunks
    <3>2. p \in RequestRows
      BY <3>1 DEF RequestRows, Working
    <3>3. /\ p.step = "insert" /\ p.todo = q.todo /\ p.run = q.run
          /\ p.content = q.content /\ p.next = 1
      BY <3>1 DEF RequestRows
    <3>4. Knows(p)
      BY <3>1, <3>3 DEF Knows, Working
    <3> QED
      BY <3>2, <3>4 DEF GoodRequests
  <2>2. Throw(r) \/ request' = [request EXCEPT ![r] = p]
    BY <1>7 DEF DeleteChunks
  <2> HIDE DEF p
  <2> QED
    BY <1>4, <2>1, <2>2, RequestMoves
<1>8. CASE InsertChunk(r)
  <2> DEFINE p == [q EXCEPT !.step = "summary"]
             n == [q EXCEPT !.next = q.next + 1]
  <2>1. p \in GoodRequests /\ n \in GoodRequests
    BY <1>q, <1>8 DEF InsertChunk, GoodRequests, RequestRows, Knows, Working
  <2>2. \/ Throw(r)
        \/ request' = [request EXCEPT ![r] = p]
        \/ request' = [request EXCEPT ![r] = n]
    BY <1>8 DEF InsertChunk
  <2> HIDE DEF p, n
  <2> QED
    BY <1>4, <2>1, <2>2, RequestMoves
<1>9. CASE UpdateSummary(r)
  <2> DEFINE more == q.todo \ {At(r)}
  <2>1. more \in SUBSET Files
    BY <1>q DEF GoodRequests, RequestRows
  <2>2. request' = [request EXCEPT ![r] = IF more = {} THEN Idle
                                         ELSE [Idle EXCEPT !.step = "find", !.todo = more]]
    BY <1>9 DEF UpdateSummary
  <2>3. (IF more = {} THEN Idle ELSE [Idle EXCEPT !.step = "find", !.todo = more]) \in GoodRequests
    BY <2>1, IdleIsGood
  <2> QED
    BY <2>2, <2>3, RequestMoves
<1>10. CASE Answer(r) \/ Crash(r)
  BY <1>10, IdleIsGood, RequestMoves DEF Answer, Crash
<1> QED
  BY <1>1, <1>2, <1>3, <1>5, <1>6, <1>7, <1>8, <1>9, <1>10, <1>11 DEF Serve

LEMMA TypeStep == ASSUME IInv, [Next]_vars PROVE TypeOK' /\ SearchTyped'
<1> USE KnowledgeAssumption
    DEF KnowledgeAssumption, IInv, Typed, TypeOK, SearchTyped, catalog, index, others
<1>1. ASSUME NEW f \in Files, EditFile(f) PROVE TypeOK' /\ SearchTyped'
  BY <1>1 DEF EditFile
<1>2. ASSUME NEW r \in Requests, Scan(r) \/ Extract(r) \/ Answer(r) \/ Crash(r)
      PROVE  TypeOK' /\ SearchTyped'
  <2>1. UNCHANGED <<disk, catalog, doc, chunks, index, search, runs>>
    BY <1>2 DEF Scan, Extract, Answer, Crash
  <2>2. \/ disruptions' = disruptions
        \/ disruptions < MaxDisruptions /\ disruptions' = disruptions + 1
    BY <1>2 DEF Scan, Extract, Answer, Crash
  <2> QED
    BY <2>1, <2>2
<1>3. ASSUME NEW r \in Requests, StoreAsset(r) \/ StoreResource(r)
      PROVE  TypeOK' /\ SearchTyped'
  <2>1. request[r].seen \in [Files -> Contents \cup {None}] /\ request[r].half \subseteq Files
    BY DEF GoodRequests, RequestRows
  <2>2. CASE StoreAsset(r)
    BY <2>1, <2>2 DEF StoreAsset
  <2>3. CASE StoreResource(r)
    BY <2>1, <2>3 DEF StoreResource
  <2> QED
    BY <1>3, <2>2, <2>3
<1>4. ASSUME NEW r \in Requests, Find(r) PROVE TypeOK' /\ SearchTyped'
  BY <1>4 DEF Find
<1>5. ASSUME NEW r \in Requests, UpsertDocument(r) PROVE TypeOK' /\ SearchTyped'
  <2>1. At(r) \in Files
    BY <1>5, AtIsAFile DEF UpsertDocument, Working
  <2>2. CASE doc' = doc
    BY <1>5, <2>2 DEF UpsertDocument
  <2>3. CASE /\ \A g \in Files \ {At(r)} : doc[g].hash # request[r].hash
             /\ \E t : doc' = [doc EXCEPT ![At(r)] = [hash |-> request[r].hash,
                                                     content |-> request[r].content, state |-> t]]
    <3>1. \A f, g \in Files : f # g /\ doc'[f] # NoDoc => doc'[f].hash # doc'[g].hash
      BY <2>1, <2>3 DEF DocsSay
    <3> QED
      BY <1>5, <3>1 DEF UpsertDocument
  <2> QED
    BY <1>5, <2>2, <2>3 DEF UpsertDocument
<1>6. ASSUME NEW r \in Requests, DeleteChunks(r) PROVE TypeOK' /\ SearchTyped'
  BY <1>6 DEF DeleteChunks, Throw
<1>7. ASSUME NEW r \in Requests, InsertChunk(r) PROVE TypeOK' /\ SearchTyped'
  <2> DEFINE q == request[r]
             c == [run |-> q.run, place |-> q.next, file |-> At(r), content |-> q.content]
  <2>1. CASE UNCHANGED chunks
    BY <1>7, <2>1 DEF InsertChunk, Throw
  <2>2. CASE /\ chunks' = chunks \cup {c}
             /\ ~\E d \in ChunksOf(At(r)) : d.place = q.next
    <3>1. At(r) \in Files
      BY <1>7, AtIsAFile DEF InsertChunk, Working
    <3>2. q.run \in 1..MaxRuns /\ q.next \in Nat /\ q.content \in Contents
      BY <1>7 DEF InsertChunk, GoodRequests, RequestRows, Knows, Working
    <3>3. c \in ChunkRows /\ c.file = At(r) /\ c.place = q.next
      BY <3>1, <3>2 DEF ChunkRows
    <3>4. \A d \in chunks : d.file = c.file => d.place # c.place
      BY <2>2, <3>3 DEF ChunksOf
    <3> HIDE DEF c
    <3> QED
      BY <1>7, <2>2, <3>3, <3>4 DEF InsertChunk
  <2> QED
    BY <1>7, <2>1, <2>2 DEF InsertChunk
<1>8. ASSUME NEW r \in Requests, UpdateSummary(r) PROVE TypeOK' /\ SearchTyped'
  <2>1. request[r].content \in Contents \cup {None}
    BY DEF GoodRequests, RequestRows
  <2> QED
    BY <1>8, <2>1 DEF UpdateSummary
<1>9. ASSUME NEW who \in Contacts, ListResources(who) PROVE TypeOK' /\ SearchTyped'
  <2>1. Listed(who) \in SUBSET Files
    BY DEF Listed, Searchable
  <2>2. SearchTyped'
    BY <1>9, <2>1 DEF ListResources
  <2> QED
    BY <1>9, <2>2 DEF ListResources
<1>10. CASE EmbedResource
  <2>1. First(search.todo) \in Files
    BY <1>10, FirstIsIn DEF EmbedResource
  <2>2. search.seen[First(search.todo)] \in Contents \cup {None, NoRow}
    BY <2>1
  <2>3. embedded' \in [Files -> Contents \cup {None, NotEmbedded}]
    BY <1>10, <2>1, <2>2 DEF EmbedResource, NoRow, NotEmbedded
  <2>4. search' = [search EXCEPT !.step = "list", !.seen[First(search.todo)] = NoRow]
    BY <1>10 DEF EmbedResource
  <2>5. SearchTyped'
    <3> DEFINE a == [search EXCEPT !.step = "list"]
               s == [search.seen EXCEPT ![First(search.todo)] = NoRow]
    <3>1. s \in [Files -> Contents \cup {None, NoRow}]
      OBVIOUS
    <3>2. search' = [a EXCEPT !.seen = s]
      BY <2>4
    <3>3. search.todo # {}
      BY <1>10 DEF EmbedResource
    <3> HIDE DEF s
    <3> QED
      BY <3>1, <3>2, <3>3
  <2> QED
    BY <1>10, <2>3, <2>5 DEF EmbedResource
<1>11. CASE ListChunks
  <2>1. PICK F \in SUBSET ChunkRows : search' = [search EXCEPT !.step = "embed", !.found = F]
    BY <1>11 DEF ListChunks, FirstChunks, ChunksOf
  <2>2. search'.todo = search.todo /\ search'.seen = search.seen /\ search'.step = "embed"
        /\ search'.found = F
    BY <2>1
  <2>3. SearchTyped'
    BY <1>11, <2>1, <2>2 DEF ListChunks
  <2> QED
    BY <1>11, <2>3 DEF ListChunks
<1>12. CASE EmbedChunk
  <2>1. SearchTyped'
    <3>1. CASE search' = NextFile
      BY <3>1 DEF NextFile
    <3>2. CASE search' = NoSearch
      BY <3>2 DEF NoSearch
    <3>3. CASE \E c \in search.found : search' = [search EXCEPT !.found = search.found \ {c}]
      BY <3>3
    <3> QED
      BY <1>12, <3>1, <3>2, <3>3 DEF EmbedChunk
  <2> QED
    BY <1>12, <2>1 DEF EmbedChunk
<1>13. CASE Match
  <2>1. PICK M \in SUBSET {c \in {v.chunk : v \in vectors} : c.file \in Searchable(search.who)} :
          search' = [search EXCEPT !.step = "cite", !.found = M]
    BY <1>13 DEF Match
  <2>2. M \in SUBSET ChunkRows
    BY DEF VectorsAreOfTheirChunks
  <2>3. SearchTyped'
    BY <2>1, <2>2
  <2> QED
    BY <1>13, <2>3 DEF Match
<1>14. CASE Cite
  BY <1>14 DEF Cite, NoSearch
<1>15. CASE SearchFails
  BY <1>15 DEF SearchFails, NoSearch
<1>16. CASE UNCHANGED vars
  BY <1>16 DEF vars
<1> QED
  BY <1>1, <1>2, <1>3, <1>4, <1>5, <1>6, <1>7, <1>8, <1>9, <1>10, <1>11, <1>12, <1>13,
     <1>14, <1>15, <1>16 DEF Next, Serve, Search, Ask, Answering

LEMMA DocsStep == ASSUME IInv, [Next]_vars PROVE DocsSay'
<1> USE KnowledgeAssumption DEF KnowledgeAssumption, IInv, Typed, DocsSay
<1>1. ASSUME NEW r \in Requests, UpsertDocument(r) PROVE DocsSay'
  <2> DEFINE q == request[r]
             d == [hash |-> q.hash, content |-> q.content,
                   state |-> Status(q.content)]
  <2>1. At(r) \in Files
    BY <1>1, AtIsAFile DEF UpsertDocument, Working
  <2>2. q.hash \in Contents \cup {None} /\ q.content \in Contents
    BY <1>1 DEF UpsertDocument, GoodRequests, RequestRows, Knows
  <2>3. d \in DocRows /\ d.content # None
        /\ (d.state = "extracted" <=> ChunkCount[d.content] > 0)
    BY <2>2 DEF DocRows, None, Status
  <2>4. UNCHANGED doc \/ doc' = [doc EXCEPT ![At(r)] = d]
    BY <1>1 DEF UpsertDocument
  <2> HIDE DEF d
  <2> QED
    BY <2>1, <2>3, <2>4
<1>2. CASE UNCHANGED doc
  BY <1>2
<1>3. ASSUME [Next]_vars, ~\E r \in Requests : UpsertDocument(r) PROVE UNCHANGED doc
  BY <1>3 DEF Next, Serve, Search, Ask, Answering, EditFile, Scan, StoreAsset,
              StoreResource, Find, Extract, DeleteChunks, InsertChunk,
              UpdateSummary, Answer, Crash, ListResources, EmbedResource, ListChunks, EmbedChunk,
              Match, Cite, SearchFails, others, vars
<1> QED
  BY <1>1, <1>2, <1>3

LEMMA VectorsStep == ASSUME IInv, [Next]_vars PROVE VectorsAreOfTheirChunks'
<1> USE KnowledgeAssumption DEF KnowledgeAssumption, IInv, VectorsAreOfTheirChunks
<1>1. CASE UNCHANGED <<chunks, vectors>>
  BY <1>1
<1>2. ASSUME NEW r \in Requests, DeleteChunks(r) PROVE VectorsAreOfTheirChunks'
  BY <1>2 DEF DeleteChunks, Throw
<1>3. ASSUME NEW r \in Requests, InsertChunk(r) PROVE VectorsAreOfTheirChunks'
  BY <1>3 DEF InsertChunk, Throw, index
<1>4. CASE EmbedChunk
  BY <1>4 DEF EmbedChunk, others
<1>5. ASSUME [Next]_vars, ~EmbedChunk, ~\E r \in Requests : DeleteChunks(r) \/ InsertChunk(r)
      PROVE  UNCHANGED <<chunks, vectors>>
  BY <1>5 DEF Next, Serve, Search, Ask, Answering, EditFile, Scan, StoreAsset,
              StoreResource, Find, Extract, UpsertDocument,
              UpdateSummary, Answer, Crash, ListResources, EmbedResource, ListChunks,
              Match, Cite, SearchFails, index, others, vars
<1> QED
  BY <1>1, <1>2, <1>3, <1>4, <1>5

WritingSteps == {"delete", "insert", "summary"}

\* Nothing becomes of a file that the request does not write, before or after.
LEMMA WholeElsewhere ==
    ASSUME Typed, NEW g \in Files, Whole(g), NEW r \in Requests, NEW q,
           request' = [request EXCEPT ![r] = q],
           r \notin Writing(g), q.step \in WritingSteps => First(q.todo) # g,
           g \notin disturbed' => g \notin disturbed,
           doc'[g] = doc[g], ChunksOf(g)' = ChunksOf(g)
    PROVE  Whole(g)'
<1>1. request'[r] = q /\ \A s \in Requests \ {r} : request'[s] = request[s]
  BY DEF Typed
<1>2. \A s \in Requests : s \in Writing(g)' <=> s \in Writing(g)
  BY <1>1 DEF Writing, At, WritingSteps
<1>3. Writing(g)' = Writing(g) /\ r \notin Writing(g)'
  BY <1>2 DEF Writing
<1>4. \A n : Holds(g, n)' <=> Holds(g, n)
  BY DEF Holds
<1> QED
  BY <1>1, <1>3, <1>4 DEF Whole, Writing

\* A request that gives up disturbs the file whose chunks it writes.
LEMMA WholeWhenGivenUp ==
    ASSUME Typed, \A f \in Files : Whole(f), NEW r \in Requests, NEW q,
           request' = [request EXCEPT ![r] = q], q.step \notin WritingSteps,
           disturbed' = disturbed \cup (IF r \in Writing(At(r)) THEN {At(r)} ELSE {}),
           UNCHANGED <<doc, chunks>>
    PROVE  \A f \in Files : Whole(f)'
<1> TAKE f \in Files
<1>1. ChunksOf(f)' = ChunksOf(f)
  BY DEF ChunksOf
<1>2. CASE r \notin Writing(f)
  BY <1>1, <1>2, WholeElsewhere
<1>3. CASE r \in Writing(f)
  <2>1. f = At(r)
    BY <1>3 DEF Writing
  <2>2. f \in disturbed'
    BY <1>3, <2>1
  <2> QED
    BY <2>2 DEF Whole
<1> QED
  BY <1>2, <1>3

LEMMA WholeStep == ASSUME IInv, [Next]_vars PROVE \A f \in Files : Whole(f)'
<1> USE KnowledgeAssumption DEF KnowledgeAssumption, IInv
<1>1. CASE UNCHANGED <<doc, chunks, request, disturbed>>
  BY <1>1 DEF Whole, Writing, At, Holds, ChunksOf
<1>2. ASSUME NEW r \in Requests,
             Scan(r) \/ StoreAsset(r) \/ StoreResource(r) \/ Find(r) \/ Answer(r)
      PROVE  \A f \in Files : Whole(f)'
  <2>1. /\ UNCHANGED <<doc, chunks, disturbed>>
        /\ request[r].step \notin WritingSteps
    BY <1>2 DEF Scan, StoreAsset, StoreResource, Find, Answer, WritingSteps
  <2>2. \E q : request' = [request EXCEPT ![r] = q] /\ q.step \notin WritingSteps
    <3>1. CASE Scan(r)
      <4>1. \E S \in SUBSET Files :
              request' = [request EXCEPT ![r] =
                [Idle EXCEPT !.step = "store", !.todo = S,
                             !.seen = [f \in Files |-> IF f \in S THEN disk[f] ELSE None]]]
        BY <3>1 DEF Scan
      <4>2. PICK S, s :
              request' = [request EXCEPT ![r] = [Idle EXCEPT !.step = "store", !.todo = S,
                                                            !.seen = s]]
        BY <4>1
      <4>3. [Idle EXCEPT !.step = "store", !.todo = S, !.seen = s].step = "store"
        BY DEF Idle
      <4> QED
        BY <4>2, <4>3 DEF WritingSteps
    <3>2. CASE StoreAsset(r)
      <4>1. PICK f \in Files : request' = [request EXCEPT ![r].half = @ \cup {f}]
        BY <3>2 DEF StoreAsset
      <4>2. [request[r] EXCEPT !.half = request[r].half \cup {f}].step = "store"
        BY <3>2 DEF StoreAsset, Typed, GoodRequests, RequestRows
      <4> QED
        BY <4>1, <4>2 DEF WritingSteps
    <3>5. CASE StoreResource(r)
      <4> DEFINE q == request[r]
      <4>1. PICK f \in q.half :
              \/ request' = [request EXCEPT ![r] = [q EXCEPT !.seen = [q.seen EXCEPT ![f] = None],
                                                            !.half = q.half \ {f}]]
              \/ request' = [request EXCEPT ![r] = [Idle EXCEPT !.step = "find", !.todo = q.todo]]
        BY <3>5 DEF StoreResource
      <4>2. /\ [Idle EXCEPT !.step = "find", !.todo = q.todo].step = "find"
            /\ [q EXCEPT !.seen = [q.seen EXCEPT ![f] = None], !.half = q.half \ {f}].step = "store"
        BY <3>5 DEF StoreResource, Idle, Typed, GoodRequests, RequestRows
      <4> QED
        BY <4>1, <4>2 DEF WritingSteps
    <3>3. CASE Find(r)
      <4> DEFINE q == [request[r] EXCEPT !.step = "extract", !.hash = checksum[At(r)],
                                         !.run = runs + 1]
      <4>1. request' = [request EXCEPT ![r] = q]
        BY <3>3 DEF Find
      <4>2. q.step = "extract"
        BY DEF Typed, GoodRequests, RequestRows
      <4> QED
        BY <4>1, <4>2 DEF WritingSteps
    <3>4. CASE Answer(r)
      <4>1. Idle.step = "idle"
        BY DEF Idle
      <4> QED
        BY <3>4, <4>1 DEF Answer, WritingSteps
    <3> QED
      BY <1>2, <3>1, <3>2, <3>3, <3>4, <3>5
  <2>3. r \notin Writing(At(r))
    BY <2>1 DEF Writing, WritingSteps
  <2> QED
    BY <2>1, <2>2, <2>3, WholeWhenGivenUp
<1>3. ASSUME NEW r \in Requests, UNCHANGED <<doc, chunks>>, Throw(r) \/ Crash(r)
      PROVE  \A f \in Files : Whole(f)'
  <2>1. /\ disturbed' = disturbed \cup (IF r \in Writing(At(r)) THEN {At(r)} ELSE {})
        /\ \/ request' = [request EXCEPT ![r] = Idle]
           \/ request' = [request EXCEPT ![r] = [Idle EXCEPT !.step = "failed"]]
    BY <1>3 DEF Throw, Crash
  <2>2. Idle.step \notin WritingSteps /\ [Idle EXCEPT !.step = "failed"].step \notin WritingSteps
    BY DEF Idle, WritingSteps
  <2> QED
    BY <1>3, <2>1, <2>2, WholeWhenGivenUp
<1>4. ASSUME NEW r \in Requests, Extract(r) PROVE \A f \in Files : Whole(f)'
  <2> DEFINE q == [request[r] EXCEPT !.step = "document", !.content = disk[At(r)]]
  <2>1. CASE Throw(r)
    BY <1>3, <1>4, <2>1 DEF Extract
  <2>2. CASE request' = [request EXCEPT ![r] = q] /\ UNCHANGED disturbed
    <3>1. q.step = "document"
      BY DEF Typed, GoodRequests, RequestRows
    <3>2. r \notin Writing(At(r)) /\ UNCHANGED <<doc, chunks>>
      BY <1>4 DEF Extract, Writing
    <3> HIDE DEF q
    <3> QED
      BY <2>2, <3>1, <3>2, WholeWhenGivenUp DEF WritingSteps
  <2> QED
    BY <1>4, <2>1, <2>2 DEF Extract
<1>5. ASSUME NEW r \in Requests, UpsertDocument(r) PROVE \A f \in Files : Whole(f)'
  <2>f. PICK f \in Files : f = At(r) /\ First(request[r].todo) = f
    BY <1>5, AtIsAFile DEF UpsertDocument, Working, At
  <2> DEFINE q == [request[r] EXCEPT !.step = "delete"]
             d == [hash |-> request[r].hash, content |-> request[r].content,
                   state |-> Status(request[r].content)]
  <2>1. CASE Throw(r) /\ UNCHANGED doc
    BY <1>3, <1>5, <2>1 DEF UpsertDocument
  <2>2. CASE /\ request' = [request EXCEPT ![r] = q]
             /\ doc' = [doc EXCEPT ![f] = d]
             /\ disturbed' = IF Writing(f) = {} THEN disturbed \ {f} ELSE disturbed \cup {f}
    <3>1. f \in Files /\ First(request[r].todo) = f
      BY <2>f
    <3>2. q.step = "delete" /\ q.todo = request[r].todo /\ q.content = request[r].content
      BY DEF Typed, GoodRequests, RequestRows
    <3>3. r \notin Writing(f) /\ UNCHANGED chunks
      BY <1>5 DEF UpsertDocument, Writing
    <3>4. d # NoDoc /\ d.content = q.content
      BY <3>2 DEF NoDoc, Status
    <3>5. \A g \in Files : ChunksOf(g)' = ChunksOf(g)
      BY <3>3 DEF ChunksOf
    <3>6. ASSUME NEW g \in Files \ {f} PROVE Whole(g)'
      <4>1. g \notin disturbed' => g \notin disturbed
        BY <2>2
      <4>2. doc'[g] = doc[g]
        BY <2>2, <3>1 DEF Typed, DocsSay
      <4>3. r \notin Writing(g)
        BY <3>1 DEF Writing, At
      <4>4. First(q.todo) # g
        BY <3>1, <3>2
      <4> HIDE DEF q, d
      <4> QED
        BY <2>2, <3>5, <4>1, <4>2, <4>3, <4>4, WholeElsewhere
    <3>7. Whole(f)'
      <4>1. CASE Writing(f) # {}
        BY <2>2, <4>1 DEF Whole
      <4>2. CASE Writing(f) = {}
        <5>1. request'[r] = q /\ \A s \in Requests \ {r} : request'[s] = request[s]
          BY <2>2 DEF Typed
        <5>3. doc'[f] = d
          BY <2>2, <3>1 DEF Typed, DocsSay
        <5> HIDE DEF q, d
        <5>2. Writing(f)' = {r}
          BY <5>1, <4>2, <3>1, <3>2 DEF Writing, At
        <5> QED
          BY <5>1, <5>2, <5>3, <3>2, <3>4 DEF Whole
      <4> QED
        BY <4>1, <4>2
    <3> QED
      BY <3>6, <3>7
  <2> QED
    BY <1>5, <2>f, <2>1, <2>2 DEF UpsertDocument
<1>6. ASSUME NEW r \in Requests, DeleteChunks(r) PROVE \A f \in Files : Whole(f)'
  <2>f. PICK f \in Files : f = At(r) /\ First(request[r].todo) = f
    BY <1>6, AtIsAFile DEF DeleteChunks, Working, At
  <2> DEFINE q == [request[r] EXCEPT !.step = "insert", !.next = 1]
  <2>1. CASE Throw(r) /\ UNCHANGED chunks
    BY <1>3, <1>6, <2>1 DEF DeleteChunks
  <2>2. CASE /\ request' = [request EXCEPT ![r] = q]
             /\ chunks' = chunks \ ChunksOf(f)
             /\ UNCHANGED disturbed
    <3>1. f \in Files /\ First(request[r].todo) = f /\ r \in Writing(f)
      BY <1>6, <2>f DEF DeleteChunks, Writing
    <3>2. /\ q.step = "insert" /\ q.next = 1
          /\ q.todo = request[r].todo /\ q.content = request[r].content
      BY DEF Typed, GoodRequests, RequestRows
    <3>3. UNCHANGED doc
      BY <1>6 DEF DeleteChunks
    <3>4. ASSUME NEW g \in Files \ {f} PROVE Whole(g)'
      <4>1. ChunksOf(g)' = ChunksOf(g)
        BY <2>2 DEF ChunksOf
      <4>2. r \notin Writing(g) /\ First(q.todo) # g
        BY <3>1, <3>2 DEF Writing, At
      <4> HIDE DEF q
      <4> QED
        BY <2>2, <3>3, <4>1, <4>2, WholeElsewhere
    <3>5. Whole(f)'
      <4> SUFFICES ASSUME f \notin disturbed PROVE Whole(f)'
        BY <2>2 DEF Whole
      <4>1. request'[r] = q /\ \A s \in Requests \ {r} : request'[s] = request[s]
        BY <2>2 DEF Typed
      <4>2. Writing(f) = {r} /\ doc[f] # NoDoc /\ doc[f].content = q.content
        BY <3>1, <3>2 DEF Whole
      <4>3. Writing(f)' = {r}
        BY <4>1, <4>2, <3>1, <3>2 DEF Writing, At
      <4>4. ChunksOf(f)' = {}
        BY <2>2 DEF ChunksOf
      <4>5. ChunkCount[doc[f].content] \in Nat
        BY <3>1, <4>2 DEF Typed, DocsSay, DocRows, None
      <4>6. Holds(f, 0)'
        BY <4>4 DEF Holds
      <4> HIDE DEF q
      <4> QED
        BY <4>1, <4>2, <4>3, <4>5, <4>6, <3>2, <3>3 DEF Whole
    <3> QED
      BY <3>4, <3>5
  <2> QED
    BY <1>6, <2>f, <2>1, <2>2 DEF DeleteChunks
<1>7. ASSUME NEW r \in Requests, InsertChunk(r) PROVE \A f \in Files : Whole(f)'
  <2>f. PICK f \in Files : f = At(r) /\ First(request[r].todo) = f
    BY <1>7, AtIsAFile DEF InsertChunk, Working, At
  <2>k. PICK k : k = request[r].next
    OBVIOUS
  <2> DEFINE c == [run |-> request[r].run, place |-> k, file |-> f, content |-> request[r].content]
             ended == [request[r] EXCEPT !.step = "summary"]
             more == [request[r] EXCEPT !.next = k + 1]
  <2>1. CASE Throw(r) /\ UNCHANGED chunks
    BY <1>3, <1>7, <2>1 DEF InsertChunk
  <2>p. k \notin Places(request[r].content) <=> k > ChunkCount[request[r].content]
    <3>1. k \in Nat \ {0} /\ ChunkCount[request[r].content] \in Nat
      BY <1>7, <2>k DEF InsertChunk, Typed, None, GoodRequests, RequestRows, Knows
    <3> QED
      BY <3>1 DEF Places
  <2>2. CASE \/ /\ k > ChunkCount[request[r].content]
                /\ request' = [request EXCEPT ![r] = ended]
                /\ UNCHANGED <<chunks, disturbed>>
             \/ /\ ~(k > ChunkCount[request[r].content])
                /\ request' = [request EXCEPT ![r] = more]
                /\ chunks' = chunks \cup {c}
                /\ UNCHANGED disturbed
    <3>1. f \in Files /\ First(request[r].todo) = f /\ r \in Writing(f) /\ k \in Nat
      BY <1>7, <2>f, <2>k DEF InsertChunk, Writing, Typed, GoodRequests, RequestRows
    <3>2. /\ ended.step = "summary" /\ more.step = "insert" /\ more.next = k + 1
          /\ ended.todo = request[r].todo /\ more.todo = request[r].todo
          /\ ended.content = request[r].content /\ more.content = request[r].content
      BY <1>7 DEF InsertChunk, Typed, GoodRequests, RequestRows
    <3>3. UNCHANGED <<doc, disturbed>>
      BY <1>7, <2>2 DEF InsertChunk
    <3>4. c.file = f /\ c.place = k /\ c.content = request[r].content
      OBVIOUS
    <3>5. PICK q :
            /\ request' = [request EXCEPT ![r] = q]
            /\ \/ q = ended /\ k > ChunkCount[request[r].content] /\ UNCHANGED chunks
               \/ /\ q = more /\ ~(k > ChunkCount[request[r].content])
                  /\ chunks' = chunks \cup {c}
      BY <2>2
    <3>6. /\ q.todo = request[r].todo /\ q.content = request[r].content
          /\ q.step \in WritingSteps
      BY <3>2, <3>5 DEF WritingSteps
    <3>7. ASSUME NEW g \in Files \ {f} PROVE Whole(g)'
      <4>1. ChunksOf(g)' = ChunksOf(g)
        BY <2>2, <3>4 DEF ChunksOf
      <4>2. r \notin Writing(g) /\ First(q.todo) # g
        BY <3>1, <3>6 DEF Writing, At
      <4> QED
        BY <3>3, <3>5, <4>1, <4>2, WholeElsewhere
    <3>8. Whole(f)'
      <4> SUFFICES ASSUME f \notin disturbed PROVE Whole(f)'
        BY <3>3 DEF Whole
      <4>1. request'[r] = q /\ \A s \in Requests \ {r} : request'[s] = request[s]
        BY <3>5 DEF Typed
      <4>2. /\ Writing(f) = {r} /\ doc[f] # NoDoc /\ doc[f].content = request[r].content
            /\ k <= ChunkCount[doc[f].content] + 1 /\ Holds(f, k - 1)
        BY <1>7, <2>k, <3>1 DEF Whole, InsertChunk
      <4>3. Writing(f)' = {r}
        BY <4>1, <4>2, <3>1, <3>6 DEF Writing, At, WritingSteps
      <4>4. ChunkCount[doc[f].content] \in Nat /\ k # 0
        BY <1>7, <2>k, <3>1, <4>2
           DEF Typed, DocsSay, DocRows, None, InsertChunk, GoodRequests, Knows
      <4>5. CASE q = ended /\ k > ChunkCount[doc[f].content] /\ UNCHANGED chunks
        <5>1. k - 1 = ChunkCount[doc[f].content]
          BY <3>1, <4>2, <4>4, <4>5
        <5>2. Holds(f, ChunkCount[doc[f].content])'
          BY <3>3, <4>2, <4>5, <5>1 DEF Holds, ChunksOf
        <5> HIDE DEF ended, more, c
        <5> QED
          BY <3>2, <3>3, <3>6, <4>1, <4>2, <4>3, <4>5, <5>2 DEF Whole
      <4>6. CASE q = more /\ ~(k > ChunkCount[doc[f].content]) /\ chunks' = chunks \cup {c}
        <5>1. ChunksOf(f)' = ChunksOf(f) \cup {c}
          BY <4>6, <3>4 DEF ChunksOf
        <5>2. {x.place : x \in ChunksOf(f)'} = {x.place : x \in ChunksOf(f)} \cup {k}
          BY <5>1, <3>4
        <5>3. 1..k = (1..k - 1) \cup {k}
          BY <3>1, <4>4
        <5>4. Holds(f, k)'
          BY <5>1, <5>2, <5>3, <3>3, <3>4, <4>2 DEF Holds
        <5>5. more.next - 1 = k /\ more.next <= ChunkCount[doc[f].content] + 1
          BY <3>1, <3>2, <4>4, <4>6
        <5> HIDE DEF ended, more, c
        <5> QED
          BY <3>2, <3>3, <3>6, <4>1, <4>2, <4>3, <4>6, <5>4, <5>5 DEF Whole
      <4> QED
        BY <3>5, <4>2, <4>5, <4>6
    <3> QED
      BY <3>7, <3>8
  <2> QED
    BY <1>7, <2>f, <2>k, <2>p, <2>1, <2>2 DEF InsertChunk
<1>8. ASSUME NEW r \in Requests, UpdateSummary(r) PROVE \A f \in Files : Whole(f)'
  <2>f. PICK f \in Files : f = At(r) /\ First(request[r].todo) = f
    BY <1>8, AtIsAFile DEF UpdateSummary, Working, At
  <2> DEFINE rest == request[r].todo \ {f}
             q == IF rest = {} THEN Idle ELSE [Idle EXCEPT !.step = "find", !.todo = rest]
  <2>1. /\ request' = [request EXCEPT ![r] = q]
        /\ UNCHANGED <<doc, chunks, disturbed>>
    BY <1>8, <2>f DEF UpdateSummary
  <2>2. f \in Files /\ r \in Writing(f) /\ request[r].step = "summary"
    BY <1>8, <2>f DEF UpdateSummary, Writing
  <2>3. q.step \notin WritingSteps
    <3>1. [Idle EXCEPT !.step = "find", !.todo = rest].step = "find"
      BY DEF Idle
    <3> QED
      BY <3>1 DEF Idle, WritingSteps
  <2>4. \A g \in Files : ChunksOf(g)' = ChunksOf(g)
    BY <2>1 DEF ChunksOf
  <2> HIDE DEF q
  <2>5. ASSUME NEW g \in Files \ {f} PROVE Whole(g)'
    <3>1. r \notin Writing(g)
      BY <2>f DEF Writing
    <3> QED
      BY <2>1, <2>3, <2>4, <3>1, WholeElsewhere
  <2>6. Whole(f)'
    <3> SUFFICES ASSUME f \notin disturbed PROVE Whole(f)'
      BY <2>1 DEF Whole
    <3>1. request'[r] = q /\ \A s \in Requests \ {r} : request'[s] = request[s]
      BY <2>1 DEF Typed
    <3>2. Writing(f) = {r} /\ Holds(f, ChunkCount[doc[f].content])
      BY <2>2 DEF Whole
    <3>3. Writing(f)' = {}
      BY <3>1, <3>2, <2>3 DEF Writing, At, WritingSteps
    <3>4. Holds(f, ChunkCount[doc[f].content])'
      BY <3>2, <2>1, <2>4, <2>2 DEF Holds
    <3> QED
      BY <3>3, <3>4 DEF Whole
  <2> QED
    BY <2>5, <2>6
<1>9. ASSUME [Next]_vars, ~\E r \in Requests : Serve(r)
      PROVE  UNCHANGED <<doc, chunks, request, disturbed>>
  BY <1>9 DEF Next, EditFile, Search, Ask, Answering, ListResources, EmbedResource, ListChunks,
              EmbedChunk, Match, Cite, SearchFails, others, vars
<1>10. ASSUME NEW r \in Requests, Crash(r) PROVE UNCHANGED <<doc, chunks>>
  BY <1>10 DEF Crash
<1> QED
  BY <1>1, <1>2, <1>3, <1>4, <1>5, <1>6, <1>7, <1>8, <1>9, <1>10 DEF Serve
-----------------------------------------------------------------------------
LEMMA StepPreserves == IInv /\ [Next]_vars => IInv'
<1> SUFFICES ASSUME IInv, [Next]_vars PROVE IInv'
  OBVIOUS
<1>1. ASSUME ~\E r \in Requests : Serve(r) PROVE UNCHANGED request
  BY <1>1 DEF Next, EditFile, Search, Ask, Answering, ListResources, EmbedResource, ListChunks,
              EmbedChunk, Match, Cite, SearchFails, others, vars
<1>2. request' \in [Requests -> GoodRequests]
  BY <1>1, RequestsStep DEF IInv, Typed
<1> QED
  BY <1>2, TypeStep, DocsStep, VectorsStep, WholeStep DEF IInv, Typed

\* The invariant that the theorems rest on holds.
THEOREM Invariance == Spec => []IInv
  BY InitEstablishes, StepPreserves, PTL DEF Spec

\* The tables keep their unique keys and references, whatever overlaps.
THEOREM KnowledgeTyped == Spec => []TypeOK
<1>1. IInv => TypeOK
  BY DEF IInv, Typed
<1> QED
  BY Invariance, <1>1, PTL

\* No vector outlives its chunk or belongs to an earlier one.
THEOREM VectorsFollow == Spec => []VectorsAreOfTheirChunks
<1>1. IInv => VectorsAreOfTheirChunks
  BY DEF IInv
<1> QED
  BY Invariance, <1>1, PTL

\* Unless its last extraction broke off or overlapped another, a document's chunks
\* are the whole of one version of its file.
THEOREM DocumentsWhole == Spec => []DocumentsAreWhole
<1>1. IInv => DocumentsAreWhole
  <2> SUFFICES ASSUME IInv, NEW f \in Files \ disturbed, doc[f] # NoDoc, Writing(f) = {}
               PROVE  /\ {c.place : c \in ChunksOf(f)} = 1..ChunkCount[doc[f].content]
                      /\ \A c \in ChunksOf(f) : c.content = doc[f].content
                      /\ (doc[f].state = "extracted") <=> (ChunksOf(f) # {})
    BY DEF DocumentsAreWhole, Places
  <2>1. Holds(f, ChunkCount[doc[f].content])
    BY DEF IInv, Whole
  <2>2. /\ ChunkCount[doc[f].content] \in Nat
        /\ doc[f].state = "extracted" <=> ChunkCount[doc[f].content] > 0
    BY KnowledgeAssumption DEF KnowledgeAssumption, IInv, Typed, DocsSay, DocRows
  <2>3. ChunksOf(f) # {} <=> 1..ChunkCount[doc[f].content] # {}
    BY <2>1 DEF Holds
  <2>4. 1..ChunkCount[doc[f].content] # {} <=> ChunkCount[doc[f].content] > 0
    BY <2>2
  <2> QED
    BY <2>1, <2>2, <2>3, <2>4 DEF Holds
<1> QED
  BY Invariance, <1>1, PTL
=============================================================================
