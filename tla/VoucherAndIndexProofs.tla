----------------------- MODULE VoucherAndIndexProofs -----------------------
(***************************************************************************)
(* Proofs about two components that share nothing, each part by itself:    *)
(* VectorIndex, for any documents, callers and numbers of changes and      *)
(* faults, and VoucherAdmin, for any number of orders and requests, any    *)
(* vouchers and any changes of them that the DTO lets through.             *)
(***************************************************************************)
EXTENDS VectorIndex, VoucherAdmin, FiniteSetTheorems, FunctionTheorems,
        SequenceTheorems, TLAPS

-----------------------------------------------------------------------------
(* VectorIndex: the inductive invariant                                    *)

(* The queue of an upload holds documents that were read, and those whose  *)
(* points are not yet right                                                *)
QueueOfRead ==
    sync.stage = "upsert"
        => /\ Len(sync.queue) > 0
           /\ \A n \in 1..Len(sync.queue) : sync.queue[n] \in DocumentsOf(sync.docs)
           /\ \A d \in DocumentsOf(sync.docs) \ overwritten :
                  \/ points[d] = sync.docs[d]
                  \/ \E n \in 1..Len(sync.queue) : sync.queue[n] = d

(* There is something to read, and something was read                      *)
SomethingRead ==
    /\ DocumentsOf(corpus) # {}
    /\ sync.stage \notin {"none", "read"} => DocumentsOf(sync.docs) # {}

(* Until a sync writes to the collection the index is what it was          *)
SignatureKept ==
    sync.stage # "upsert" /\ synced # None /\ ~behind => Holds(synced)

(* A signature goes with a collection that is there and may stay, and is   *)
(* not the one of the documents that are being uploaded                    *)
Signed ==
    synced # None =>
        /\ ~force /\ exists /\ sync.stage \notin {"delete", "create"}
        /\ sync.stage \notin {"none", "read"} => synced # sync.docs

(* A collection that is to be created is not there, and has no points; one *)
(* that is written to is there                                             *)
NoCollection ==
    /\ ~exists => points = NoPoints
    /\ sync.stage = "create" => ~exists
    /\ sync.stage = "upsert" => exists

Asked == \E c \in Callers : caller[c].asks = "reindex" /\ caller[c].inTime

(* The wish of a reindex that came in time is there until it is looked at, *)
(* and then the upload starts from nothing                                 *)
ForceSeen ==
    Asked => /\ sync.stage \in {"none", "read", "embed", "collection"} => force
             /\ sync.stage = "upsert"
                    => \A d \in Docs \ (overwritten \cup DocumentsOf(sync.docs)) : points[d] = None

IndexInv ==
    /\ IndexTypeOK
    /\ QueueOfRead
    /\ SomethingRead
    /\ SignatureKept
    /\ Signed
    /\ NoCollection
    /\ ForceSeen

-----------------------------------------------------------------------------
(* VectorIndex: types                                                      *)

(* The documents are uploaded in some order, each of them                  *)
LEMMA UploadsAll ==
    ASSUME NEW docs \in Corpus, NEW q \in UploadAll(docs)
    PROVE  /\ q \in Seq(Docs)
           /\ \A n \in 1..Len(q) : q[n] \in DocumentsOf(docs)
           /\ \A d \in DocumentsOf(docs) : \E n \in 1..Len(q) : q[n] = d
           /\ DocumentsOf(docs) # {} => Len(q) > 0
<1> DEFINE S == DocumentsOf(docs)
           L == Cardinality(S)
<1>1. S \subseteq Docs
  BY DEF DocumentsOf
<1>2. IsFiniteSet(S) /\ L \in Nat
  BY <1>1, FS_Subset, FS_CardinalityType, IndexAssumption
<1>3. q \in [1..L -> S] /\ \A i, j \in 1..L : i # j => q[i] # q[j]
  BY DEF UploadAll, SetToSeqs
<1> HIDE DEF S, L
<1>4. Len(q) = L /\ q \in Seq(S) /\ q \in Seq(Docs)
  <2>1. q \in [1..L -> Docs]
    BY <1>1, <1>3
  <2> QED
    BY <1>2, <1>3, <2>1, IsASeq
<1>5. \A d \in S : \E n \in 1..L : q[n] = d
  <2> SUFFICES ASSUME NEW d \in S, \A n \in 1..L : q[n] # d PROVE FALSE
    OBVIOUS
  <2> DEFINE R == S \ {d}
             I == 1..L
  <2>1. IsFiniteSet(R) /\ Cardinality(R) = L - 1
    BY <1>2, FS_RemoveElement DEF L
  <2>2. IsFiniteSet(I) /\ Cardinality(I) = L
    <3>1. IsFiniteSet(1..L) /\ Cardinality(1..L) = IF 1 > L THEN 0 ELSE L - 1 + 1
      BY <1>2, FS_Interval
    <3> QED
      BY <1>2, <3>1
  <2>3. q \in [I -> R]
    BY <1>3
  <2> HIDE DEF R, I
  <2>4. Cardinality(R) < Cardinality(I)
    BY <1>2, <2>1, <2>2
  <2>5. \E x, y \in I : x # y /\ q[x] = q[y]
    BY <2>1, <2>2, <2>3, <2>4, FS_PigeonHole
  <2> QED
    BY <1>3, <2>5 DEF I
<1>6. S # {} => L > 0
  BY <1>2, <1>5
<1> QED
  BY <1>3, <1>4, <1>5, <1>6 DEF S

LEMMA SyncType ==
    ASSUME IndexTypeOK
    PROVE  /\ sync.stage \in Stage /\ sync.docs \in Corpus /\ sync.queue \in Seq(Docs)
           /\ \A st \in Stage : /\ [sync EXCEPT !.stage = st] \in Sync
                                /\ [sync EXCEPT !.stage = st].stage = st
                                /\ [sync EXCEPT !.stage = st].docs = sync.docs
                                /\ [sync EXCEPT !.stage = st].queue = sync.queue
           /\ NoSync \in Sync /\ NoSync.stage = "none"
           /\ NoPoints \in Corpus
<1>1. NoPoints \in Corpus
  BY DEF NoPoints, Corpus
<1>2. <<>> \in Seq(Docs)
  OBVIOUS
<1> QED
  BY <1>1, <1>2 DEF IndexTypeOK, Sync, NoSync, Stage

(* A caller that waits for a sync that is settled waits no longer          *)
LEMMA Settled ==
    ASSUME IndexTypeOK, Settle
    PROVE  /\ sync' \in Sync /\ sync'.stage = "none" /\ ~Asked'
           /\ caller' \in [Callers -> [asks: {"nothing", "search", "reindex"}, inTime: BOOLEAN]]
  BY SyncType DEF Settle, Asked, Idle

-----------------------------------------------------------------------------
(* VectorIndex: callers                                                    *)

LEMMA SyncJoined ==
    ASSUME IndexTypeOK, EnsureSynced
    PROVE  /\ sync' \in Sync
           /\ \/ sync.stage = "none" /\ sync'.stage = "read"
              \/ sync.stage # "none" /\ sync' = sync
<1>1. [NoSync EXCEPT !.stage = "read"] \in Sync /\ [NoSync EXCEPT !.stage = "read"].stage = "read"
  BY SyncType DEF NoSync, Sync, Stage
<1> QED
  BY <1>1 DEF EnsureSynced, IndexTypeOK

LEMMA SearchKeeps ==
    ASSUME IndexInv, NEW c \in Callers, Search(c)
    PROVE  IndexInv'
<1>1. /\ sync' \in Sync
      /\ \/ sync.stage = "none" /\ sync'.stage = "read"
         \/ sync.stage # "none" /\ sync' = sync
  BY SyncJoined DEF IndexInv, Search
<1>2. UNCHANGED <<corpus, edits, exists, points, late, synced, force, faults,
                  overwritten, behind>>
  BY DEF Search, store, history
<1>3. /\ caller' \in [Callers -> [asks: {"nothing", "search", "reindex"}, inTime: BOOLEAN]]
      /\ Asked' => Asked
  BY DEF IndexInv, IndexTypeOK, Search, Asked
<1>4. IndexTypeOK'
  BY <1>1, <1>2, <1>3 DEF IndexInv, IndexTypeOK
<1>5. QueueOfRead' /\ SomethingRead'
  BY <1>1, <1>2 DEF IndexInv, QueueOfRead, SomethingRead, DocumentsOf
<1>6. SignatureKept' /\ Signed' /\ NoCollection'
  BY <1>1, <1>2 DEF IndexInv, SignatureKept, Signed, NoCollection, Holds, DocumentsOf,
     NoPoints
<1>7. ForceSeen'
  BY <1>1, <1>2, <1>3 DEF IndexInv, ForceSeen, DocumentsOf
<1> QED
  BY <1>4, <1>5, <1>6, <1>7 DEF IndexInv

LEMMA ReindexKeeps ==
    ASSUME IndexInv, NEW c \in Callers, Reindex(c)
    PROVE  IndexInv'
<1>1. /\ sync' \in Sync
      /\ \/ sync.stage = "none" /\ sync'.stage = "read"
         \/ sync.stage # "none" /\ sync' = sync
  BY SyncJoined DEF IndexInv, Reindex
<1>2. /\ UNCHANGED <<corpus, edits, exists, points, late, faults, overwritten, behind>>
      /\ synced' = None /\ force'
  BY DEF Reindex, store, history
<1>3. /\ caller' \in [Callers -> [asks: {"nothing", "search", "reindex"}, inTime: BOOLEAN]]
      /\ Asked' => Asked \/ sync.stage \in {"none", "read", "embed", "collection"}
  <2> DEFINE b == sync.stage \in {"none", "read", "embed", "collection"}
  <2>1. caller' = [caller EXCEPT ![c] = [asks |-> "reindex", inTime |-> b]] /\ b \in BOOLEAN
    BY DEF Reindex
  <2>2. caller \in [Callers -> [asks: {"nothing", "search", "reindex"}, inTime: BOOLEAN]]
    BY DEF IndexInv, IndexTypeOK
  <2> HIDE DEF b
  <2>3. /\ caller' \in [Callers -> [asks: {"nothing", "search", "reindex"}, inTime: BOOLEAN]]
        /\ Asked' => Asked \/ b
    BY <2>1, <2>2 DEF Asked
  <2> QED
    BY <2>3 DEF b
<1>4. IndexTypeOK'
  BY <1>1, <1>2, <1>3 DEF IndexInv, IndexTypeOK, Reindex
<1>5. QueueOfRead' /\ SomethingRead'
  BY <1>1, <1>2 DEF IndexInv, QueueOfRead, SomethingRead, DocumentsOf
<1>6. SignatureKept' /\ Signed' /\ NoCollection'
  BY <1>1, <1>2 DEF IndexInv, SignatureKept, Signed, NoCollection, NoPoints
<1>7. ForceSeen'
  BY <1>1, <1>2, <1>3 DEF IndexInv, ForceSeen, DocumentsOf
<1> QED
  BY <1>4, <1>5, <1>6, <1>7 DEF IndexInv

-----------------------------------------------------------------------------
(* VectorIndex: the synchronisation                                        *)

LEMMA SyncReadKeeps ==
    ASSUME IndexInv, SyncRead
    PROVE  IndexInv'
<1>1. sync.stage = "read" /\ UNCHANGED <<corpus, edits, exists, points, late, synced, force,
                                          faults, overwritten, behind>>
  BY DEF SyncRead, store, history
<1>2. /\ sync' \in Sync /\ (Asked' => Asked)
      /\ caller' \in [Callers -> [asks: {"nothing", "search", "reindex"}, inTime: BOOLEAN]]
      /\ \/ sync'.stage = "none"
         \/ sync'.stage = "embed" /\ sync'.docs = corpus /\ corpus # synced
  <2>1. CASE Settle
    BY <2>1, Settled DEF IndexInv
  <2>2. CASE /\ corpus # synced /\ caller' = caller
             /\ sync' = [sync EXCEPT !.stage = "embed", !.docs = corpus]
    BY <2>2 DEF IndexInv, IndexTypeOK, Sync, Stage, Asked
  <2> QED
    BY <2>1, <2>2 DEF SyncRead
<1>3. IndexTypeOK'
  BY <1>1, <1>2 DEF IndexInv, IndexTypeOK
<1>4. QueueOfRead' /\ SomethingRead'
  BY <1>1, <1>2 DEF IndexInv, QueueOfRead, SomethingRead, DocumentsOf
<1>5. SignatureKept' /\ Signed' /\ NoCollection'
  BY <1>1, <1>2 DEF IndexInv, SignatureKept, Signed, NoCollection, Holds, DocumentsOf,
     NoPoints
<1>6. ForceSeen'
  BY <1>1, <1>2 DEF IndexInv, ForceSeen
<1> QED
  BY <1>3, <1>4, <1>5, <1>6 DEF IndexInv

LEMMA SyncEmbedKeeps ==
    ASSUME IndexInv, SyncEmbed
    PROVE  IndexInv'
<1>1. /\ sync.stage = "embed"
      /\ UNCHANGED <<corpus, edits, exists, points, late, synced, force, caller, faults,
                     overwritten, behind>>
  BY DEF SyncEmbed, store, history
<1>2. sync' \in Sync /\ sync'.stage = "collection" /\ sync'.docs = sync.docs
  BY SyncType DEF IndexInv, SyncEmbed, Stage
<1>3. IndexTypeOK'
  BY <1>1, <1>2 DEF IndexInv, IndexTypeOK
<1>4. QueueOfRead' /\ SomethingRead'
  BY <1>1, <1>2 DEF IndexInv, QueueOfRead, SomethingRead, DocumentsOf
<1>5. SignatureKept' /\ Signed' /\ NoCollection'
  BY <1>1, <1>2 DEF IndexInv, SignatureKept, Signed, NoCollection, Holds, DocumentsOf,
     NoPoints
<1>6. ForceSeen'
  BY <1>1, <1>2 DEF IndexInv, ForceSeen, Asked
<1> QED
  BY <1>3, <1>4, <1>5, <1>6 DEF IndexInv

(* An upload begins *)
LEMMA UploadBegins ==
    ASSUME IndexInv, NEW q \in UploadAll(sync.docs), sync.stage \notin {"none", "read"},
           sync' = [sync EXCEPT !.stage = "upsert", !.queue = q]
    PROVE  /\ sync' \in Sync /\ sync'.stage = "upsert" /\ sync'.docs = sync.docs
           /\ Len(sync'.queue) > 0
           /\ \A n \in 1..Len(sync'.queue) : sync'.queue[n] \in DocumentsOf(sync.docs)
           /\ \A d \in DocumentsOf(sync.docs) : \E n \in 1..Len(sync'.queue) : sync'.queue[n] = d
<1>1. sync.docs \in Corpus /\ DocumentsOf(sync.docs) # {}
  BY SyncType DEF IndexInv, SomethingRead
<1>2. /\ q \in Seq(Docs) /\ Len(q) > 0
      /\ \A n \in 1..Len(q) : q[n] \in DocumentsOf(sync.docs)
      /\ \A d \in DocumentsOf(sync.docs) : \E n \in 1..Len(q) : q[n] = d
  BY <1>1, UploadsAll
<1>3. sync' \in Sync /\ sync'.stage = "upsert" /\ sync'.docs = sync.docs /\ sync'.queue = q
  BY <1>2 DEF IndexInv, IndexTypeOK, Sync, Stage
<1> QED
  BY <1>2, <1>3

LEMMA SyncCollectionKeeps ==
    ASSUME IndexInv, SyncCollection
    PROVE  IndexInv'
<1>1. /\ sync.stage = "collection"
      /\ UNCHANGED <<corpus, edits, exists, points, late, synced, force, caller, faults,
                     overwritten, behind>>
  BY DEF SyncCollection, store, history
<1>2. /\ sync' \in Sync /\ sync'.docs = sync.docs
      /\ \/ sync'.stage = "create" /\ ~exists
         \/ sync'.stage = "delete" /\ force
         \/ /\ sync'.stage = "upsert" /\ exists /\ ~force /\ Len(sync'.queue) > 0
            /\ \A n \in 1..Len(sync'.queue) : sync'.queue[n] \in DocumentsOf(sync.docs)
            /\ \A d \in DocumentsOf(sync.docs) :
                   \E n \in 1..Len(sync'.queue) : sync'.queue[n] = d
  <2>1. CASE /\ exists /\ ~force
             /\ \E q \in UploadAll(sync.docs) :
                    sync' = [sync EXCEPT !.stage = "upsert", !.queue = q]
    BY <1>1, <2>1, UploadBegins
  <2>2. CASE ~exists /\ sync' = [sync EXCEPT !.stage = "create"]
    BY <2>2, SyncType DEF IndexInv, Stage
  <2>3. CASE force /\ sync' = [sync EXCEPT !.stage = "delete"]
    BY <2>3, SyncType DEF IndexInv, Stage
  <2> QED
    BY <2>1, <2>2, <2>3 DEF SyncCollection
<1>3. IndexTypeOK'
  BY <1>1, <1>2 DEF IndexInv, IndexTypeOK
<1>4. QueueOfRead' /\ SomethingRead'
  BY <1>1, <1>2 DEF IndexInv, QueueOfRead, SomethingRead, DocumentsOf
<1>5. SignatureKept' /\ Signed' /\ NoCollection'
  BY <1>1, <1>2 DEF IndexInv, SignatureKept, Signed, NoCollection, Holds, DocumentsOf,
     NoPoints
<1>6. ForceSeen'
  BY <1>1, <1>2 DEF IndexInv, ForceSeen, Asked
<1> QED
  BY <1>3, <1>4, <1>5, <1>6 DEF IndexInv

LEMMA SyncDeleteKeeps ==
    ASSUME IndexInv, SyncDelete
    PROVE  IndexInv'
<1>1. /\ sync.stage = "delete" /\ ~exists' /\ points' = NoPoints
      /\ exists' \in BOOLEAN /\ overwritten' = {}
      /\ UNCHANGED <<corpus, edits, late, synced, force, caller, faults, behind>>
  BY DEF SyncDelete
<1>2. sync' \in Sync /\ sync'.stage = "create" /\ sync'.docs = sync.docs /\ NoPoints \in Corpus
  BY SyncType DEF IndexInv, SyncDelete, Stage
<1>3. IndexTypeOK'
  BY <1>1, <1>2 DEF IndexInv, IndexTypeOK
<1>4. QueueOfRead' /\ SomethingRead'
  BY <1>1, <1>2 DEF IndexInv, QueueOfRead, SomethingRead, DocumentsOf
<1>5. SignatureKept' /\ Signed' /\ NoCollection'
  BY <1>1, <1>2 DEF IndexInv, SignatureKept, Signed, NoCollection, NoPoints
<1>6. ForceSeen'
  BY <1>1, <1>2 DEF IndexInv, ForceSeen, Asked
<1> QED
  BY <1>3, <1>4, <1>5, <1>6 DEF IndexInv

LEMMA SyncCreateKeeps ==
    ASSUME IndexInv, SyncCreate
    PROVE  IndexInv'
<1>1. /\ sync.stage = "create" /\ exists' = TRUE
      /\ UNCHANGED <<corpus, edits, points, late, synced, force, caller, faults,
                     overwritten, behind>>
  BY DEF SyncCreate, history
<1>2. PICK q \in UploadAll(sync.docs) : sync' = [sync EXCEPT !.stage = "upsert", !.queue = q]
  BY DEF SyncCreate
<1>3. /\ sync' \in Sync /\ sync'.stage = "upsert" /\ sync'.docs = sync.docs
      /\ Len(sync'.queue) > 0
      /\ \A n \in 1..Len(sync'.queue) : sync'.queue[n] \in DocumentsOf(sync.docs)
      /\ \A d \in DocumentsOf(sync.docs) : \E n \in 1..Len(sync'.queue) : sync'.queue[n] = d
  BY <1>1, <1>2, UploadBegins
<1>4. \A d \in Docs : points[d] = None
  BY <1>1 DEF IndexInv, NoCollection, NoPoints
<1>5. IndexTypeOK'
  BY <1>1, <1>3 DEF IndexInv, IndexTypeOK
<1>6. QueueOfRead' /\ SomethingRead'
  BY <1>1, <1>3 DEF IndexInv, QueueOfRead, SomethingRead, DocumentsOf
<1>7. SignatureKept' /\ Signed' /\ NoCollection'
  BY <1>1, <1>3 DEF IndexInv, SignatureKept, Signed, NoCollection
<1>8. ForceSeen'
  BY <1>1, <1>3, <1>4 DEF IndexInv, ForceSeen
<1> QED
  BY <1>5, <1>6, <1>7, <1>8 DEF IndexInv

(* The document at the head of the queue is uploaded *)
LEMMA HeadUploaded ==
    ASSUME IndexInv, sync.stage = "upsert", points' = [points EXCEPT ![Head(sync.queue)] = sync.docs[Head(sync.queue)]],
           overwritten' = overwritten \ {Head(sync.queue)}
    PROVE  LET h == Head(sync.queue) IN
           /\ h \in Docs /\ h \in DocumentsOf(sync.docs) /\ h = sync.queue[1]
           /\ points' \in Corpus /\ points'[h] = sync.docs[h]
           /\ \A d \in Docs : d # h => points'[d] = points[d]
           /\ overwritten' = overwritten \ {h} /\ overwritten' \subseteq Docs
<1> DEFINE h == Head(sync.queue)
<1>1. sync.queue \in Seq(Docs) /\ Len(sync.queue) > 0 /\ sync.docs \in Corpus
  BY SyncType DEF IndexInv, QueueOfRead
<1>2. h = sync.queue[1] /\ 1 \in 1..Len(sync.queue)
  BY <1>1
<1>3. h \in DocumentsOf(sync.docs) /\ h \in Docs
  BY <1>2 DEF IndexInv, QueueOfRead, DocumentsOf
<1>4. points \in Corpus /\ overwritten \subseteq Docs
  BY DEF IndexInv, IndexTypeOK
<1> HIDE DEF h
<1>5. points' = [points EXCEPT ![h] = sync.docs[h]]
  BY DEF h
<1>6. sync.docs[h] \in Contents \cup {None}
  BY <1>1, <1>3 DEF Corpus
<1>7. /\ points' \in Corpus /\ points'[h] = sync.docs[h]
      /\ \A d \in Docs : d # h => points'[d] = points[d]
  BY <1>3, <1>4, <1>5, <1>6 DEF Corpus
<1> QED
  BY <1>2, <1>3, <1>4, <1>7 DEF h

LEMMA SyncUpsertKeeps ==
    ASSUME IndexInv, SyncUpsert
    PROVE  IndexInv'
<1> DEFINE h == Head(sync.queue)
           q == sync.queue
<1>1. /\ sync.stage = "upsert" /\ Len(q) > 1 /\ points' = [points EXCEPT ![h] = sync.docs[h]] /\ overwritten' = overwritten \ {h}
      /\ sync' = [sync EXCEPT !.queue = Tail(q)]
      /\ UNCHANGED <<corpus, edits, exists, late, synced, force, caller, faults, behind>>
  BY DEF SyncUpsert, Upsert
<1>2. /\ h \in Docs /\ h \in DocumentsOf(sync.docs) /\ h = q[1]
      /\ points' \in Corpus /\ points'[h] = sync.docs[h]
      /\ \A d \in Docs : d # h => points'[d] = points[d]
      /\ overwritten' \subseteq Docs
  BY <1>1, HeadUploaded
<1>3. q \in Seq(Docs) /\ q # <<>>
  BY <1>1, SyncType DEF IndexInv
<1>4. /\ Tail(q) \in Seq(Docs) /\ Len(Tail(q)) = Len(q) - 1
      /\ \A n \in 1..Len(Tail(q)) : Tail(q)[n] = q[n + 1]
  BY <1>3, HeadTailProperties
<1>5. /\ sync' \in Sync /\ sync'.stage = "upsert" /\ sync'.docs = sync.docs
      /\ sync'.queue = Tail(q)
  BY <1>1, <1>4 DEF IndexInv, IndexTypeOK, Sync
<1>6. IndexTypeOK'
  BY <1>1, <1>2, <1>5 DEF IndexInv, IndexTypeOK
<1>7. QueueOfRead'
  <2> DEFINE D == DocumentsOf(sync.docs)
  <2>1. /\ \A n \in 1..Len(q) : q[n] \in D
        /\ \A d \in D \ overwritten : points[d] = sync.docs[d] \/ \E n \in 1..Len(q) : q[n] = d
    BY <1>1 DEF IndexInv, QueueOfRead
  <2>2. Len(q) \in Nat
    BY <1>3
  <2>3. \A n \in 1..Len(Tail(q)) : n + 1 \in 1..Len(q)
    BY <1>4, <2>2
  <2>4. \A n \in 1..Len(Tail(q)) : Tail(q)[n] \in D
    BY <1>4, <2>1, <2>3
  <2>5. ASSUME NEW d \in D \ overwritten'
        PROVE  points'[d] = sync.docs[d] \/ \E n \in 1..Len(Tail(q)) : Tail(q)[n] = d
    <3>1. CASE d = h
      BY <1>2, <3>1
    <3>2. CASE d # h
      <4>1. d \in Docs /\ d \notin overwritten
        BY <1>1, <2>5, <3>2 DEF DocumentsOf
      <4>2. points'[d] = points[d]
        BY <1>2, <3>2, <4>1
      <4>3. ASSUME NEW n \in 1..Len(q), q[n] = d
            PROVE  \E m \in 1..Len(Tail(q)) : Tail(q)[m] = d
        <5>1. n # 1
          BY <1>2, <3>2, <4>3
        <5>2. n - 1 \in 1..Len(Tail(q)) /\ (n - 1) + 1 = n
          BY <1>4, <2>2, <5>1
        <5> QED
          BY <1>4, <4>3, <5>2
      <4> QED
        BY <2>1, <2>5, <4>1, <4>2, <4>3
    <3> QED
      BY <3>1, <3>2
  <2>6. Len(Tail(q)) > 0
    BY <1>1, <1>4, <2>2
  <2>7. DocumentsOf(sync'.docs) = D /\ DocumentsOf(sync.docs)' = D
    BY <1>5 DEF DocumentsOf
  <2> HIDE DEF D, h, q
  <2> QED
    BY <1>5, <2>4, <2>5, <2>6, <2>7 DEF QueueOfRead
<1>8. SomethingRead' /\ SignatureKept' /\ Signed' /\ NoCollection'
  BY <1>1, <1>5 DEF IndexInv, SomethingRead, SignatureKept, Signed, NoCollection,
     DocumentsOf
<1>9. ForceSeen'
  BY <1>1, <1>2, <1>5 DEF IndexInv, ForceSeen, Asked, DocumentsOf
<1> QED
  BY <1>6, <1>7, <1>8, <1>9 DEF IndexInv

LEMMA SyncFinishKeeps ==
    ASSUME IndexInv, SyncFinish
    PROVE  IndexInv'
<1> DEFINE h == Head(sync.queue)
<1>1. /\ sync.stage = "upsert" /\ Len(sync.queue) = 1
      /\ points' = [points EXCEPT ![h] = sync.docs[h]] /\ overwritten' = overwritten \ {h}
      /\ synced' = sync.docs /\ force' = FALSE /\ behind' = FALSE /\ Settle
      /\ UNCHANGED <<corpus, edits, exists, late, faults>>
  BY DEF SyncFinish, Upsert
<1>2. /\ h \in Docs /\ h = sync.queue[1]
      /\ points' \in Corpus /\ points'[h] = sync.docs[h]
      /\ \A d \in Docs : d # h => points'[d] = points[d]
      /\ overwritten' \subseteq Docs
  BY <1>1, HeadUploaded
<1>3. /\ sync' \in Sync /\ sync'.stage = "none" /\ ~Asked'
      /\ caller' \in [Callers -> [asks: {"nothing", "search", "reindex"}, inTime: BOOLEAN]]
  BY <1>1, Settled DEF IndexInv
<1>4. sync.docs \in Corpus
  BY SyncType DEF IndexInv
<1>5. IndexTypeOK'
  BY <1>1, <1>2, <1>3, <1>4 DEF IndexInv, IndexTypeOK
<1>6. ASSUME NEW d \in DocumentsOf(sync.docs) \ overwritten' PROVE points'[d] = sync.docs[d]
  <2>1. CASE d = h
    BY <1>2, <2>1
  <2>2. CASE d # h
    <3>1. d \in Docs /\ d \notin overwritten
      BY <1>1, <1>6, <2>2 DEF DocumentsOf
    <3>2. \A n \in 1..Len(sync.queue) : sync.queue[n] # d
      BY <1>1, <1>2, <2>2
    <3>3. points[d] = sync.docs[d]
      BY <1>1, <1>6, <3>1, <3>2 DEF IndexInv, QueueOfRead
    <3> QED
      BY <1>2, <2>2, <3>1, <3>3
  <2> QED
    BY <2>1, <2>2
<1> HIDE DEF h
<1>7. SignatureKept'
  <2>1. Holds(synced)'
    BY <1>1, <1>6 DEF Holds, DocumentsOf
  <2> QED
    BY <2>1 DEF SignatureKept
<1>8. QueueOfRead' /\ SomethingRead' /\ Signed' /\ NoCollection' /\ ForceSeen'
  BY <1>1, <1>3 DEF IndexInv, QueueOfRead, SomethingRead, Signed, NoCollection, ForceSeen,
     DocumentsOf
<1> QED
  BY <1>5, <1>7, <1>8 DEF IndexInv

(* A sync ends without success and leaves the collection as it is *)
LEMMA BrokenOff ==
    ASSUME IndexInv, Settle, Fault, Abandon,
           \/ synced' = None
           \/ synced' = synced /\ ((behind \/ (sync.stage = "upsert" /\ synced # sync.docs)) => behind'),
           force' \in {force, FALSE}, behind' \in BOOLEAN,
           UNCHANGED <<corpus, edits, exists, points, overwritten>>
    PROVE  IndexInv'
<1>1. /\ sync' \in Sync /\ sync'.stage = "none" /\ ~Asked'
      /\ caller' \in [Callers -> [asks: {"nothing", "search", "reindex"}, inTime: BOOLEAN]]
  BY Settled DEF IndexInv
<1>2. faults' \in 0..MaxFaults
  BY IndexAssumption DEF IndexInv, IndexTypeOK, Fault
<1>3. late' \subseteq [doc: Docs, content: Contents]
  <2> DEFINE h == Head(sync.queue)
  <2>1. late \subseteq [doc: Docs, content: Contents]
    BY DEF IndexInv, IndexTypeOK
  <2>2. CASE late' = late
    BY <2>1, <2>2
  <2>3. CASE sync.stage = "upsert" /\ late' = late \cup {[doc |-> h, content |-> sync.docs[h]]}
    <3>1. sync.queue \in Seq(Docs) /\ Len(sync.queue) > 0 /\ sync.docs \in Corpus
      BY <2>3, SyncType DEF IndexInv, QueueOfRead
    <3>2. h = sync.queue[1] /\ 1 \in 1..Len(sync.queue)
      BY <3>1
    <3>3. h \in DocumentsOf(sync.docs)
      BY <2>3, <3>2 DEF IndexInv, QueueOfRead
    <3> HIDE DEF h
    <3>4. h \in Docs /\ sync.docs[h] \in Contents
      BY <3>1, <3>3 DEF DocumentsOf, Corpus
    <3> QED
      BY <2>1, <2>3, <3>4
  <2> QED
    BY <2>2, <2>3 DEF Abandon
<1>4. IndexTypeOK'
  BY <1>1, <1>2, <1>3 DEF IndexInv, IndexTypeOK
<1>5. SignatureKept'
  <2>1. CASE synced' = None
    BY <2>1 DEF SignatureKept
  <2>2. CASE synced' = synced /\ synced # None /\ ~behind'
    <3>1. synced # sync.docs \/ sync.stage # "upsert"
      BY <2>2 DEF IndexInv, Signed
    <3>2. sync.stage # "upsert" /\ ~behind
      BY <2>2, <3>1
    <3>3. Holds(synced)
      BY <2>2, <3>2 DEF IndexInv, SignatureKept
    <3> QED
      BY <2>2, <3>3 DEF SignatureKept, Holds, DocumentsOf
  <2> QED
    BY <2>1, <2>2 DEF SignatureKept
<1>6. Signed'
  BY <1>1 DEF IndexInv, Signed
<1>7. QueueOfRead' /\ SomethingRead' /\ NoCollection' /\ ForceSeen'
  BY <1>1 DEF IndexInv, QueueOfRead, SomethingRead, NoCollection, ForceSeen, DocumentsOf, NoPoints
<1> QED
  BY <1>4, <1>5, <1>6, <1>7 DEF IndexInv

LEMMA SyncFailsKeeps ==
    ASSUME IndexInv, SyncFails
    PROVE  IndexInv'
<1>1. /\ Settle /\ Fault /\ Abandon /\ synced' = synced /\ force' = force
      /\ UNCHANGED <<corpus, edits, exists, points, overwritten>>
  BY DEF SyncFails
<1>2. behind' = (behind \/ (sync.stage = "upsert" /\ synced # sync.docs))
  BY DEF SyncFails
<1>3. behind' \in BOOLEAN
  BY <1>2
<1> QED
  BY <1>1, <1>2, <1>3, BrokenOff

LEMMA RestartKeeps ==
    ASSUME IndexInv, Restart
    PROVE  IndexInv'
<1>1. /\ Settle /\ Fault /\ Abandon /\ synced' = None /\ force' = FALSE /\ behind' = behind
      /\ UNCHANGED <<corpus, edits, exists, points, overwritten>>
  BY DEF Restart, history
<1>2. behind' \in BOOLEAN
  BY <1>1 DEF IndexInv, IndexTypeOK
<1> QED
  BY <1>1, <1>2, BrokenOff

-----------------------------------------------------------------------------
(* VectorIndex: surroundings                                               *)

LEMMA LateUpsertKeeps ==
    ASSUME IndexInv, NEW w \in late, LateUpsert(w)
    PROVE  IndexInv'
<1>1. /\ late' \subseteq late
      /\ UNCHANGED <<corpus, edits, exists, synced, force, sync, caller, faults, behind>>
  BY DEF LateUpsert
<1>2. w.doc \in Docs /\ w.content \in Contents
  BY DEF IndexInv, IndexTypeOK
<1>3. points \in Corpus /\ overwritten \subseteq Docs
  BY DEF IndexInv, IndexTypeOK
<1>4. /\ points' \in Corpus /\ overwritten \subseteq overwritten' /\ overwritten' \subseteq Docs
      /\ \A d \in Docs \ overwritten' : points'[d] = points[d]
      /\ ~exists => points' = points
  <2>1. CASE exists /\ points[w.doc] # w.content
    BY <1>2, <1>3, <2>1 DEF LateUpsert, Corpus
  <2>2. CASE ~(exists /\ points[w.doc] # w.content)
    BY <1>3, <2>2 DEF LateUpsert
  <2> QED
    BY <2>1, <2>2
<1>5. IndexTypeOK'
  BY <1>1, <1>4 DEF IndexInv, IndexTypeOK
<1>6. QueueOfRead' /\ SomethingRead'
  BY <1>1, <1>4 DEF IndexInv, QueueOfRead, SomethingRead, DocumentsOf
<1>7. SignatureKept' /\ Signed' /\ NoCollection'
  BY <1>1, <1>4 DEF IndexInv, SignatureKept, Signed, NoCollection, Holds, DocumentsOf,
     NoPoints
<1>8. ForceSeen'
  BY <1>1, <1>4 DEF IndexInv, ForceSeen, Asked, DocumentsOf
<1> QED
  BY <1>5, <1>6, <1>7, <1>8 DEF IndexInv

LEMMA EditCatalogueKeeps ==
    ASSUME IndexInv, NEW d \in Docs, NEW content \in Contents \cup {None},
           EditCatalogue(d, content)
    PROVE  IndexInv'
<1>1. /\ UNCHANGED <<exists, points, late, synced, force, sync, caller, faults,
                     overwritten, behind>>
      /\ DocumentsOf(corpus') # {}
  BY DEF EditCatalogue, store, history
<1>2. corpus' \in Corpus /\ edits' \in 0..MaxEdits
  BY IndexAssumption DEF IndexInv, IndexTypeOK, EditCatalogue, Corpus
<1>3. IndexTypeOK'
  BY <1>1, <1>2 DEF IndexInv, IndexTypeOK
<1>4. QueueOfRead' /\ SomethingRead'
  BY <1>1 DEF IndexInv, QueueOfRead, SomethingRead, DocumentsOf
<1>5. SignatureKept' /\ Signed' /\ NoCollection' /\ ForceSeen'
  BY <1>1 DEF IndexInv, SignatureKept, Signed, NoCollection, ForceSeen, Asked, Holds,
     DocumentsOf, NoPoints
<1> QED
  BY <1>3, <1>4, <1>5 DEF IndexInv

-----------------------------------------------------------------------------
(* VectorIndex: the invariant holds                                        *)

LEMMA IndexStarts ==
    ASSUME IndexInit
    PROVE  IndexInv
<1>1. NoPoints \in Corpus /\ NoSync.stage = "none"
  BY DEF NoPoints, Corpus, NoSync
<1>2. NoSync \in Sync
  BY <1>1 DEF NoSync, Sync, Stage
<1>3. caller \in [Callers -> [asks: {"nothing", "search", "reindex"}, inTime: BOOLEAN]] /\ ~Asked
  BY DEF IndexInit, Idle, Asked
<1>4. IndexTypeOK
  <2>1. MaxEdits \in Nat /\ MaxFaults \in Nat /\ InitCorpus \in Corpus
    BY IndexAssumption
  <2>2. edits \in 0..MaxEdits /\ faults \in 0..MaxFaults
    BY <2>1 DEF IndexInit
  <2> QED
    BY <1>1, <1>2, <1>3, <2>1, <2>2 DEF IndexInit, IndexTypeOK
<1>5. DocumentsOf(corpus) # {}
  BY IndexAssumption DEF IndexInit, DocumentsOf
<1> QED
  BY <1>1, <1>3, <1>4, <1>5
  DEF IndexInit, IndexInv, QueueOfRead, SomethingRead, SignatureKept, Signed, NoCollection,
      ForceSeen

LEMMA IndexStep == IndexInv /\ [IndexNext]_indexVars => IndexInv'
<1> SUFFICES ASSUME IndexInv, [IndexNext]_indexVars PROVE IndexInv'
  OBVIOUS
<1>1. CASE \E c \in Callers : Search(c) \/ Reindex(c)
  BY <1>1, SearchKeeps, ReindexKeeps
<1>2. CASE SyncStep
  BY <1>2, SyncReadKeeps, SyncEmbedKeeps, SyncCollectionKeeps, SyncDeleteKeeps,
     SyncCreateKeeps, SyncUpsertKeeps, SyncFinishKeeps DEF SyncStep
<1>3. CASE SyncFails
  BY <1>3, SyncFailsKeeps
<1>4. CASE \E w \in late : LateUpsert(w)
  BY <1>4, LateUpsertKeeps
<1>5. CASE \E d \in Docs, content \in Contents \cup {None} : EditCatalogue(d, content)
  BY <1>5, EditCatalogueKeeps
<1>6. CASE Restart
  BY <1>6, RestartKeeps
<1>7. CASE UNCHANGED indexVars
  <2>1. UNCHANGED <<corpus, edits, exists, points, late, synced, force, sync, caller, faults,
                    overwritten, behind>>
    BY <1>7 DEF indexVars, store, history
  <2>2. IndexTypeOK' /\ QueueOfRead' /\ SomethingRead'
    BY <2>1 DEF IndexInv, IndexTypeOK, QueueOfRead, SomethingRead, DocumentsOf
  <2>3. SignatureKept' /\ Signed' /\ NoCollection' /\ ForceSeen'
    BY <2>1 DEF IndexInv, SignatureKept, Signed, NoCollection, ForceSeen, Asked, Holds,
       DocumentsOf, NoPoints
  <2> QED
    BY <2>2, <2>3 DEF IndexInv
<1> QED
  BY <1>1, <1>2, <1>3, <1>4, <1>5, <1>6, <1>7 DEF IndexNext

LEMMA IndexInvariant == IndexSpec => []IndexInv
  BY IndexStarts, IndexStep, PTL DEF IndexSpec

-----------------------------------------------------------------------------
(* VectorIndex: theorems                                                   *)

(* Every variable of the index keeps its type; an upsert that timed out    *)
(* carries a document that was read.                                       *)
THEOREM IndexTypeCorrect == IndexSpec => []IndexTypeOK
<1>1. IndexInv => IndexTypeOK
  BY DEF IndexInv
<1> QED
  BY <1>1, IndexInvariant, PTL

(* While no sync runs, the documents that syncedSignature was computed     *)
(* from are in the index, so that performSync rightly does nothing when    *)
(* the catalogue has them still; but for points that a late upsert has     *)
(* changed, and unless the upload of other documents has failed since.     *)
THEOREM SignatureHoldsCorrect == IndexSpec => []SignatureHolds
<1>1. IndexInv => SignatureHolds
  BY DEF IndexInv, SignatureKept, SignatureHolds
<1> QED
  BY <1>1, IndexInvariant, PTL

(* A successful sync that answers a reindex which came before it looked at *)
(* forceRecreateOnNextSync leaves no point of a document that is gone.     *)
THEOREM ReindexRebuildsCorrect == IndexSpec => ReindexRebuilds
<1>1. ASSUME IndexInv, NEW c \in Callers, caller[c].asks = "reindex", caller[c].inTime,
             SyncFinish, NEW d \in Docs \ overwritten'
      PROVE  points'[d] = sync.docs[d]
  <2> DEFINE h == Head(sync.queue)
  <2>1. /\ sync.stage = "upsert" /\ Len(sync.queue) = 1
        /\ points' = [points EXCEPT ![h] = sync.docs[h]] /\ overwritten' = overwritten \ {h} /\ Asked
    BY <1>1 DEF SyncFinish, Upsert, Asked
  <2>2. /\ h = sync.queue[1] /\ points'[h] = sync.docs[h]
        /\ \A x \in Docs : x # h => points'[x] = points[x]
    BY <1>1, <2>1, HeadUploaded
  <2> HIDE DEF h
  <2>3. CASE d = h
    BY <2>2, <2>3
  <2>4. CASE d # h /\ d \in DocumentsOf(sync.docs)
    <3>1. \A n \in 1..Len(sync.queue) : sync.queue[n] # d
      BY <2>1, <2>2, <2>4
    <3>2. points[d] = sync.docs[d]
      BY <1>1, <2>1, <2>4, <3>1 DEF IndexInv, QueueOfRead
    <3> QED
      BY <2>2, <2>4, <3>2
  <2>5. CASE d # h /\ d \notin DocumentsOf(sync.docs)
    <3>1. points[d] = None
      BY <1>1, <2>1, <2>5 DEF IndexInv, ForceSeen
    <3>2. sync.docs[d] = None
      BY <2>5 DEF DocumentsOf
    <3> QED
      BY <2>2, <2>5, <3>1, <3>2
  <2> QED
    BY <2>3, <2>4, <2>5
<1>2. IndexInv /\ [IndexNext]_indexVars
        => [\A c \in Callers :
               caller[c].asks = "reindex" /\ caller[c].inTime /\ SyncFinish
                   => \A d \in Docs \ overwritten' : points'[d] = sync.docs[d]]_indexVars
  BY <1>1
<1> QED
  BY <1>2, IndexInvariant, PTL DEF IndexSpec, ReindexRebuilds

-----------------------------------------------------------------------------
(* VoucherAdmin: the inductive invariant                                   *)

USE VoucherAssumption

(* A count that is off by the overlapping changes at most *)
Within(count, n, extra) == count - n <= extra /\ n - count <= extra

Near(count) == Within(count, Cardinality(Usages), overlaps)

NearNext(count) == Within(count, Cardinality(Usages'), overlaps')

(* The copy an open request will write back is as near as the row itself;  *)
(* before the voucher exists nobody edits or uses it; usages belong to     *)
(* orders that are placed                                                  *)
DriftInv ==
    /\ row # Null => Near(row.used)
    /\ \A e \in Open : edit[e].entity \in Row /\ Near(edit[e].entity.used)
    /\ row = Null => Usages = {} /\ Open = {}
    /\ Usages \subseteq placed
    /\ placed \cap cancelled = {}

-----------------------------------------------------------------------------
(* Types                                                                   *)

LEMMA UsagesFinite == IsFiniteSet(Usages) /\ Cardinality(Usages) \in Nat
<1>1. Usages \in SUBSET Orders
  BY DEF Usages
<1>2. IsFiniteSet(Usages)
  BY <1>1, FS_Subset
<1> QED
  BY <1>2, FS_CardinalityType

LEMMA EntityType ==
    ASSUME row \in Row, NEW d, DOMAIN d \subseteq Settable,
           \A c \in DOMAIN d : d[c] \in Values(c)
    PROVE  Entity(d) \in Row /\ Entity(d).used = row.used
<1> DEFINE f == Entity(d)
<1>1. f = [c \in Columns |-> IF c \in DOMAIN d THEN d[c] ELSE row[c]]
  BY DEF Entity
<1>2. \A c \in Columns : row[c] \in Values(c)
  BY DEF Row, Columns, Settable, Values
<1>3. \A c \in Columns : f[c] \in Values(c)
  BY <1>1, <1>2
<1>4. DOMAIN f = Columns /\ f = [c \in Columns |-> f[c]]
  BY <1>1
<1>5. f.used = row.used
  BY <1>1 DEF Columns, Settable
<1> HIDE DEF f
<1>6. f \in Row
  BY <1>3, <1>4 DEF Row, Columns, Settable, Values
<1> QED
  BY <1>5, <1>6 DEF f

(* The row after an UPDATE of some columns from an entity *)
LEMMA WrittenType ==
    ASSUME NEW r \in Row, NEW x \in Row, NEW D
    PROVE  LET f == [c \in Columns |-> IF c \in D THEN x[c] ELSE r[c]]
           IN f \in Row /\ f.used \in {x.used, r.used}
<1> DEFINE f == [c \in Columns |-> IF c \in D THEN x[c] ELSE r[c]]
<1>1. \A c \in Columns : x[c] \in Values(c) /\ r[c] \in Values(c)
  BY DEF Row, Columns, Settable, Values
<1>2. \A c \in Columns : f[c] \in Values(c)
  BY <1>1
<1>3. DOMAIN f = Columns /\ f = [c \in Columns |-> f[c]]
  OBVIOUS
<1>4. f.used \in {x.used, r.used}
  BY DEF Columns, Settable
<1> HIDE DEF f
<1>5. f \in Row
  BY <1>2, <1>3 DEF Row, Columns, Settable, Values
<1> QED
  BY <1>4, <1>5 DEF f

LEMMA DiscountType ==
    ASSUME row \in Row, NEW o \in Orders
    PROVE  DiscountAmount(o) \in Nat /\ DiscountAmount(o) <= AmountOf[o]
<1>1. AmountOf[o] \in Nat /\ row.value \in Nat /\ row.cap \in Nat \cup {Null}
  BY DEF Row
<1>2. AmountOf[o] * row.value \in Nat
  BY <1>1
<1>3. \A n \in Nat : (n + 50) \div 100 \in Nat
  OBVIOUS
<1>4. Uncapped(o) \in Nat
  BY <1>1, <1>2, <1>3 DEF Uncapped
<1> DEFINE capped == IF row.cap = Null THEN Uncapped(o) ELSE AtMost(Uncapped(o), row.cap)
<1>5. capped \in Nat
  BY <1>1, <1>4 DEF AtMost
<1>6. DiscountAmount(o) = AtMost(capped, AmountOf[o])
  BY DEF DiscountAmount
<1> HIDE DEF capped
<1> QED
  BY <1>1, <1>5, <1>6 DEF AtMost

LEMMA UsedSet ==
    ASSUME NEW r \in Row, NEW n \in Nat
    PROVE  [r EXCEPT !.used = n] \in Row /\ [r EXCEPT !.used = n].used = n
  BY DEF Row

(* A use of the voucher, with the row locked *)
LEMMA UseEffect ==
    ASSUME TypeOK, NEW o \in Orders, Use(o)
    PROVE  /\ row \in Row /\ row # Null
           /\ row' \in Row /\ row'.used = row.used + 1
           /\ discount' \in [Orders -> Nat \cup {Null}]
           /\ discount'[o] <= AmountOf[o]
           /\ Usages' = Usages \cup {o}
           /\ overlaps' = IF Open = {} THEN overlaps ELSE overlaps + 1
<1>1. row \in Row /\ row # Null
  BY DEF Use, Usable, TypeOK
<1>2. DiscountAmount(o) \in Nat /\ DiscountAmount(o) <= AmountOf[o]
  BY <1>1, DiscountType
<1>3. row.used \in Nat /\ row.used + 1 \in Nat
  BY <1>1 DEF Row
<1>4. row' \in Row /\ row'.used = row.used + 1
  BY <1>1, <1>3, UsedSet DEF Use
<1>5. discount' = [discount EXCEPT ![o] = DiscountAmount(o)]
  BY DEF Use
<1>6. /\ discount' \in [Orders -> Nat \cup {Null}]
      /\ discount'[o] <= AmountOf[o] /\ discount'[o] # Null
      /\ \A x \in Orders : x # o => discount'[x] = discount[x]
  BY <1>2, <1>5 DEF TypeOK
<1>7. Usages' = Usages \cup {o}
  BY <1>6 DEF Usages
<1> QED
  BY <1>1, <1>4, <1>6, <1>7 DEF Use

LEMMA ReleaseEffect ==
    ASSUME TypeOK, NEW o \in Orders, ReleaseVoucherUsage(o), o \in Usages => row # Null
    PROVE  /\ discount' \in [Orders -> Nat \cup {Null}]
           /\ Usages' = Usages \ {o}
           /\ o \in Usages => /\ row \in Row /\ row' \in Row
                              /\ row'.used = IF row.used = 0 THEN 0 ELSE row.used - 1
                              /\ overlaps' = IF Open = {} THEN overlaps ELSE overlaps + 1
           /\ o \notin Usages => UNCHANGED <<row, overlaps>>
<1>1. /\ discount' \in [Orders -> Nat \cup {Null}]
      /\ discount'[o] = Null /\ \A x \in Orders : x # o => discount'[x] = discount[x]
  BY DEF ReleaseVoucherUsage, TypeOK
<1>2. Usages' = Usages \ {o}
  BY <1>1 DEF Usages
<1>3. ASSUME o \in Usages
      PROVE  /\ row \in Row /\ row' \in Row
             /\ row'.used = IF row.used = 0 THEN 0 ELSE row.used - 1
             /\ overlaps' = IF Open = {} THEN overlaps ELSE overlaps + 1
  <2> DEFINE n == IF row.used = 0 THEN 0 ELSE row.used - 1
  <2>1. row \in Row /\ row.used \in Nat
    BY <1>3 DEF TypeOK, Row
  <2>2. n \in Nat
    BY <2>1
  <2>3. row' = [row EXCEPT !.used = n]
    BY <1>3 DEF ReleaseVoucherUsage
  <2> HIDE DEF n
  <2>4. row' \in Row /\ row'.used = n
    BY <2>1, <2>2, <2>3, UsedSet
  <2> QED
    BY <1>3, <2>1, <2>4 DEF ReleaseVoucherUsage, n
<1>4. o \notin Usages => UNCHANGED <<row, overlaps>>
  BY DEF ReleaseVoucherUsage
<1> QED
  BY <1>1, <1>2, <1>3, <1>4

-----------------------------------------------------------------------------
(* Steps                                                                   *)

EditType == [phase: Phase, entity: Row \cup {Null}, dirty: SUBSET Columns]

(* Request e becomes x, the others stay *)
LEMMA EditSet ==
    ASSUME TypeOK, NEW e \in Edits, NEW x \in EditType, edit' = [edit EXCEPT ![e] = x]
    PROVE  /\ edit' \in [Edits -> EditType]
           /\ \A g \in Edits : edit'[g] = IF g = e THEN x ELSE edit[g]
  BY DEF TypeOK, EditType

(* Where neither the row's counter nor the usages change *)
LEMMA NearKept ==
    ASSUME UNCHANGED <<discount, overlaps>>
    PROVE  Usages' = Usages /\ \A n : Near(n) => NearNext(n)
  BY DEF Usages, Near, NearNext

LEMMA StartsStep ==
    ASSUME TypeOK, DriftInv, row # Null, NEW e \in Edits, NEW d, DOMAIN d \subseteq Settable,
           \A c \in DOMAIN d : d[c] \in Values(c), Starts(e, d)
    PROVE  TypeOK' /\ DriftInv'
<1> DEFINE x == [phase |-> "read", entity |-> Entity(d), dirty |-> {}]
<1>1. row \in Row
  BY DEF TypeOK
<1>2. Entity(d) \in Row /\ Entity(d).used = row.used
  BY <1>1, EntityType
<1>3. x \in EditType /\ x.entity = Entity(d)
  BY <1>2 DEF EditType, Phase
<1>4. edit' = [edit EXCEPT ![e] = x] /\ UNCHANGED <<row, placed, cancelled, discount, now, overlaps>>
  BY DEF Starts, orders
<1> HIDE DEF x
<1>5. /\ edit' \in [Edits -> EditType]
      /\ \A g \in Edits : edit'[g] = IF g = e THEN x ELSE edit[g]
  BY <1>3, <1>4, EditSet
<1>6. TypeOK'
  BY <1>4, <1>5 DEF TypeOK, EditType
<1>7. Usages' = Usages /\ \A n : Near(n) => NearNext(n)
  BY <1>4, NearKept
<1>8. ASSUME NEW g \in Open' PROVE edit'[g].entity \in Row /\ NearNext(edit'[g].entity.used)
  <2>1. CASE g = e
    BY <1>2, <1>3, <1>5, <1>7, <2>1 DEF DriftInv, Open
  <2>2. CASE g # e
    BY <1>5, <1>7, <2>2 DEF DriftInv, Open
  <2> QED
    BY <2>1, <2>2
<1> QED
  BY <1>4, <1>6, <1>7, <1>8 DEF DriftInv, Near, NearNext

LEMMA SaveLoadStep ==
    ASSUME TypeOK, DriftInv, NEW e \in Edits, SaveLoad(e)
    PROVE  TypeOK' /\ DriftInv'
<1> DEFINE D == {c \in Columns : edit[e].entity[c] # row[c]}
           x == [edit[e] EXCEPT !.phase = "loaded", !.dirty = D]
<1>1. edit[e] \in EditType /\ edit[e].phase = "read" /\ e \in Open
  BY DEF TypeOK, SaveLoad, EditType, Open
<1>2. D \in SUBSET Columns
  OBVIOUS
<1>3. edit' = [edit EXCEPT ![e] = x] /\ UNCHANGED <<row, placed, cancelled, discount, now, overlaps>>
  BY DEF SaveLoad, orders
<1> HIDE DEF D
<1>4. x \in EditType /\ x.entity = edit[e].entity
  BY <1>1, <1>2 DEF EditType, Phase
<1> HIDE DEF x
<1>5. /\ edit' \in [Edits -> EditType]
      /\ \A g \in Edits : edit'[g] = IF g = e THEN x ELSE edit[g]
  BY <1>3, <1>4, EditSet
<1>6. TypeOK'
  BY <1>3, <1>5 DEF TypeOK, EditType
<1>7. Usages' = Usages /\ \A n : Near(n) => NearNext(n)
  BY <1>3, NearKept
<1>8. ASSUME NEW g \in Open' PROVE edit'[g].entity \in Row /\ NearNext(edit'[g].entity.used)
  BY <1>1, <1>4, <1>5, <1>7 DEF DriftInv, Open
<1>9. row # Null
  BY <1>1 DEF DriftInv
<1> QED
  BY <1>3, <1>6, <1>7, <1>8, <1>9 DEF DriftInv, Near, NearNext

LEMMA SaveWriteStep ==
    ASSUME TypeOK, DriftInv, NEW e \in Edits, SaveWrite(e)
    PROVE  TypeOK' /\ DriftInv'
<1> DEFINE x == Edit("done")
<1>1. /\ edit[e].phase = "loaded" /\ e \in Open /\ row # Null
      /\ edit[e].entity \in Row /\ Near(edit[e].entity.used)
  BY DEF SaveWrite, Open, DriftInv
<1>2. row \in Row /\ Near(row.used)
  BY <1>1 DEF TypeOK, DriftInv
<1>3. x \in EditType /\ x.phase = "done"
  BY DEF Edit, EditType, Phase
<1>4. /\ edit' = [edit EXCEPT ![e] = x] /\ UNCHANGED <<placed, cancelled, discount, now, overlaps>>
      /\ row' = [c \in Columns |-> IF c \in edit[e].dirty THEN edit[e].entity[c] ELSE row[c]]
  BY DEF SaveWrite, orders
<1> HIDE DEF x
<1>5. row' \in Row /\ row'.used \in {edit[e].entity.used, row.used}
  <2> DEFINE f == [c \in Columns |-> IF c \in edit[e].dirty THEN edit[e].entity[c] ELSE row[c]]
  <2>1. f \in Row /\ f.used \in {edit[e].entity.used, row.used}
    BY <1>1, <1>2, WrittenType
  <2>2. row' = f
    BY <1>4
  <2> HIDE DEF f
  <2> QED
    BY <2>1, <2>2
<1>6. /\ edit' \in [Edits -> EditType]
      /\ \A g \in Edits : edit'[g] = IF g = e THEN x ELSE edit[g]
  BY <1>3, <1>4, EditSet
<1>7. TypeOK'
  BY <1>4, <1>5, <1>6 DEF TypeOK, EditType
<1>8. Usages' = Usages /\ \A n : Near(n) => NearNext(n)
  BY <1>4, NearKept
<1>9. NearNext(row'.used)
  BY <1>1, <1>2, <1>5, <1>8
<1>10. ASSUME NEW g \in Open' PROVE g \in Open /\ edit'[g] = edit[g]
  BY <1>3, <1>6 DEF Open
<1>11. \A g \in Open' : edit'[g].entity \in Row /\ NearNext(edit'[g].entity.used)
  BY <1>8, <1>10 DEF DriftInv
<1>12. row' = Null => Open' = {} /\ Usages' = {}
  BY <1>5
<1> QED
  BY <1>4, <1>7, <1>8, <1>9, <1>11, <1>12 DEF DriftInv, Near, NearNext

LEMMA CreateStep ==
    ASSUME TypeOK, DriftInv, NEW r \in Creations, Create(r)
    PROVE  TypeOK' /\ DriftInv'
<1>1. r \in Row /\ r.used = 0 /\ row' = r
  BY DEF Create
<1>2. UNCHANGED <<placed, cancelled, discount, edit, now, overlaps>> /\ row = Null
  BY DEF Create, orders
<1>3. TypeOK'
  BY <1>1, <1>2 DEF TypeOK
<1>4. Usages' = {} /\ Open' = {}
  BY <1>2 DEF DriftInv, Usages, Open
<1>5. Cardinality({}) = 0 /\ overlaps' \in Nat
  BY <1>2, FS_EmptySet DEF TypeOK
<1>6. NearNext(row'.used)
  BY <1>1, <1>4, <1>5 DEF Near, NearNext, Within
<1> QED
  BY <1>1, <1>2, <1>3, <1>4, <1>6 DEF DriftInv, Near, NearNext

(* A use that is counted: by the row in step, by an open copy as overlap *)
LEMMA UseStep ==
    ASSUME TypeOK, DriftInv, NEW o \in Orders, Use(o), o \notin Usages, o \in placed',
           placed \subseteq placed', placed' \subseteq Orders, cancelled' = cancelled,
           placed' \cap cancelled' = {}, UNCHANGED <<edit, now>>
    PROVE  TypeOK' /\ DriftInv'
<1> DEFINE n == Cardinality(Usages)
<1>1. /\ row \in Row /\ row # Null
      /\ row' \in Row /\ row'.used = row.used + 1
      /\ discount' \in [Orders -> Nat \cup {Null}]
      /\ Usages' = Usages \cup {o}
      /\ overlaps' = IF Open = {} THEN overlaps ELSE overlaps + 1
  BY UseEffect
<1>2. n \in Nat /\ IsFiniteSet(Usages) /\ overlaps \in Nat /\ row.used \in Nat
  BY <1>1, UsagesFinite DEF TypeOK, Row
<1>3. Cardinality(Usages') = n + 1
  BY <1>1, <1>2, FS_AddElement
<1>4. overlaps' \in Nat /\ Open' = Open
  BY <1>1, <1>2 DEF Open
<1>5. TypeOK'
  BY <1>1, <1>4 DEF TypeOK
<1>6. row.used - n <= overlaps /\ n - row.used <= overlaps
  BY <1>1 DEF DriftInv, Near, Within
<1> HIDE DEF n
<1>7. NearNext(row'.used)
  BY <1>1, <1>2, <1>3, <1>6 DEF Near, NearNext, Within
<1>8. ASSUME NEW g \in Open' PROVE edit'[g].entity \in Row /\ NearNext(edit'[g].entity.used)
  <2>1. /\ g \in Open /\ edit'[g] = edit[g] /\ edit[g].entity \in Row
        /\ Near(edit[g].entity.used) /\ overlaps' = overlaps + 1
    BY <1>1, <1>4, <1>8 DEF DriftInv, Near, NearNext
  <2>2. edit[g].entity.used \in Nat
    BY <2>1 DEF Row
  <2>3. edit[g].entity.used - n <= overlaps /\ n - edit[g].entity.used <= overlaps
    BY <2>1 DEF Near, NearNext, Within, n
  <2> QED
    BY <1>2, <1>3, <2>1, <2>2, <2>3 DEF Near, NearNext, Within
<1> QED
  BY <1>1, <1>5, <1>7, <1>8 DEF DriftInv, Near, NearNext

LEMMA CancelStep ==
    ASSUME TypeOK, DriftInv, NEW o \in Orders, CancelOrder(o)
    PROVE  TypeOK' /\ DriftInv'
<1> DEFINE n == Cardinality(Usages)
<1>1. /\ o \in placed /\ placed' = placed \ {o} /\ cancelled' = cancelled \cup {o}
      /\ ReleaseVoucherUsage(o) /\ UNCHANGED <<edit, now>>
  BY DEF CancelOrder
<1>2. o \in Usages => row # Null
  BY DEF DriftInv
<1>3. /\ discount' \in [Orders -> Nat \cup {Null}]
      /\ Usages' = Usages \ {o}
      /\ o \in Usages => /\ row \in Row /\ row' \in Row
                         /\ row'.used = IF row.used = 0 THEN 0 ELSE row.used - 1
                         /\ overlaps' = IF Open = {} THEN overlaps ELSE overlaps + 1
      /\ o \notin Usages => UNCHANGED <<row, overlaps>>
  BY <1>1, <1>2, ReleaseEffect
<1>4. n \in Nat /\ IsFiniteSet(Usages) /\ overlaps \in Nat /\ Open' = Open
  BY <1>1, UsagesFinite DEF TypeOK, Open
<1>5. TypeOK'
  BY <1>1, <1>3, <1>4 DEF TypeOK
<1>6. Usages' \subseteq placed' /\ placed' \cap cancelled' = {}
  BY <1>1, <1>3 DEF DriftInv
<1>7. CASE o \notin Usages
  <2>1. UNCHANGED <<row, overlaps>> /\ Usages' = Usages
    BY <1>3, <1>7
  <2> QED
    BY <1>1, <1>4, <1>5, <1>6, <2>1 DEF DriftInv, Near, Within
<1>8. CASE o \in Usages
  <2>1. Cardinality(Usages') = n - 1
    BY <1>3, <1>4, <1>8, FS_RemoveElement
  <2>2. row.used \in Nat /\ row.used - n <= overlaps /\ n - row.used <= overlaps /\ row # Null
    BY <1>2, <1>3, <1>8 DEF Row, DriftInv, Near, Within
  <2>3. n >= 1
    BY <1>4, <1>8, FS_EmptySet
  <2> HIDE DEF n
  <2>4. NearNext(row'.used)
    BY <1>3, <1>4, <1>8, <2>1, <2>2, <2>3 DEF Near, NearNext, Within
  <2>5. ASSUME NEW g \in Open' PROVE edit'[g].entity \in Row /\ NearNext(edit'[g].entity.used)
    <3>1. /\ g \in Open /\ edit'[g] = edit[g] /\ edit[g].entity \in Row
          /\ Near(edit[g].entity.used) /\ overlaps' = overlaps + 1
      BY <1>1, <1>3, <1>4, <1>8, <2>5 DEF DriftInv, Near, NearNext
    <3>2. edit[g].entity.used \in Nat
      BY <3>1 DEF Row
    <3>3. edit[g].entity.used - n <= overlaps /\ n - edit[g].entity.used <= overlaps
      BY <3>1 DEF Near, NearNext, Within, n
    <3> QED
      BY <1>4, <2>1, <3>1, <3>2, <3>3 DEF Near, NearNext, Within
  <2> QED
    BY <1>3, <1>5, <1>6, <1>8, <2>4, <2>5 DEF DriftInv, Near, NearNext
<1> QED
  BY <1>7, <1>8

LEMMA VoucherStep == TypeOK /\ DriftInv /\ [Next]_vars => (TypeOK /\ DriftInv)'
<1> SUFFICES ASSUME TypeOK, DriftInv, [Next]_vars PROVE TypeOK' /\ DriftInv'
  OBVIOUS
<1>1. ASSUME NEW r \in Creations, Create(r) PROVE TypeOK' /\ DriftInv'
  BY <1>1, CreateStep
<1>2. ASSUME NEW e \in Edits, NEW d \in Changes, Update(e, d) PROVE TypeOK' /\ DriftInv'
  BY <1>2, StartsStep DEF Update
<1>3. ASSUME NEW e \in Edits, RemoveVoucher(e) PROVE TypeOK' /\ DriftInv'
  <2> DEFINE d == [c \in {"active"} |-> FALSE]
  <2>1. DOMAIN d \subseteq Settable /\ \A c \in DOMAIN d : d[c] \in Values(c)
    BY DEF Settable, Values
  <2>2. row # Null /\ Starts(e, d)
    BY <1>3 DEF RemoveVoucher
  <2> HIDE DEF d
  <2> QED
    BY <2>1, <2>2, StartsStep
<1>4. ASSUME NEW e \in Edits, SaveLoad(e) PROVE TypeOK' /\ DriftInv'
  BY <1>4, SaveLoadStep
<1>5. ASSUME NEW e \in Edits, SaveWrite(e) PROVE TypeOK' /\ DriftInv'
  BY <1>5, SaveWriteStep
<1>6. ASSUME NEW o \in Orders, NEW useVoucher \in BOOLEAN, Checkout(o, useVoucher)
      PROVE  TypeOK' /\ DriftInv'
  <2>1. /\ o \notin placed /\ o \notin cancelled /\ placed' = placed \cup {o}
        /\ UNCHANGED <<cancelled, edit, now>>
    BY <1>6 DEF Checkout
  <2>2. /\ o \notin Usages /\ placed' \subseteq Orders /\ placed' \cap cancelled' = {}
        /\ o \in placed' /\ placed \subseteq placed' /\ cancelled' = cancelled
    BY <2>1 DEF DriftInv, TypeOK
  <2>3. CASE Use(o)
    BY <2>1, <2>2, <2>3, UseStep
  <2>4. CASE UNCHANGED <<row, discount, overlaps>>
    <3>1. Usages' = Usages /\ Open' = Open
      BY <2>1, <2>4 DEF Usages, Open
    <3>2. TypeOK'
      BY <2>1, <2>2, <2>4 DEF TypeOK
    <3> QED
      BY <2>1, <2>2, <2>4, <3>1, <3>2 DEF DriftInv, Near, Within
  <2> QED
    BY <1>6, <2>3, <2>4 DEF Checkout
<1>7. ASSUME NEW o \in Orders, RedeemVoucher(o) PROVE TypeOK' /\ DriftInv'
  <2>1. /\ o \in placed /\ o \notin Usages /\ Use(o)
        /\ UNCHANGED <<placed, cancelled, edit, now>>
    BY <1>7 DEF RedeemVoucher, orders
  <2>2. o \in placed' /\ placed \subseteq placed' /\ placed' \subseteq Orders /\ placed' \cap cancelled' = {}
    BY <2>1 DEF DriftInv, TypeOK
  <2> QED
    BY <2>1, <2>2, UseStep
<1>8. ASSUME NEW o \in Orders, CancelOrder(o) PROVE TypeOK' /\ DriftInv'
  BY <1>8, CancelStep
<1>9. CASE TimePasses
  <2>1. /\ UNCHANGED <<row, placed, cancelled, discount, edit, overlaps>> /\ now' \in 0..MaxTime
    BY <1>9 DEF TimePasses, orders, TypeOK
  <2>2. Usages' = Usages /\ Open' = Open
    BY <2>1 DEF Usages, Open
  <2>3. TypeOK'
    BY <2>1 DEF TypeOK
  <2> QED
    BY <2>1, <2>2, <2>3 DEF DriftInv, Near, Within
<1>10. CASE UNCHANGED vars
  <2>1. Usages' = Usages /\ Open' = Open
    BY <1>10 DEF Usages, Open, vars
  <2>2. TypeOK'
    BY <1>10 DEF TypeOK, vars, orders
  <2> QED
    BY <1>10, <2>1, <2>2 DEF DriftInv, Near, Within, vars, orders
<1> QED
  BY <1>1, <1>2, <1>3, <1>4, <1>5, <1>6, <1>7, <1>8, <1>9, <1>10 DEF Next

LEMMA VoucherInit == Init => TypeOK /\ DriftInv
<1> SUFFICES ASSUME Init PROVE TypeOK /\ DriftInv
  OBVIOUS
<1>1. Usages = {} /\ Open = {}
  BY DEF Init, Usages, Open, Edit
<1>2. TypeOK
  BY DEF Init, TypeOK, Edit, Phase
<1> QED
  BY <1>1, <1>2 DEF Init, DriftInv

LEMMA VoucherInvariant == Spec => [](TypeOK /\ DriftInv)
  BY VoucherInit, VoucherStep, PTL DEF Spec

(* The row keeps to the types of its columns, whatever stale copies save() *)
(* mixes into it.                                                          *)
THEOREM TypeCorrect == Spec => []TypeOK
  BY VoucherInvariant, PTL

(* used_count differs from the number of usages by the uses and releases   *)
(* that overlapped an edit at most, for any number of edits at once.       *)
THEOREM DriftBoundedCorrect == Spec => []DriftBounded
<1>1. DriftInv => DriftBounded
  BY DEF DriftInv, DriftBounded, Near, Within
<1> QED
  BY <1>1, VoucherInvariant, PTL

-----------------------------------------------------------------------------
(* Limits                                                                  *)

(* A new usage comes from a use *)
LEMMA NewUsage ==
    ASSUME TypeOK, DriftInv, [Next]_vars, NEW o \in Usages' \ Usages
    PROVE  o \in Orders /\ Use(o) /\ o \notin Usages
<1>1. o \in Orders /\ o \notin Usages /\ discount'[o] # discount[o]
  BY DEF Usages
<1>2. ASSUME NEW x \in Orders, Use(x) PROVE x = o
  BY <1>1, <1>2 DEF Use, TypeOK
<1>3. ASSUME NEW x \in Orders, ReleaseVoucherUsage(x) PROVE FALSE
  <2>1. Usages' \subseteq Usages
    BY <1>3 DEF ReleaseVoucherUsage, TypeOK, Usages
  <2> QED
    BY <2>1
<1>4. discount' # discount
  BY <1>1
<1> QED
  BY <1>1, <1>2, <1>3, <1>4 DEF Next, Create, Update, RemoveVoucher, Starts, SaveLoad, SaveWrite, Checkout,
     RedeemVoucher, CancelOrder, TimePasses, vars

(* The quota of assertVoucherUsable holds at every use: the user's exactly, *)
(* the global one but for the overlapping changes, and calculateDiscount   *)
(* never exceeds the order's amount, whatever edits have mixed up.         *)
THEOREM UseWithinLimitsCorrect == Spec => UseWithinLimits
<1>1. ASSUME TypeOK, DriftInv, [Next]_vars, NEW o \in Usages' \ Usages
      PROVE  /\ row.limit = Null \/ Cardinality(Usages') <= row.limit + overlaps
             /\ Cardinality(UsagesOf(UserOf[o])') <= row.perUser
             /\ discount'[o] <= AmountOf[o]
  <2> DEFINE n == Cardinality(Usages)
             U == UsagesOf(UserOf[o])
  <2>1. o \in Orders /\ Use(o) /\ o \notin Usages
    BY <1>1, NewUsage
  <2>2. /\ row \in Row /\ row # Null /\ discount'[o] <= AmountOf[o] /\ Usages' = Usages \cup {o}
    BY <1>1, <2>1, UseEffect
  <2>3. n \in Nat /\ IsFiniteSet(Usages) /\ overlaps \in Nat
    BY <1>1, UsagesFinite DEF TypeOK
  <2>4. Cardinality(Usages') = n + 1
    BY <2>1, <2>2, <2>3, FS_AddElement
  <2>5. row.limit = Null \/ Cardinality(Usages') <= row.limit + overlaps
    <3>1. n - row.used <= overlaps /\ row.used \in Nat
      BY <1>1, <2>2 DEF DriftInv, Near, Within, Row
    <3>2. row.limit = Null \/ (row.limit \in Nat /\ row.used < row.limit)
      BY <2>1, <2>2 DEF Use, Usable, Row
    <3> HIDE DEF n
    <3> QED
      BY <2>3, <2>4, <3>1, <3>2
  <2>6. Cardinality(UsagesOf(UserOf[o])') <= row.perUser
    <3>1. UsagesOf(UserOf[o])' = U \cup {o} /\ o \notin U /\ U \in SUBSET Usages
      BY <2>1, <2>2 DEF UsagesOf
    <3>2. IsFiniteSet(U) /\ Cardinality(U) \in Nat
      BY <2>3, <3>1, FS_Subset, FS_CardinalityType
    <3>3. Cardinality(U \cup {o}) = Cardinality(U) + 1
      BY <3>1, <3>2, FS_AddElement
    <3>4. Cardinality(U) < row.perUser /\ row.perUser \in Nat
      BY <2>1, <2>2 DEF Use, Usable, Row
    <3> HIDE DEF U
    <3> QED
      BY <3>1, <3>2, <3>3, <3>4
  <2> QED
    BY <2>2, <2>5, <2>6
<1>2. TypeOK /\ DriftInv /\ [Next]_vars
        => [\A o \in Usages' \ Usages :
              /\ row.limit = Null \/ Cardinality(Usages') <= row.limit + overlaps
              /\ Cardinality(UsagesOf(UserOf[o])') <= row.perUser
              /\ discount'[o] <= AmountOf[o]]_vars
  BY <1>1
<1> QED
  BY <1>2, VoucherInvariant, PTL DEF Spec, UseWithinLimits
=============================================================================
