---------------------------- MODULE VectorIndex ----------------------------
(***************************************************************************)
(* The chatbot's vector index.  A search and an administrator's reindex    *)
(* first bring the collection at Qdrant up to date with the catalogue.     *)
(* There is one synchronisation at a time, which all callers wait for; a   *)
(* signature of the documents of the last one, kept in memory, tells that  *)
(* nothing has to be done.  The catalogue changes at any time, calls fail  *)
(* or time out (and may take effect afterwards), the process may restart.  *)
(*                                                                         *)
(* A signature is the documents it was computed from.  Vectors, scores and *)
(* the keyword arm are left out; a change of the vector size is a reason   *)
(* to recreate the collection like force.                                  *)
(***************************************************************************)
EXTENDS Naturals, Sequences, FiniteSets, SequencesExt

CONSTANTS
    Docs,        \* ids of documents
    Contents,    \* what a document may say
    None,        \* no such document, no signature
    Callers,     \* searches and reindex calls at a time
    InitCorpus,  \* the catalogue at the beginning
    MaxEdits,    \* bound of the changes of the catalogue
    MaxFaults    \* bound of failed calls and restarts

Corpus == [Docs -> Contents \cup {None}]

ASSUME IndexAssumption ==
    /\ IsFiniteSet(Docs)
    /\ None \notin Contents
    /\ InitCorpus \in Corpus
    /\ \E d \in Docs : InitCorpus[d] # None
    /\ {MaxEdits, MaxFaults} \subseteq Nat

VARIABLES
    corpus,   \* the documents of the catalogue
    edits,    \* its changes so far
    exists,   \* there is a collection
    points,   \* its points
    late,     \* upserts that timed out and may still be applied
    synced,   \* syncedSignature
    force,    \* forceRecreateOnNextSync
    sync,     \* syncPromise, and how far performSync is
    caller,   \* caller[c]
    faults,   \* faults so far
    overwritten,  \* history: documents whose points a late upsert has changed
                  \* since they were uploaded
    behind        \* history: the upload of other documents than those of the
                  \* signature has failed since the signature was stored

history == <<overwritten, behind>>
store == <<exists, points, late>>
indexVars == <<corpus, edits, store, synced, force, sync, caller, faults, history>>

NoPoints == [d \in Docs |-> None]

Stage == {"none", "read", "embed", "collection", "delete", "create", "upsert"}

(* docs: the documents read; queue: the ones not yet uploaded              *)
Sync == [stage: Stage, docs: Corpus, queue: Seq(Docs)]
NoSync == [stage |-> "none", docs |-> NoPoints, queue |-> <<>>]

(* inTime: the reindex came before the running sync looked at force        *)
Idle == [asks |-> "nothing", inTime |-> FALSE]

DocumentsOf(docs) == {d \in Docs : docs[d] # None}

Fault == faults < MaxFaults /\ faults' = faults + 1

-----------------------------------------------------------------------------
(* search and reindex up to ensureSynced                                   *)

(* A sync that is running is joined, else one is started                   *)
EnsureSynced == sync' = IF sync.stage = "none" THEN [NoSync EXCEPT !.stage = "read"]
                        ELSE sync

Search(c) ==
    /\ caller[c] = Idle
    /\ caller' = [caller EXCEPT ![c].asks = "search"]
    /\ EnsureSynced
    /\ UNCHANGED <<corpus, edits, store, synced, force, faults, history>>

Reindex(c) ==
    /\ caller[c] = Idle
    /\ synced' = None
    /\ force' = TRUE
    /\ caller' = [caller EXCEPT ![c] =
                     [asks |-> "reindex",
                      inTime |-> sync.stage \in {"none", "read", "embed", "collection"}]]
    /\ EnsureSynced
    /\ UNCHANGED <<corpus, edits, store, faults, history>>

-----------------------------------------------------------------------------
(* performSync                                                             *)

(* syncPromise is settled: every caller goes on with its outcome           *)
Settle == sync' = NoSync /\ caller' = [c \in Callers |-> Idle]

(* Nothing to do if the documents are those of the last success            *)
SyncRead ==
    /\ sync.stage = "read"
    /\ \/ corpus = synced /\ Settle
       \/ /\ corpus # synced
          /\ sync' = [sync EXCEPT !.stage = "embed", !.docs = corpus]
          /\ UNCHANGED caller
    /\ UNCHANGED <<corpus, edits, store, synced, force, faults, history>>

(* Mutant: the signature is stored before anything is uploaded *)
SyncEmbedSigned ==
    /\ sync.stage = "embed"
    /\ sync' = [sync EXCEPT !.stage = "collection"]
    /\ synced' = sync.docs
    /\ UNCHANGED <<corpus, edits, store, force, caller, faults, history>>

SyncEmbed ==
    /\ sync.stage = "embed"
    /\ sync' = [sync EXCEPT !.stage = "collection"]
    /\ UNCHANGED <<corpus, edits, store, synced, force, caller, faults, history>>

UploadAll(docs) == SetToSeqs(DocumentsOf(docs))

(* Mutant: the wish to recreate is not passed on *)
SyncCollectionAsIs ==
    /\ sync.stage = "collection"
    /\ \/ /\ ~exists
          /\ sync' = [sync EXCEPT !.stage = "create"]
       \/ /\ exists
          /\ \E q \in UploadAll(sync.docs) :
                 sync' = [sync EXCEPT !.stage = "upsert", !.queue = q]
    /\ UNCHANGED <<corpus, edits, store, synced, force, caller, faults, history>>

(* ensureCollection: 404, or to be recreated, or good as it is             *)
SyncCollection ==
    /\ sync.stage = "collection"
    /\ \/ /\ ~exists
          /\ sync' = [sync EXCEPT !.stage = "create"]
       \/ /\ exists /\ force
          /\ sync' = [sync EXCEPT !.stage = "delete"]
       \/ /\ exists /\ ~force
          /\ \E q \in UploadAll(sync.docs) :
                 sync' = [sync EXCEPT !.stage = "upsert", !.queue = q]
    /\ UNCHANGED <<corpus, edits, store, synced, force, caller, faults, history>>

SyncDelete ==
    /\ sync.stage = "delete"
    /\ exists' = FALSE
    /\ points' = NoPoints
    /\ overwritten' = {}
    /\ sync' = [sync EXCEPT !.stage = "create"]
    /\ UNCHANGED <<corpus, edits, late, synced, force, caller, faults, behind>>

SyncCreate ==
    /\ sync.stage = "create"
    /\ exists' = TRUE
    /\ \E q \in UploadAll(sync.docs) :
           sync' = [sync EXCEPT !.stage = "upsert", !.queue = q]
    /\ UNCHANGED <<corpus, edits, points, late, synced, force, caller, faults, history>>

Upsert(d) ==
    /\ points' = [points EXCEPT ![d] = sync.docs[d]]
    /\ overwritten' = overwritten \ {d}

(* A batch; more are to come                                               *)
SyncUpsert ==
    /\ sync.stage = "upsert"
    /\ Len(sync.queue) > 1
    /\ Upsert(Head(sync.queue))
    /\ sync' = [sync EXCEPT !.queue = Tail(@)]
    /\ UNCHANGED <<corpus, edits, exists, late, synced, force, caller, faults, behind>>

(* Mutant: the signature is taken from the catalogue when the upload ends *)
SyncFinishResigned ==
    /\ sync.stage = "upsert"
    /\ Len(sync.queue) = 1
    /\ Upsert(Head(sync.queue))
    /\ synced' = corpus
    /\ force' = FALSE
    /\ behind' = FALSE
    /\ Settle
    /\ UNCHANGED <<corpus, edits, exists, late, faults>>

(* The last batch and what follows it: also a reindex that came meanwhile  *)
(* is taken as done                                                        *)
SyncFinish ==
    /\ sync.stage = "upsert"
    /\ Len(sync.queue) = 1
    /\ Upsert(Head(sync.queue))
    /\ synced' = sync.docs
    /\ force' = FALSE
    /\ behind' = FALSE
    /\ Settle
    /\ UNCHANGED <<corpus, edits, exists, late, faults>>

(* An upsert that nobody waits for any more may be applied later           *)
Abandon ==
    \/ UNCHANGED late
    \/ /\ sync.stage = "upsert"
       /\ LET d == Head(sync.queue) IN
          late' = late \cup {[doc |-> d, content |-> sync.docs[d]]}

(* A call fails or times out.  The signature of the last success stays     *)
SyncFails ==
    /\ sync.stage # "none"
    /\ Fault
    /\ Settle
    /\ Abandon
    /\ behind' = \/ behind
                 \/ sync.stage = "upsert" /\ synced # sync.docs
    /\ UNCHANGED <<corpus, edits, exists, points, synced, force, overwritten>>

-----------------------------------------------------------------------------
(* Surroundings                                                            *)

LateUpsert(w) ==
    /\ late' = late \ {w}
    /\ IF exists /\ points[w.doc] # w.content
       THEN /\ points' = [points EXCEPT ![w.doc] = w.content]
            /\ overwritten' = overwritten \cup {w.doc}
       ELSE UNCHANGED <<points, overwritten>>
    /\ UNCHANGED <<corpus, edits, exists, synced, force, sync, caller, faults, behind>>

(* A product is added, changed or disabled; FAQ and policies stay, so that *)
(* there is always a document                                              *)
EditCatalogue(d, content) ==
    /\ edits < MaxEdits
    /\ content # corpus[d]
    /\ corpus' = [corpus EXCEPT ![d] = content]
    /\ DocumentsOf(corpus') # {}
    /\ edits' = edits + 1
    /\ UNCHANGED <<store, synced, force, sync, caller, faults, history>>

(* The process forgets the signature, a reindex and a sync                 *)
Restart ==
    /\ Fault
    /\ synced' = None
    /\ force' = FALSE
    /\ Settle
    /\ Abandon
    /\ UNCHANGED <<corpus, edits, exists, points, history>>

-----------------------------------------------------------------------------
IndexInit ==
    /\ corpus = InitCorpus
    /\ edits = 0
    /\ exists = FALSE
    /\ points = NoPoints
    /\ late = {}
    /\ synced = None
    /\ force = FALSE
    /\ sync = NoSync
    /\ caller = [c \in Callers |-> Idle]
    /\ faults = 0
    /\ overwritten = {}
    /\ behind = FALSE

SyncStep ==
    \/ SyncRead
    \/ SyncEmbed
    \/ SyncCollection
    \/ SyncDelete
    \/ SyncCreate
    \/ SyncUpsert
    \/ SyncFinish

IndexNext ==
    \/ \E c \in Callers : Search(c) \/ Reindex(c)
    \/ SyncStep
    \/ SyncFails
    \/ \E w \in late : LateUpsert(w)
    \/ \E d \in Docs, content \in Contents \cup {None} : EditCatalogue(d, content)
    \/ Restart

IndexSpec == IndexInit /\ [][IndexNext]_indexVars

(* Customers go on asking, and calls return                                *)
Fairness == /\ WF_indexVars(SyncStep)
            /\ WF_indexVars(\E c \in Callers : Search(c))

FairSpec == IndexSpec /\ Fairness

-----------------------------------------------------------------------------
IndexTypeOK ==
    /\ corpus \in Corpus
    /\ edits \in 0..MaxEdits
    /\ exists \in BOOLEAN
    /\ points \in Corpus
    /\ late \subseteq [doc: Docs, content: Contents]
    /\ synced \in Corpus \cup {None}
    /\ force \in BOOLEAN
    /\ sync \in Sync
    /\ caller \in [Callers -> [asks: {"nothing", "search", "reindex"},
                               inTime: BOOLEAN]]
    /\ faults \in 0..MaxFaults
    /\ overwritten \subseteq Docs
    /\ behind \in BOOLEAN

(* The documents are in the index, but for late upserts                    *)
Holds(docs) == \A d \in DocumentsOf(docs) \ overwritten : points[d] = docs[d]

(* While no sync runs, the documents of the signature are in the index,    *)
(* so that it is right to do nothing when the catalogue has not changed.   *)
(* The exceptions are points that a late upsert has changed, and a         *)
(* signature that is older than an upload of other documents that failed,  *)
(* since performSync keeps it then                                         *)
SignatureHolds ==
    sync.stage = "none" /\ synced # None /\ ~behind => Holds(synced)

(* A reindex that is answered with success has rebuilt the index: no point *)
(* of a document that is gone is left.  The exceptions are a reindex that  *)
(* came when the running sync had already looked at the collection, and a  *)
(* late upsert                                                             *)
ReindexRebuilds ==
    [][\A c \in Callers :
          caller[c].asks = "reindex" /\ caller[c].inTime /\ SyncFinish
              => \A d \in Docs \ overwritten' : points'[d] = sync.docs[d]]_indexVars

(* Once the catalogue stays as it is and the administrator leaves the      *)
(* index alone, searches find all of it: the next search makes up for a    *)
(* sync that failed, at any of its calls, and for a restart.  The          *)
(* exceptions are late upserts, and a catalogue that is back at what it    *)
(* was when the signature was stored, with a failed upload of another      *)
(* state in between: performSync takes it for up to date                   *)
EventuallyFresh ==
    <>[](~force) => <>[](Holds(corpus) \/ (behind /\ corpus = synced))

=============================================================================
