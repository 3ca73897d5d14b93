----------------------------- MODULE TryOnMedia -----------------------------
(***************************************************************************)
(* Result images of the virtual try-on.  A job at the provider has a row   *)
(* of tryon_histories and, once a poll has found it completed, an image at *)
(* Cloudinary under a public id made of the job's id.  Polls upload and    *)
(* record the image, customers save results, a cleaner deletes what has    *)
(* expired; row and image are changed by separate calls, any of which may  *)
(* fail, and the process may stop between two of them.                     *)
(*                                                                         *)
(* Analysis of the person, warnings, the contents of images and rows that  *)
(* never have an image (need_confirmation, failed) are left out.  A poll   *)
(* lasts less than the shorter of the retention times, which is an hour at *)
(* least.                                                                  *)
(***************************************************************************)
EXTENDS Naturals, Sequences, FiniteSets

CONSTANTS
    Jobs,            \* try-on jobs, by the id the provider gave them
    Designs,         \* product designs, each with a public id of its own
    Users,
    None,            \* nobody: an anonymous customer
    Polls,           \* calls of getTryOnResult at a time
    AnonRetention,   \* TRYON_ANONYMOUS_RESULT_RETENTION_HOURS
    UserRetention,   \* TRYON_RESULT_RETENTION_DAYS
    BatchSize,       \* rows a cleanup takes (100 in the code)
    MaxTime,         \* bound of the clock
    MaxFaults        \* bound of failed calls and stops

Media == Jobs \cup Designs
Customers == Users \cup {None}

ASSUME TryOnAssumption ==
    /\ Jobs # {} /\ Jobs \cap Designs = {}
    /\ IsFiniteSet(Media)
    /\ None \notin Users
    /\ AnonRetention \in Nat \ {0, 1}
    /\ UserRetention \in Nat /\ UserRetention >= AnonRetention
    /\ BatchSize \in Nat \ {0}
    /\ {MaxTime, MaxFaults} \subseteq Nat

VARIABLES
    now,        \* the time
    row,        \* row[m]: the row of tryon_histories
    image,      \* the images that exist at Cloudinary
    poll,       \* poll[p]: how far a call of getTryOnResult is
    design,     \* design[d]: how far createProductDesignSync is
    save,       \* save[u]: how far saveTryOnResult is
    clean,      \* how far the cleanup is
    faults,     \* faults so far
    promised,   \* history: promised[m], until when a result was saved
    untracked,  \* history: media lost between the upload and its record
    undone,     \* history: media that an undo has deleted though in use
    shortened,  \* history: saved results whose expiry a late poll has set back
    savedLate   \* history: results saved after their expiry

history == <<promised, untracked, undone, shortened, savedLate>>
vars == <<now, row, image, poll, design, save, clean, faults, history>>

(* linked: result_url and cloudinary_public_id are set; expires 0: not set *)
Row == [status: {"none", "pending", "completed", "expired"},
        owner: Customers, linked: BOOLEAN, expires: Nat]
NoRow == [status |-> "none", owner |-> None, linked |-> FALSE, expires |-> 0]

Idle == [stage |-> "idle", job |-> CHOOSE j \in Jobs : TRUE, user |-> None,
         start |-> 0]

Retention(u) == IF u = None THEN AnonRetention ELSE UserRetention

Expired(m) == row[m].expires # 0 /\ row[m].expires <= now

Fault == faults < MaxFaults /\ faults' = faults + 1

-----------------------------------------------------------------------------
(* createTryOn; the row is saved "safely": the job may end up without one  *)

CreateTryOn(j, u) ==
    /\ row[j].status = "none"
    /\ row' = [row EXCEPT ![j] = [NoRow EXCEPT !.status = "pending", !.owner = u]]
    /\ UNCHANGED <<now, image, poll, design, save, clean, faults, history>>

-----------------------------------------------------------------------------
(* expireHistoryMedia: the image first, then the row, if it still names it *)

DeleteImage(m) == image' = image \ {m}

(* Mutant: the row is marked but keeps the public id *)
MarkExpiredLinked(m) ==
    row' = IF row[m].linked
           THEN [row EXCEPT ![m].status = "expired"]
           ELSE row

MarkExpired(m) ==
    row' = IF row[m].linked
           THEN [row EXCEPT ![m].status = "expired", ![m].linked = FALSE]
           ELSE row

-----------------------------------------------------------------------------
(* getTryOnResult                                                          *)

PollTo(p, stage) == poll' = [poll EXCEPT ![p].stage = stage]
PollEnd(p) == poll' = [poll EXCEPT ![p] = Idle]

(* The row is read; a completed one is the answer, and of an expired one   *)
(* without an image there is nothing to delete                             *)
PollRead(p, j, u) ==
    /\ poll[p].stage = "idle"
    /\ row[j].status # "none"
    /\ row[j].owner \in {None, u}
    /\ \/ Expired(j) /\ row[j].linked
       \/ ~Expired(j) /\ row[j].status # "completed"
    /\ poll' = [poll EXCEPT ![p] = [stage |-> IF Expired(j) THEN "delete" ELSE "status",
                                    job |-> j, user |-> u, start |-> now]]
    /\ UNCHANGED <<now, row, image, design, save, clean, faults, history>>

(* The provider has the result, or not yet (or it failed, or did not       *)
(* answer)                                                                 *)
PollStatus(p) ==
    /\ poll[p].stage = "status"
    /\ PollTo(p, "upload") \/ PollEnd(p)
    /\ UNCHANGED <<now, row, image, design, save, clean, faults, history>>

(* Mutant: an upload that fails goes unnoticed *)
PollUploadUnchecked(p) ==
    /\ poll[p].stage = "upload"
    /\ image' \in {image, image \cup {poll[p].job}}
    /\ PollTo(p, "record")
    /\ UNCHANGED <<now, row, design, save, clean, faults, history>>

(* A failed upload is PollFails                                            *)
PollUpload(p) ==
    /\ poll[p].stage = "upload"
    /\ image' = image \cup {poll[p].job}
    /\ PollTo(p, "record")
    /\ UNCHANGED <<now, row, design, save, clean, faults, history>>

Recorded(p) ==
    [row EXCEPT ![poll[p].job].status = "completed", ![poll[p].job].linked = TRUE,
                ![poll[p].job].expires = now + Retention(poll[p].user)]

NoteShortened(p) ==
    shortened' = IF row'[poll[p].job].expires < promised[poll[p].job]
                 THEN shortened \cup {poll[p].job} ELSE shortened

(* UPDATE ... WHERE id: whatever has become of the row since it was read   *)
PollRecord(p) ==
    /\ poll[p].stage = "record"
    /\ row' = Recorded(p)
    /\ NoteShortened(p)
    /\ PollEnd(p)
    /\ UNCHANGED <<now, image, design, save, clean, faults, promised, untracked,
                   undone, savedLate>>

(* The UPDATE fails, or its answer is lost                                 *)
PollRecordFails(p) ==
    /\ poll[p].stage = "record"
    /\ Fault
    /\ row' \in {row, Recorded(p)}
    /\ NoteShortened(p)
    /\ PollTo(p, "undo")
    /\ UNCHANGED <<now, image, design, save, clean, promised, untracked, undone,
                   savedLate>>

(* Mutant: the untracked image is not deleted *)
PollUndoNothing(p) ==
    /\ poll[p].stage = "undo"
    /\ PollEnd(p)
    /\ UNCHANGED <<now, row, image, design, save, clean, faults, history>>

(* The row names the image, or another poll is about to record it          *)
InUse(p) == \/ row[poll[p].job].linked
            \/ \E q \in Polls \ {p} : poll[q].job = poll[p].job
                                      /\ poll[q].stage = "record"

(* The image is deleted again, also if it is another poll's as well        *)
PollUndo(p) ==
    /\ poll[p].stage = "undo"
    /\ DeleteImage(poll[p].job)
    /\ undone' = IF InUse(p) THEN undone \cup {poll[p].job} ELSE undone
    /\ PollEnd(p)
    /\ UNCHANGED <<now, row, design, save, clean, faults, promised, untracked,
                   shortened, savedLate>>

PollDelete(p) ==
    /\ poll[p].stage = "delete"
    /\ DeleteImage(poll[p].job)
    /\ PollTo(p, "mark")
    /\ UNCHANGED <<now, row, design, save, clean, faults, history>>

PollMark(p) ==
    /\ poll[p].stage = "mark"
    /\ MarkExpired(poll[p].job)
    /\ PollEnd(p)
    /\ UNCHANGED <<now, image, design, save, clean, faults, history>>

(* Any call fails or the process stops; an uploaded image without a record *)
(* is left behind                                                          *)
PollFails(p) ==
    /\ poll[p].stage # "idle"
    /\ Fault
    /\ untracked' = IF poll[p].stage \in {"record", "undo"}
                    THEN untracked \cup {poll[p].job} ELSE untracked
    /\ PollEnd(p)
    /\ UNCHANGED <<now, row, image, design, save, clean, promised, undone,
                   shortened, savedLate>>

-----------------------------------------------------------------------------
(* createProductDesignSync, from the upload on                             *)

DesignUpload(d) ==
    /\ design[d] = "new"
    /\ image' = image \cup {d}
    /\ design' = [design EXCEPT ![d] = "record"]
    /\ UNCHANGED <<now, row, poll, save, clean, faults, history>>

DesignRecorded(d, u) ==
    [row EXCEPT ![d] = [status |-> "completed", owner |-> u, linked |-> TRUE,
                        expires |-> now + Retention(u)]]

DesignRecord(d, u) ==
    /\ design[d] = "record"
    /\ row' = DesignRecorded(d, u)
    /\ design' = [design EXCEPT ![d] = "done"]
    /\ UNCHANGED <<now, image, poll, save, clean, faults, history>>

(* saveHistorySafely returns null: the INSERT failed, or it was done and   *)
(* its answer was lost                                                     *)
DesignRecordFails(d, u) ==
    /\ design[d] = "record"
    /\ Fault
    /\ row' \in {row, DesignRecorded(d, u)}
    /\ design' = [design EXCEPT ![d] = "undo"]
    /\ UNCHANGED <<now, image, poll, save, clean, history>>

(* The image is deleted again, also if there is a row that names it        *)
DesignUndo(d) ==
    /\ design[d] = "undo"
    /\ DeleteImage(d)
    /\ undone' = IF row[d].linked THEN undone \cup {d} ELSE undone
    /\ design' = [design EXCEPT ![d] = "done"]
    /\ UNCHANGED <<now, row, poll, save, clean, faults, promised, untracked,
                   shortened, savedLate>>

(* The process stops, the answer of the upload is lost or the deletion     *)
(* fails: the image is left behind                                         *)
DesignStops(d) ==
    /\ design[d] \in {"record", "undo"}
    /\ Fault
    /\ untracked' = untracked \cup {d}
    /\ design' = [design EXCEPT ![d] = "done"]
    /\ UNCHANGED <<now, row, image, poll, save, clean, promised, undone,
                   shortened, savedLate>>

-----------------------------------------------------------------------------
(* saveTryOnResult: a completed result without an owner is claimed         *)

SaveRead(u, m) ==
    /\ save[u] = None
    /\ row[m].status = "completed"
    /\ row[m].owner = None
    /\ save' = [save EXCEPT ![u] = m]
    /\ UNCHANGED <<now, row, image, poll, design, clean, faults, history>>

(* Mutant: the owner is set, the expiry is not *)
SaveUpdateOwner(u) ==
    LET m == save[u] IN
    /\ m # None
    /\ save' = [save EXCEPT ![u] = None]
    /\ row[m].owner = None
    /\ row' = [row EXCEPT ![m].owner = u]
    /\ IF row[m].status = "completed" /\ ~Expired(m)
       THEN /\ promised' = [promised EXCEPT ![m] = now + UserRetention]
            /\ UNCHANGED savedLate
       ELSE savedLate' = savedLate \cup {m} /\ UNCHANGED promised
    /\ UNCHANGED <<now, image, poll, design, clean, faults, untracked, undone,
                   shortened>>

(* UPDATE ... WHERE id AND user_id IS NULL: neither the status nor the     *)
(* expiry is looked at again                                               *)
SaveUpdate(u) ==
    LET m == save[u] IN
    /\ m # None
    /\ save' = [save EXCEPT ![u] = None]
    /\ \/ /\ row[m].owner = None
          /\ row' = [row EXCEPT ![m].owner = u, ![m].expires = now + UserRetention]
          /\ IF row[m].status = "completed" /\ ~Expired(m)
             THEN /\ promised' = [promised EXCEPT ![m] = now + UserRetention]
                  /\ UNCHANGED savedLate
             ELSE savedLate' = savedLate \cup {m} /\ UNCHANGED promised
       \/ row[m].owner # None /\ UNCHANGED <<row, promised, savedLate>>
    /\ UNCHANGED <<now, image, poll, design, clean, faults, untracked, undone,
                   shortened>>

-----------------------------------------------------------------------------
(* cleanupExpiredMedia, started by a timer                                 *)

(* The oldest first, at most BatchSize                                     *)
Selections ==
    LET expired == {m \in Media : Expired(m) /\ row[m].linked} IN
    {q \in UNION {[1..n -> expired] : n \in 1..BatchSize} :
        /\ Len(q) = BatchSize \/ Len(q) = Cardinality(expired)
        /\ \A i, k \in DOMAIN q : i # k => q[i] # q[k]
        /\ \A i \in DOMAIN q, m \in expired :
               row[m].expires < row[q[i]].expires => \E k \in 1..i : q[k] = m}

CleanSelect ==
    /\ clean.queue = <<>>
    /\ \E q \in Selections : clean' = [stage |-> "delete", queue |-> q]
    /\ UNCHANGED <<now, row, image, poll, design, save, faults, history>>

CleanDelete ==
    /\ clean.queue # <<>>
    /\ clean.stage = "delete"
    /\ DeleteImage(Head(clean.queue))
    /\ clean' = [clean EXCEPT !.stage = "mark"]
    /\ UNCHANGED <<now, row, poll, design, save, faults, history>>

NextInQueue == clean' = [stage |-> "delete", queue |-> Tail(clean.queue)]

CleanMark ==
    /\ clean.queue # <<>>
    /\ clean.stage = "mark"
    /\ MarkExpired(Head(clean.queue))
    /\ NextInQueue
    /\ UNCHANGED <<now, image, poll, design, save, faults, history>>

(* An error is logged and the next row is taken                            *)
CleanFails ==
    /\ clean.queue # <<>>
    /\ Fault
    /\ NextInQueue
    /\ UNCHANGED <<now, row, image, poll, design, save, history>>

-----------------------------------------------------------------------------
(* The clock; no poll outlives a retention time                            *)
Tick ==
    /\ now < MaxTime
    /\ \A p \in Polls : poll[p].stage # "idle" => now + 1 < poll[p].start + AnonRetention
    /\ now' = now + 1
    /\ UNCHANGED <<row, image, poll, design, save, clean, faults, history>>

Init ==
    /\ now = 1
    /\ row = [m \in Media |-> NoRow]
    /\ image = {}
    /\ poll = [p \in Polls |-> Idle]
    /\ design = [d \in Designs |-> "new"]
    /\ save = [u \in Users |-> None]
    /\ clean = [stage |-> "delete", queue |-> <<>>]
    /\ faults = 0
    /\ promised = [m \in Media |-> 0]
    /\ untracked = {}
    /\ undone = {}
    /\ shortened = {}
    /\ savedLate = {}

PollStep(p) ==
    \/ PollStatus(p)
    \/ PollUpload(p)
    \/ PollRecord(p)
    \/ PollUndo(p)
    \/ PollDelete(p)
    \/ PollMark(p)

CleanStep == CleanSelect \/ CleanDelete \/ CleanMark

Next ==
    \/ \E j \in Jobs, u \in Customers : CreateTryOn(j, u)
    \/ \E p \in Polls : \/ \E j \in Jobs, u \in Customers : PollRead(p, j, u)
                        \/ PollStep(p)
                        \/ PollRecordFails(p)
                        \/ PollFails(p)
    \/ \E d \in Designs : \/ DesignUpload(d)
                          \/ \E u \in Customers : \/ DesignRecord(d, u)
                                                  \/ DesignRecordFails(d, u)
                          \/ DesignUndo(d)
                          \/ DesignStops(d)
    \/ \E u \in Users : \/ \E m \in Media : SaveRead(u, m)
                        \/ SaveUpdate(u)
    \/ CleanStep
    \/ CleanFails
    \/ Tick

Spec == Init /\ [][Next]_vars

(* The cleanup's timer goes off again and again, and every call returns    *)
Fairness == WF_vars(CleanStep)

FairSpec == Spec /\ Fairness

-----------------------------------------------------------------------------
TypeOK ==
    /\ now \in Nat
    /\ row \in [Media -> Row]
    /\ image \subseteq Media
    /\ poll \in [Polls -> [stage: {"idle", "status", "upload", "record", "undo",
                                   "delete", "mark"},
                           job: Jobs, user: Customers, start: Nat]]
    /\ design \in [Designs -> {"new", "record", "undo", "done"}]
    /\ save \in [Users -> Media \cup {None}]
    /\ clean \in [stage: {"delete", "mark"}, queue: Seq(Media)]
    /\ faults \in 0..MaxFaults
    /\ promised \in [Media -> Nat]
    /\ {untracked, undone, shortened, savedLate} \subseteq SUBSET Media

(* No call is at work on m between two of its steps                        *)
Quiet(m) ==
    /\ \A p \in Polls : poll[p].stage = "idle" \/ poll[p].job # m
    /\ m \in Designs => design[m] \in {"new", "done"}
    /\ clean.queue # <<>> => Head(clean.queue) # m

(* Every image can be found again: one that no row names would never be    *)
(* deleted.  It takes a stop, an upload that was done although its answer  *)
(* was lost (PollUpload, then PollFails; DesignUpload, then DesignStops)   *)
(* or an undo that fails too, each of them between the upload and its      *)
(* record, or a save after the expiry that brings the job back to life     *)
(* (the next poll uploads its image again) while it is still being cleaned *)
(* up; polls that overlap, a cleanup and a save in time do not do it       *)
ImagesTracked ==
    \A m \in image : Quiet(m) => row[m].linked \/ m \in untracked \cup savedLate

(* A result that is offered as completed has its image, except where a     *)
(* poll whose UPDATE failed has deleted the image that another poll shares *)
(* or that its own UPDATE did record, where a design's INSERT was done but *)
(* reported as failed, so that its image was deleted, or where a result    *)
(* was saved after its expiry while it was being cleaned up                *)
LiveResultHasImage ==
    \A m \in Media :
        Quiet(m) /\ row[m].status = "completed" /\ ~Expired(m) =>
            m \in image \cup undone \cup savedLate

(* A result saved in time is kept for the time promised, with any cleanup  *)
(* in progress and any poll still on its way, except where such a poll has *)
(* set the expiry back or the image was deleted by an undo, as above       *)
SavedKept ==
    \A m \in Media : now < promised[m] =>
        \/ m \in shortened \cup undone
        \/ row[m].status = "completed" /\ row[m].owner # None /\ m \in image

(* What has expired is deleted, or has been saved meanwhile                *)
ExpiredDeleted ==
    \A m \in Media : (Expired(m) /\ row[m].linked)
                         ~> (~Expired(m) \/ (~row[m].linked /\ m \notin image))

=============================================================================
