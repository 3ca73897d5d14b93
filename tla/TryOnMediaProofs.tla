-------------------------- MODULE TryOnMediaProofs -------------------------
(***************************************************************************)
(* Proofs about TryOnMedia, for any number of jobs, designs, customers and *)
(* overlapping polls.  The argument: a poll at work on a job outlives no   *)
(* retention time, so that the job's row cannot expire under it; therefore *)
(* what the cleaner or an expired read deletes is never what a poll is     *)
(* about to record, unless a save after the expiry has set the row's       *)
(* expiry forward again.                                                   *)
(***************************************************************************)
EXTENDS TryOnMedia, TLAPS

Working == {"status", "upload", "record", "undo"}
Removing == {"delete", "mark"}

(* What the columns of a row say about each other, and about a design      *)
RowShape ==
    \A m \in Media :
        /\ row[m].linked <=> row[m].status = "completed"
        /\ row[m].expires = 0 <=> row[m].status \in {"none", "pending"}
        /\ m \in Designs /\ design[m] \in {"new", "record"} => row[m].status = "none"

(* A poll lasts less than a retention time; its row exists                 *)
PollTimes ==
    \A p \in Polls : poll[p].stage # "idle" =>
        /\ poll[p].start <= now
        /\ now < poll[p].start + AnonRetention
        /\ row[poll[p].job].status # "none"

(* A row does not expire under a poll that is at work on its image         *)
WorkInTime ==
    \A p \in Polls :
        poll[p].stage \in Working /\ poll[p].job \notin savedLate =>
            \/ row[poll[p].job].expires = 0
            \/ row[poll[p].job].expires >= poll[p].start + AnonRetention

(* What is being deleted has expired, and stays so                         *)
PollRemovals ==
    \A p \in Polls :
        poll[p].stage \in Removing /\ poll[p].job \notin savedLate =>
            /\ Expired(poll[p].job)
            /\ poll[p].stage = "mark" => poll[p].job \notin image

QueueRemovals ==
    \A i \in 1..Len(clean.queue) :
        /\ row[clean.queue[i]].expires # 0
        /\ clean.queue[i] \notin savedLate => Expired(clean.queue[i])

HeadRemoved ==
    clean.stage = "mark" /\ clean.queue # <<>> =>
        clean.queue[1] \in savedLate \/ clean.queue[1] \notin image

ExpiredRows ==
    \A m \in Media : row[m].status = "expired" /\ m \notin savedLate => Expired(m)

(* Who holds an image that no row names                                    *)
Holders ==
    \A m \in image :
        \/ row[m].linked
        \/ m \in untracked \cup savedLate
        \/ \E p \in Polls : poll[p].job = m /\ poll[p].stage \in {"record", "undo"}
        \/ m \in Designs /\ design[m] \in {"record", "undo"}

(* What a live row names, or is about to name, is there                    *)
LiveImages ==
    \A m \in Media :
        row[m].status = "completed" /\ ~Expired(m) => m \in image \cup undone \cup savedLate

RecordImages ==
    \A p \in Polls :
        poll[p].stage = "record" => poll[p].job \in image \cup undone \cup savedLate

DesignImages == \A d \in Designs : design[d] = "record" => d \in image

(* Only results that were completed are saved, each once, and what was     *)
(* promised stands unless a poll has set the expiry back                   *)
SaveRows == \A u \in Users : save[u] # None => row[save[u]].expires # 0

Claimed ==
    \A m \in Media :
        promised[m] # 0 \/ m \in savedLate => row[m].owner # None /\ row[m].expires # 0

Promises ==
    \A m \in Media :
        promised[m] # 0 => /\ m \notin savedLate
                           /\ m \in shortened \/ row[m].expires >= promised[m]

IInv ==
    /\ TypeOK
    /\ RowShape /\ PollTimes /\ WorkInTime
    /\ PollRemovals /\ QueueRemovals /\ HeadRemoved /\ ExpiredRows
    /\ Holders
    /\ LiveImages /\ RecordImages /\ DesignImages
    /\ SaveRows /\ Claimed /\ Promises

-----------------------------------------------------------------------------
(* What the steps' parts do, entry by entry                                *)

PollStage == {"idle", "status", "upload", "record", "undo", "delete", "mark"}
Poll == [stage: PollStage, job: Jobs, user: Customers, start: Nat]

LEMMA PollType ==
    ASSUME TypeOK
    PROVE  /\ poll \in [Polls -> Poll]
           /\ \A p \in Polls : /\ poll[p].stage \in PollStage
                               /\ poll[p].job \in Jobs /\ poll[p].job \in Media
                               /\ poll[p].user \in Customers
                               /\ poll[p].start \in Nat
<1>1. poll \in [Polls -> Poll]
  BY DEF TypeOK, Poll, PollStage
<1> QED
  BY <1>1 DEF Poll, Media

LEMMA RowType ==
    ASSUME TypeOK
    PROVE  \A m \in Media : /\ row[m] \in Row
                            /\ row[m].status \in {"none", "pending", "completed", "expired"}
                            /\ row[m].owner \in Customers
                            /\ row[m].linked \in BOOLEAN
                            /\ row[m].expires \in Nat
  BY DEF TypeOK, Row

LEMMA QueueType ==
    ASSUME TypeOK
    PROVE  /\ clean.queue \in Seq(Media) /\ clean.stage \in {"delete", "mark"}
           /\ \A i \in 1..Len(clean.queue) : clean.queue[i] \in Media
           /\ clean.queue # <<>> => /\ 1 \in 1..Len(clean.queue)
                                    /\ Head(clean.queue) = clean.queue[1]
<1>1. clean.queue \in Seq(Media) /\ clean.stage \in {"delete", "mark"}
  BY DEF TypeOK
<1> QED
  BY <1>1

LEMMA IdlePoll == Idle \in Poll /\ Idle.stage = "idle"
<1>1. (CHOOSE j \in Jobs : TRUE) \in Jobs
  BY TryOnAssumption
<1> QED
  BY <1>1 DEF Idle, Poll, PollStage, Customers

LEMMA PollEnds ==
    ASSUME TypeOK, NEW p \in Polls, PollEnd(p)
    PROVE  /\ poll' \in [Polls -> Poll]
           /\ poll'[p].stage = "idle"
           /\ \A q \in Polls : q # p => poll'[q] = poll[q]
<1>1. poll \in [Polls -> Poll] /\ poll' = [poll EXCEPT ![p] = Idle]
  BY PollType DEF PollEnd
<1> QED
  BY <1>1, IdlePoll

LEMMA PollGoesTo ==
    ASSUME TypeOK, NEW p \in Polls, NEW s \in PollStage, PollTo(p, s)
    PROVE  /\ poll' \in [Polls -> Poll]
           /\ poll'[p].stage = s /\ poll'[p].job = poll[p].job
           /\ poll'[p].start = poll[p].start
           /\ \A q \in Polls : q # p => poll'[q] = poll[q]
<1>1. poll \in [Polls -> Poll] /\ poll' = [poll EXCEPT ![p].stage = s]
  BY PollType DEF PollTo
<1>2. [poll[p] EXCEPT !.stage = s] \in Poll
  BY <1>1 DEF Poll
<1> QED
  BY <1>1, <1>2 DEF Poll

LEMMA RetentionIs ==
    \A u \in Customers : Retention(u) \in Nat /\ Retention(u) >= AnonRetention
  BY TryOnAssumption DEF Retention

LEMMA RowRecorded ==
    ASSUME TypeOK, NEW p \in Polls, row' = Recorded(p)
    PROVE  LET j == poll[p].job IN
           /\ row' \in [Media -> Row]
           /\ row'[j].status = "completed" /\ row'[j].linked
           /\ row'[j].owner = row[j].owner
           /\ row'[j].expires \in Nat /\ row'[j].expires >= now + AnonRetention
           /\ \A m \in Media : m # j => row'[m] = row[m]
<1> DEFINE j == poll[p].job
           e == now + Retention(poll[p].user)
           r == [row[j] EXCEPT !.status = "completed", !.linked = TRUE, !.expires = e]
<1>1. j \in Media /\ now \in Nat /\ row \in [Media -> Row]
  BY PollType DEF TypeOK
<1>2. e \in Nat /\ e >= now + AnonRetention
  BY <1>1, PollType, RetentionIs, TryOnAssumption
<1>3. row' = [row EXCEPT ![j] = r]
  BY <1>1 DEF Recorded
<1> HIDE DEF e
<1>4. /\ r \in Row /\ r.status = "completed" /\ r.linked /\ r.owner = row[j].owner
      /\ r.expires = e
  BY <1>1, <1>2 DEF Row
<1> HIDE DEF r, j
<1> QED
  BY <1>1, <1>2, <1>3, <1>4 DEF j

LEMMA RowMarked ==
    ASSUME TypeOK, NEW j \in Media, MarkExpired(j)
    PROVE  /\ row' \in [Media -> Row]
           /\ ~row'[j].linked
           /\ row[j].linked => row'[j].status = "expired"
           /\ ~row[j].linked => row'[j].status = row[j].status
           /\ row'[j].owner = row[j].owner
           /\ row'[j].expires = row[j].expires
           /\ \A m \in Media : m # j => row'[m] = row[m]
<1>1. row \in [Media -> Row] /\ row[j] \in Row
  BY DEF TypeOK
<1>2. CASE ~row[j].linked
  BY <1>1, <1>2 DEF MarkExpired
<1>3. CASE row[j].linked
  <2> DEFINE r == [row[j] EXCEPT !.status = "expired", !.linked = FALSE]
  <2>1. row' = [row EXCEPT ![j] = r]
    BY <1>1, <1>3 DEF MarkExpired
  <2>2. /\ r \in Row /\ r.status = "expired" /\ ~r.linked
        /\ r.owner = row[j].owner /\ r.expires = row[j].expires
    BY <1>1 DEF Row
  <2> HIDE DEF r
  <2> QED
    BY <1>1, <1>3, <2>1, <2>2
<1> QED
  BY <1>2, <1>3

(* A row that is being worked on has not expired                           *)
LEMMA NotExpiredYet ==
    ASSUME IInv, NEW p \in Polls, poll[p].stage \in Working, poll[p].job \notin savedLate
    PROVE  ~Expired(poll[p].job)
<1>1. poll[p].start \in Nat /\ now \in Nat /\ poll[p].job \in Media /\ AnonRetention \in Nat
  BY PollType, TryOnAssumption DEF IInv, TypeOK
<1>2. now < poll[p].start + AnonRetention
  BY DEF IInv, PollTimes, Working
<1>3. row[poll[p].job].expires \in Nat
  BY <1>1, RowType DEF IInv
<1> QED
  BY <1>1, <1>2, <1>3 DEF IInv, WorkInTime, Expired

LEMMA FaultCounts ==
    ASSUME TypeOK, Fault
    PROVE  faults' \in 0..MaxFaults
<1>1. /\ faults \in 0..MaxFaults /\ MaxFaults \in Nat /\ faults < MaxFaults
      /\ faults' = faults + 1
  BY TryOnAssumption DEF TypeOK, Fault
<1> QED
  BY <1>1

(* The types that the steps below use                                      *)
LEMMA Types ==
    ASSUME IInv
    PROVE  /\ now \in Nat
           /\ AnonRetention \in Nat /\ AnonRetention > 1
           /\ \A m \in Media : /\ row[m].expires \in Nat
                               /\ promised[m] \in Nat
                               /\ row[m].linked \in BOOLEAN
                               /\ row[m].status \in {"none", "pending", "completed", "expired"}
           /\ \A p \in Polls : /\ poll[p].job \in Jobs /\ poll[p].job \in Media
                               /\ poll[p].start \in Nat
                               /\ poll[p].stage \in PollStage
           /\ \A j \in Jobs : j \in Media /\ j \notin Designs
           /\ \A d \in Designs : d \in Media
           /\ \A m \in image : m \in Media
           /\ \A u \in Users : save[u] # None => save[u] \in Media
           /\ \A i \in 1..Len(clean.queue) : clean.queue[i] \in Media
           /\ clean.queue # <<>> => 1 \in 1..Len(clean.queue)
<1>1. TypeOK
  BY DEF IInv
<1>2. /\ now \in Nat /\ promised \in [Media -> Nat] /\ image \subseteq Media
      /\ save \in [Users -> Media \cup {None}]
  BY <1>1 DEF TypeOK
<1> QED
  BY <1>1, <1>2, RowType, PollType, QueueType, TryOnAssumption DEF Media

(* A selection consists of rows that have expired                          *)
LEMMA Selected ==
    ASSUME NEW q \in Selections
    PROVE  q \in Seq(Media) /\ \A i \in 1..Len(q) : q[i] \in Media /\ Expired(q[i])
<1> DEFINE expired == {m \in Media : Expired(m) /\ row[m].linked}
<1>1. PICK n \in 1..BatchSize : q \in [1..n -> expired]
  BY DEF Selections
<1>2. n \in Nat
  BY TryOnAssumption
<1> HIDE DEF expired
<1>3. q \in Seq(expired) /\ Len(q) = n /\ \A i \in 1..n : q[i] \in expired
  BY <1>1, <1>2
<1>4. \A m \in expired : m \in Media /\ Expired(m)
  BY DEF expired
<1> QED
  BY <1>3, <1>4

LEMMA NextQueued ==
    ASSUME TypeOK, clean.queue # <<>>, NextInQueue
    PROVE  /\ clean'.stage = "delete"
           /\ clean' \in [stage: {"delete", "mark"}, queue: Seq(Media)]
           /\ \A i \in 1..Len(clean'.queue) : /\ i + 1 \in 1..Len(clean.queue)
                                              /\ clean'.queue[i] = clean.queue[i + 1]
<1>1. clean.queue \in Seq(Media) /\ clean.queue # <<>>
  BY QueueType
<1>2. clean' = [stage |-> "delete", queue |-> Tail(clean.queue)]
  BY DEF NextInQueue
<1>3. Tail(clean.queue) \in Seq(Media)
  BY <1>1
<1>4. \A i \in 1..Len(Tail(clean.queue)) : /\ i + 1 \in 1..Len(clean.queue)
                                           /\ Tail(clean.queue)[i] = clean.queue[i + 1]
  BY <1>1
<1> QED
  BY <1>2, <1>3, <1>4

-----------------------------------------------------------------------------
(* One lemma per action: the step keeps the inductive invariant            *)

(* A new row is pending and has no image                                   *)
LEMMA CreateTryOnKeeps ==
    ASSUME IInv, NEW j \in Jobs, NEW u \in Customers, CreateTryOn(j, u)
    PROVE  IInv'
<1>1. /\ row' \in [Media -> Row] /\ row[j].status = "none" /\ row'[j].status = "pending"
      /\ ~row'[j].linked /\ row'[j].expires = 0
  BY Types DEF IInv, TypeOK, CreateTryOn, NoRow, Row
<1>2. \A m \in Media : m # j => row'[m] = row[m]
  BY DEF IInv, TypeOK, CreateTryOn
<1>3. UNCHANGED <<now, image, poll, design, save, clean, faults, promised, untracked,
                  undone, shortened, savedLate>>
  BY DEF CreateTryOn, history
<1>4. TypeOK'
  BY <1>1, <1>2, <1>3, Types DEF IInv, TypeOK, Poll
<1>5. RowShape'
  BY <1>1, <1>2, <1>3, Types DEF IInv, RowShape
<1>6. PollTimes'
  BY <1>1, <1>2, <1>3, Types DEF IInv, PollTimes
<1>7. WorkInTime'
  BY <1>1, <1>2, <1>3, Types DEF IInv, PollTimes, WorkInTime
<1>8. PollRemovals'
  BY <1>1, <1>2, <1>3, Types DEF IInv, RowShape, PollRemovals, PollTimes, Removing,
     Expired
<1>9. QueueRemovals'
  <2>1. SUFFICES ASSUME NEW i \in 1..Len(clean.queue)
                 PROVE  /\ row'[clean.queue[i]].expires # 0
                        /\ clean.queue[i] \notin savedLate =>
                               row'[clean.queue[i]].expires <= now
    BY <1>1, <1>2, <1>3 DEF QueueRemovals, Expired
  <2>2. clean.queue[i] \in Media
    BY Types
  <2>3. /\ row[clean.queue[i]].expires # 0
        /\ clean.queue[i] \notin savedLate => Expired(clean.queue[i])
    BY DEF IInv, QueueRemovals
  <2>4. CASE clean.queue[i] = j
    BY <1>1, <1>2, <1>3, <2>2, <2>3, <2>4, Types DEF IInv, RowShape
  <2>5. CASE clean.queue[i] # j
    BY <1>1, <1>2, <1>3, <2>2, <2>3, <2>5 DEF Expired
  <2> QED
    BY <2>4, <2>5
<1>10. ExpiredRows'
  BY <1>1, <1>2, <1>3, Types DEF IInv, RowShape, ExpiredRows, Expired
<1>11. Holders'
  BY <1>1, <1>2, <1>3, Types DEF IInv, RowShape, Holders
<1>12. LiveImages'
  BY <1>1, <1>2, <1>3, Types DEF IInv, LiveImages, Expired
<1>13. SaveRows'
  BY <1>1, <1>2, <1>3, Types DEF IInv, RowShape, SaveRows
<1>14. Claimed'
  BY <1>1, <1>2, <1>3, Types DEF IInv, RowShape, Claimed
<1>15. Promises'
  BY <1>1, <1>2, <1>3, Types DEF IInv, RowShape, Promises
<1>16. HeadRemoved' /\ RecordImages' /\ DesignImages'
  BY <1>3 DEF IInv, HeadRemoved, RecordImages, DesignImages
<1> QED
  BY <1>4, <1>5, <1>6, <1>7, <1>8, <1>9, <1>10, <1>11, <1>12, <1>13, <1>14, <1>15, <1>16
     DEF IInv

(* A poll reads a row that has expired, or one that is not completed       *)
LEMMA PollReadKeeps ==
    ASSUME IInv, NEW p \in Polls, NEW j \in Jobs, NEW u \in Customers, PollRead(p, j, u)
    PROVE  IInv'
<1>1. /\ poll' \in [Polls -> Poll]
      /\ poll'[p].job = j /\ poll'[p].start = now
      /\ poll'[p].stage = IF Expired(j) THEN "delete" ELSE "status"
      /\ \A q \in Polls : q # p => poll'[q] = poll[q]
  BY PollType DEF IInv, TypeOK, PollRead, Poll, PollStage
<1>2. row[j].status # "none" /\ (~Expired(j) => row[j].status # "completed")
  BY DEF PollRead
<1>3. UNCHANGED <<now, row, image, design, save, clean, faults, promised, untracked,
                  undone, shortened, savedLate>>
  BY DEF PollRead, history
<1>4. TypeOK'
  BY <1>1, <1>2, <1>3, Types DEF IInv, TypeOK, Poll, PollStage
<1>5. PollTimes'
  BY <1>1, <1>2, <1>3, Types DEF IInv, PollTimes
<1>6. WorkInTime'
  BY <1>1, <1>2, <1>3, Types DEF IInv, RowShape, ExpiredRows, WorkInTime, Working
<1>7. PollRemovals'
  BY <1>1, <1>2, <1>3, Types DEF IInv, PollRemovals, Removing, Expired
<1>8. Holders'
  BY <1>1, <1>2, <1>3, Types DEF IInv, Holders, PollRead
<1>9. RecordImages'
  BY <1>1, <1>2, <1>3, Types DEF IInv, RecordImages
<1>10. /\ RowShape' /\ QueueRemovals' /\ HeadRemoved' /\ ExpiredRows' /\ LiveImages'
       /\ DesignImages' /\ SaveRows' /\ Claimed' /\ Promises'
  BY <1>3 DEF IInv, RowShape, QueueRemovals, HeadRemoved, ExpiredRows, LiveImages,
     DesignImages, SaveRows, Claimed, Promises, Expired
<1> QED
  BY <1>4, <1>5, <1>6, <1>7, <1>8, <1>9, <1>10 DEF IInv

(* The provider answers                                                    *)
LEMMA PollStatusKeeps ==
    ASSUME IInv, NEW p \in Polls, PollStatus(p)
    PROVE  IInv'
<1>1. /\ poll' \in [Polls -> Poll]
      /\ \/ poll'[p].stage = "idle"
         \/ poll'[p].stage = "upload" /\ poll'[p].job = poll[p].job /\ poll'[p].start = poll[p].start
      /\ \A q \in Polls : q # p => poll'[q] = poll[q]
  BY PollEnds, PollGoesTo DEF IInv, PollStatus, PollStage
<1>2. poll[p].stage = "status"
  BY DEF PollStatus
<1>3. UNCHANGED <<now, row, image, design, save, clean, faults, promised, untracked,
                  undone, shortened, savedLate>>
  BY DEF PollStatus, history
<1>4. TypeOK'
  BY <1>1, <1>2, <1>3, Types DEF IInv, TypeOK, Poll, PollStage
<1>5. PollTimes'
  BY <1>1, <1>2, <1>3, Types DEF IInv, PollTimes
<1>6. WorkInTime'
  BY <1>1, <1>2, <1>3, Types DEF IInv, PollTimes, WorkInTime, Working
<1>7. PollRemovals'
  BY <1>1, <1>2, <1>3, Types DEF IInv, PollRemovals, Removing, Expired
<1>8. Holders'
  BY <1>1, <1>2, <1>3, Types DEF IInv, RowShape, Holders
<1>9. RecordImages'
  BY <1>1, <1>2, <1>3, Types DEF IInv, RecordImages
<1>10. /\ RowShape' /\ QueueRemovals' /\ HeadRemoved' /\ ExpiredRows' /\ LiveImages'
       /\ DesignImages' /\ SaveRows' /\ Claimed' /\ Promises'
  BY <1>3 DEF IInv, RowShape, QueueRemovals, HeadRemoved, ExpiredRows, LiveImages,
     DesignImages, SaveRows, Claimed, Promises, Expired
<1> QED
  BY <1>4, <1>5, <1>6, <1>7, <1>8, <1>9, <1>10 DEF IInv

(* The image is uploaded; the row has not expired meanwhile                *)
LEMMA PollUploadKeeps ==
    ASSUME IInv, NEW p \in Polls, PollUpload(p)
    PROVE  IInv'
<1>1. /\ poll' \in [Polls -> Poll]
      /\ poll'[p].stage = "record"
      /\ poll'[p].job = poll[p].job /\ poll'[p].start = poll[p].start
      /\ \A q \in Polls : q # p => poll'[q] = poll[q]
  BY PollGoesTo DEF IInv, PollUpload, PollStage
<1>2. poll[p].stage = "upload" /\ image' = image \cup {poll[p].job}
  BY DEF PollUpload
<1>3. poll[p].job \notin savedLate => ~Expired(poll[p].job)
  BY NotExpiredYet, <1>2 DEF Working
<1>4. UNCHANGED <<now, row, design, save, clean, faults, promised, untracked, undone,
                  shortened, savedLate>>
  BY DEF PollUpload, history
<1>5. TypeOK'
  BY <1>1, <1>2, <1>3, <1>4, Types DEF IInv, TypeOK, Poll, PollStage
<1>6. PollTimes'
  BY <1>1, <1>2, <1>3, <1>4, Types DEF IInv, PollTimes
<1>7. WorkInTime'
  BY <1>1, <1>2, <1>3, <1>4, Types DEF IInv, PollTimes, WorkInTime, Working
<1>8. PollRemovals'
  BY <1>1, <1>2, <1>3, <1>4, Types DEF IInv, PollRemovals, Removing, Expired
<1>9. HeadRemoved'
  BY <1>1, <1>2, <1>3, <1>4, Types DEF IInv, HeadRemoved, QueueRemovals
<1>10. Holders'
  BY <1>1, <1>2, <1>3, <1>4, Types DEF IInv, RowShape, Holders
<1>11. LiveImages'
  BY <1>1, <1>2, <1>3, <1>4, Types DEF IInv, LiveImages, Expired
<1>12. RecordImages'
  BY <1>1, <1>2, <1>3, <1>4, Types DEF IInv, RecordImages
<1>13. DesignImages'
  BY <1>1, <1>2, <1>3, <1>4, Types DEF IInv, RowShape, DesignImages
<1>14. RowShape' /\ QueueRemovals' /\ ExpiredRows' /\ SaveRows' /\ Claimed' /\ Promises'
  BY <1>4 DEF IInv, RowShape, QueueRemovals, ExpiredRows, SaveRows, Claimed, Promises,
     Expired
<1> QED
  BY <1>5, <1>6, <1>7, <1>8, <1>9, <1>10, <1>11, <1>12, <1>13, <1>14 DEF IInv

(* The row is recorded for another retention time, whatever was in it      *)
LEMMA PollRecordKeeps ==
    ASSUME IInv, NEW p \in Polls, PollRecord(p)
    PROVE  IInv'
<1>1. /\ poll' \in [Polls -> Poll] /\ poll'[p].stage = "idle"
      /\ \A q \in Polls : q # p => poll'[q] = poll[q]
  BY PollEnds DEF IInv, PollRecord
<1>2. /\ row' \in [Media -> Row]
      /\ row'[poll[p].job].status = "completed" /\ row'[poll[p].job].linked
      /\ row'[poll[p].job].owner = row[poll[p].job].owner
      /\ row'[poll[p].job].expires \in Nat
      /\ row'[poll[p].job].expires >= now + AnonRetention
      /\ \A m \in Media : m # poll[p].job => row'[m] = row[m]
  BY RowRecorded DEF IInv, PollRecord
<1>3. /\ poll[p].stage = "record"
      /\ shortened \subseteq shortened' /\ shortened' \subseteq shortened \cup {poll[p].job}
      /\ row'[poll[p].job].expires < promised[poll[p].job] => poll[p].job \in shortened'
  BY DEF PollRecord, NoteShortened
<1>4. poll[p].job \notin savedLate => ~Expired(poll[p].job)
  BY NotExpiredYet, <1>3 DEF Working
<1>5. row[poll[p].job].status # "none"
  BY <1>3 DEF IInv, PollTimes
<1>6. UNCHANGED <<now, image, design, save, clean, faults, promised, untracked, undone,
                  savedLate>>
  BY DEF PollRecord, history
<1>7. TypeOK'
  <2>1. shortened' \subseteq Media
    BY <1>3, Types DEF IInv, TypeOK
  <2> QED
    BY <1>1, <1>2, <1>3, <1>4, <1>5, <1>6, <2>1 DEF IInv, TypeOK, Poll, PollStage
<1>8. RowShape'
  BY <1>1, <1>2, <1>3, <1>4, <1>5, <1>6, Types DEF IInv, RowShape
<1>9. PollTimes'
  BY <1>1, <1>2, <1>3, <1>4, <1>5, <1>6, Types DEF IInv, PollTimes
<1>10. WorkInTime'
  <2>1. SUFFICES ASSUME NEW q \in Polls, poll'[q].stage \in Working,
                        poll'[q].job \notin savedLate
                 PROVE  \/ row'[poll'[q].job].expires = 0
                        \/ row'[poll'[q].job].expires >= poll'[q].start + AnonRetention
    BY <1>1, <1>2, <1>3, <1>4, <1>5, <1>6 DEF WorkInTime
  <2>2. /\ poll'[q].job = poll[q].job /\ poll'[q].start = poll[q].start
        /\ poll[q].stage \in Working
    BY <1>1, <1>2, <1>3, <1>4, <1>5, <1>6, <2>1 DEF Working
  <2>3. poll[q].job \in Media /\ poll[q].start \in Nat /\ poll[q].start <= now
    BY <2>2, Types DEF IInv, PollTimes, Working
  <2>4. CASE row'[poll[q].job] = row[poll[q].job]
    BY <1>1, <1>2, <1>3, <1>4, <1>5, <1>6, <2>1, <2>2, <2>4 DEF IInv, WorkInTime
  <2>5. CASE poll[q].job = poll[p].job /\ row'[poll[q].job].expires >= now + AnonRetention
    BY <1>1, <1>2, <1>3, <1>4, <1>5, <1>6, <2>2, <2>3, <2>5, Types
  <2> QED
    BY <1>1, <1>2, <1>3, <1>4, <1>5, <1>6, <2>3, <2>4, <2>5
<1>11. PollRemovals'
  BY <1>1, <1>2, <1>3, <1>4, <1>5, <1>6, Types DEF IInv, PollRemovals, Removing, Expired
<1>12. QueueRemovals'
  <2>1. SUFFICES ASSUME NEW i \in 1..Len(clean.queue)
                 PROVE  /\ row'[clean.queue[i]].expires # 0
                        /\ clean.queue[i] \notin savedLate =>
                               row'[clean.queue[i]].expires <= now
    BY <1>1, <1>2, <1>3, <1>4, <1>5, <1>6 DEF QueueRemovals, Expired
  <2>2. clean.queue[i] \in Media
    BY Types
  <2>3. /\ row[clean.queue[i]].expires # 0
        /\ clean.queue[i] \notin savedLate => Expired(clean.queue[i])
    BY DEF IInv, QueueRemovals
  <2>4. CASE clean.queue[i] = poll[p].job
    BY <1>1, <1>2, <1>3, <1>4, <1>5, <1>6, <2>2, <2>3, <2>4, Types
  <2>5. CASE clean.queue[i] # poll[p].job
    BY <1>1, <1>2, <1>3, <1>4, <1>5, <1>6, <2>2, <2>3, <2>5 DEF Expired
  <2> QED
    BY <2>4, <2>5
<1>13. ExpiredRows'
  BY <1>1, <1>2, <1>3, <1>4, <1>5, <1>6, Types DEF IInv, RowShape, ExpiredRows, Expired
<1>14. Holders'
  BY <1>1, <1>2, <1>3, <1>4, <1>5, <1>6, Types DEF IInv, RowShape, Holders
<1>15. LiveImages'
  <2>1. SUFFICES ASSUME NEW m \in Media, row'[m].status = "completed",
                        ~(row'[m].expires # 0 /\ row'[m].expires <= now)
                 PROVE  m \in image \cup undone \cup savedLate
    BY <1>1, <1>2, <1>3, <1>4, <1>5, <1>6 DEF LiveImages, Expired
  <2>2. CASE m = poll[p].job
    BY <1>1, <1>2, <1>3, <1>4, <1>5, <1>6, <2>2 DEF IInv, RecordImages
  <2>3. CASE row'[m] = row[m]
    BY <2>1, <2>3 DEF IInv, LiveImages, Expired
  <2> QED
    BY <1>1, <1>2, <1>3, <1>4, <1>5, <1>6, <2>2, <2>3
<1>16. RecordImages'
  BY <1>1, <1>2, <1>3, <1>4, <1>5, <1>6, Types DEF IInv, RecordImages
<1>17. SaveRows'
  BY <1>1, <1>2, <1>3, <1>4, <1>5, <1>6, Types DEF IInv, RowShape, SaveRows
<1>18. Claimed'
  BY <1>1, <1>2, <1>3, <1>4, <1>5, <1>6, Types DEF IInv, RowShape, Claimed
<1>19. Promises'
  BY <1>1, <1>2, <1>3, <1>4, <1>5, <1>6, Types DEF IInv, Promises
<1>20. HeadRemoved' /\ DesignImages'
  BY <1>6 DEF IInv, HeadRemoved, DesignImages
<1> QED
  BY <1>7, <1>8, <1>9, <1>10, <1>11, <1>12, <1>13, <1>14, <1>15, <1>16, <1>17, <1>18,
     <1>19, <1>20 DEF IInv

(* The record fails, or only its answer is lost                            *)
LEMMA PollRecordFailsKeeps ==
    ASSUME IInv, NEW p \in Polls, PollRecordFails(p)
    PROVE  IInv'
<1>1. /\ poll' \in [Polls -> Poll]
      /\ poll'[p].stage = "undo"
      /\ poll'[p].job = poll[p].job /\ poll'[p].start = poll[p].start
      /\ \A q \in Polls : q # p => poll'[q] = poll[q]
  BY PollGoesTo DEF IInv, PollRecordFails, PollStage
<1>2. \/ row' = row
      \/ /\ row' \in [Media -> Row]
         /\ row'[poll[p].job].status = "completed" /\ row'[poll[p].job].linked
         /\ row'[poll[p].job].owner = row[poll[p].job].owner
         /\ row'[poll[p].job].expires \in Nat
         /\ row'[poll[p].job].expires >= now + AnonRetention
         /\ \A m \in Media : m # poll[p].job => row'[m] = row[m]
  BY RowRecorded DEF IInv, PollRecordFails
<1>3. /\ poll[p].stage = "record"
      /\ shortened \subseteq shortened' /\ shortened' \subseteq shortened \cup {poll[p].job}
      /\ row'[poll[p].job].expires < promised[poll[p].job] => poll[p].job \in shortened'
  BY DEF PollRecordFails, NoteShortened
<1>4. poll[p].job \notin savedLate => ~Expired(poll[p].job)
  BY NotExpiredYet, <1>3 DEF Working
<1>5. row[poll[p].job].status # "none"
  BY <1>3 DEF IInv, PollTimes
<1>6. faults' \in 0..MaxFaults
  BY FaultCounts DEF IInv, PollRecordFails
<1>7. UNCHANGED <<now, image, design, save, clean, promised, untracked, undone,
                  savedLate>>
  BY DEF PollRecordFails, history
<1>8. TypeOK'
  BY <1>1, <1>2, <1>3, <1>4, <1>5, <1>6, <1>7, Types DEF IInv, TypeOK, Poll, PollStage
<1>9. RowShape'
  BY <1>1, <1>2, <1>3, <1>4, <1>5, <1>6, <1>7, Types DEF IInv, RowShape
<1>10. PollTimes'
  <2>1. SUFFICES ASSUME NEW q \in Polls, poll'[q].stage # "idle"
                 PROVE  /\ poll'[q].start <= now
                        /\ now < poll'[q].start + AnonRetention
                        /\ row'[poll'[q].job].status # "none"
    BY <1>1, <1>2, <1>3, <1>4, <1>5, <1>6, <1>7 DEF PollTimes
  <2>2. poll'[q].job = poll[q].job /\ poll'[q].start = poll[q].start /\ poll[q].stage # "idle"
    BY <1>1, <1>2, <1>3, <1>4, <1>5, <1>6, <1>7, <2>1
  <2>3. poll[q].job \in Media /\ row[poll[q].job].status # "none"
    BY <2>2, Types DEF IInv, PollTimes
  <2>4. row'[poll[q].job].status # "none"
    BY <1>1, <1>2, <1>3, <1>4, <1>5, <1>6, <1>7, <2>3
  <2> QED
    BY <2>2, <2>4 DEF IInv, PollTimes
<1>11. WorkInTime'
  <2>1. SUFFICES ASSUME NEW q \in Polls, poll'[q].stage \in Working,
                        poll'[q].job \notin savedLate
                 PROVE  \/ row'[poll'[q].job].expires = 0
                        \/ row'[poll'[q].job].expires >= poll'[q].start + AnonRetention
    BY <1>1, <1>2, <1>3, <1>4, <1>5, <1>6, <1>7 DEF WorkInTime
  <2>2. /\ poll'[q].job = poll[q].job /\ poll'[q].start = poll[q].start
        /\ poll[q].stage \in Working
    BY <1>1, <1>2, <1>3, <1>4, <1>5, <1>6, <1>7, <2>1 DEF Working
  <2>3. poll[q].job \in Media /\ poll[q].start \in Nat /\ poll[q].start <= now
    BY <2>2, Types DEF IInv, PollTimes, Working
  <2>4. CASE row'[poll[q].job] = row[poll[q].job]
    BY <1>1, <1>2, <1>3, <1>4, <1>5, <1>6, <1>7, <2>1, <2>2, <2>4 DEF IInv, WorkInTime
  <2>5. CASE poll[q].job = poll[p].job /\ row'[poll[q].job].expires >= now + AnonRetention
    BY <1>1, <1>2, <1>3, <1>4, <1>5, <1>6, <1>7, <2>2, <2>3, <2>5, Types
  <2> QED
    BY <1>1, <1>2, <1>3, <1>4, <1>5, <1>6, <1>7, <2>3, <2>4, <2>5
<1>12. PollRemovals'
  BY <1>1, <1>2, <1>3, <1>4, <1>5, <1>6, <1>7, Types DEF IInv, PollRemovals, Removing,
     Expired
<1>13. QueueRemovals'
  <2>1. SUFFICES ASSUME NEW i \in 1..Len(clean.queue)
                 PROVE  /\ row'[clean.queue[i]].expires # 0
                        /\ clean.queue[i] \notin savedLate =>
                               row'[clean.queue[i]].expires <= now
    BY <1>1, <1>2, <1>3, <1>4, <1>5, <1>6, <1>7 DEF QueueRemovals, Expired
  <2>2. clean.queue[i] \in Media
    BY Types
  <2>3. /\ row[clean.queue[i]].expires # 0
        /\ clean.queue[i] \notin savedLate => Expired(clean.queue[i])
    BY DEF IInv, QueueRemovals
  <2>4. CASE clean.queue[i] = poll[p].job
    BY <1>1, <1>2, <1>3, <1>4, <1>5, <1>6, <1>7, <2>2, <2>3, <2>4, Types
  <2>5. CASE clean.queue[i] # poll[p].job
    BY <1>1, <1>2, <1>3, <1>4, <1>5, <1>6, <1>7, <2>2, <2>3, <2>5 DEF Expired
  <2> QED
    BY <2>4, <2>5
<1>14. ExpiredRows'
  <2>1. \A m \in Media : row'[m].status = "expired" => row'[m] = row[m]
    BY <1>2
  <2> QED
    BY <1>7, <2>1 DEF IInv, ExpiredRows, Expired
<1>15. Holders'
  BY <1>1, <1>2, <1>3, <1>4, <1>5, <1>6, <1>7, Types DEF IInv, RowShape, Holders
<1>16. LiveImages'
  <2>1. SUFFICES ASSUME NEW m \in Media, row'[m].status = "completed",
                        ~(row'[m].expires # 0 /\ row'[m].expires <= now)
                 PROVE  m \in image \cup undone \cup savedLate
    BY <1>1, <1>2, <1>3, <1>4, <1>5, <1>6, <1>7 DEF LiveImages, Expired
  <2>2. CASE m = poll[p].job
    BY <1>1, <1>2, <1>3, <1>4, <1>5, <1>6, <1>7, <2>2 DEF IInv, RecordImages
  <2>3. CASE row'[m] = row[m]
    BY <2>1, <2>3 DEF IInv, LiveImages, Expired
  <2> QED
    BY <1>1, <1>2, <1>3, <1>4, <1>5, <1>6, <1>7, <2>2, <2>3
<1>17. RecordImages'
  BY <1>1, <1>2, <1>3, <1>4, <1>5, <1>6, <1>7, Types DEF IInv, RecordImages
<1>18. SaveRows'
  BY <1>1, <1>2, <1>3, <1>4, <1>5, <1>6, <1>7, Types DEF IInv, RowShape, SaveRows
<1>19. Claimed'
  BY <1>1, <1>2, <1>3, <1>4, <1>5, <1>6, <1>7, Types DEF IInv, RowShape, Claimed
<1>20. Promises'
  BY <1>1, <1>2, <1>3, <1>4, <1>5, <1>6, <1>7, Types DEF IInv, Promises
<1>21. HeadRemoved' /\ DesignImages'
  BY <1>7 DEF IInv, HeadRemoved, DesignImages
<1> QED
  BY <1>8, <1>9, <1>10, <1>11, <1>12, <1>13, <1>14, <1>15, <1>16, <1>17, <1>18, <1>19,
     <1>20, <1>21 DEF IInv

(* The upload is undone; who else needed the image is noted                *)
LEMMA PollUndoKeeps ==
    ASSUME IInv, NEW p \in Polls, PollUndo(p)
    PROVE  IInv'
<1>1. /\ poll' \in [Polls -> Poll] /\ poll'[p].stage = "idle"
      /\ \A q \in Polls : q # p => poll'[q] = poll[q]
  BY PollEnds DEF IInv, PollUndo
<1>2. /\ poll[p].stage = "undo" /\ image' = image \ {poll[p].job}
      /\ undone \subseteq undone' /\ undone' \subseteq undone \cup {poll[p].job}
      /\ InUse(p) => poll[p].job \in undone'
  BY DEF PollUndo, DeleteImage
<1>3. UNCHANGED <<now, row, design, save, clean, faults, promised, untracked, shortened,
                  savedLate>>
  BY DEF PollUndo, history
<1>4. TypeOK'
  <2>1. image' \subseteq Media /\ undone' \subseteq Media
    <3>1. image \subseteq Media /\ undone \subseteq Media /\ poll[p].job \in Media
      BY Types DEF IInv, TypeOK, Media
    <3> QED
      BY <1>2, <3>1
  <2> QED
    BY <1>1, <1>3, <2>1 DEF IInv, TypeOK, Poll
<1>5. PollTimes'
  BY <1>1, <1>2, <1>3, Types DEF IInv, PollTimes
<1>6. WorkInTime'
  BY <1>1, <1>2, <1>3, Types DEF IInv, PollTimes, WorkInTime, Working
<1>7. PollRemovals'
  BY <1>1, <1>2, <1>3, Types DEF IInv, PollRemovals, Removing, Expired
<1>8. HeadRemoved'
  BY <1>1, <1>2, <1>3, Types DEF IInv, HeadRemoved, QueueRemovals
<1>9. Holders'
  BY <1>1, <1>2, <1>3, Types DEF IInv, RowShape, Holders
<1>10. LiveImages'
  BY <1>1, <1>2, <1>3, Types DEF IInv, RowShape, LiveImages, Expired, InUse
<1>11. RecordImages'
  BY <1>1, <1>2, <1>3, Types DEF IInv, RecordImages, InUse
<1>12. DesignImages'
  BY <1>1, <1>2, <1>3, Types DEF IInv, RowShape, DesignImages
<1>13. RowShape' /\ QueueRemovals' /\ ExpiredRows' /\ SaveRows' /\ Claimed' /\ Promises'
  BY <1>3 DEF IInv, RowShape, QueueRemovals, ExpiredRows, SaveRows, Claimed, Promises,
     Expired
<1> QED
  BY <1>4, <1>5, <1>6, <1>7, <1>8, <1>9, <1>10, <1>11, <1>12, <1>13 DEF IInv

(* A poll deletes the image of a row that has expired                      *)
LEMMA PollDeleteKeeps ==
    ASSUME IInv, NEW p \in Polls, PollDelete(p)
    PROVE  IInv'
<1>1. /\ poll' \in [Polls -> Poll]
      /\ poll'[p].stage = "mark"
      /\ poll'[p].job = poll[p].job /\ poll'[p].start = poll[p].start
      /\ \A q \in Polls : q # p => poll'[q] = poll[q]
  BY PollGoesTo DEF IInv, PollDelete, PollStage
<1>2. poll[p].stage = "delete" /\ image' = image \ {poll[p].job}
  BY DEF PollDelete, DeleteImage
<1>3. poll[p].job \notin savedLate => Expired(poll[p].job)
  BY <1>2 DEF IInv, PollRemovals, Removing
<1>4. \A q \in Polls : poll[q].stage = "record" /\ poll[q].job = poll[p].job =>
          poll[p].job \in savedLate
  BY <1>3, NotExpiredYet DEF Working
<1>5. UNCHANGED <<now, row, design, save, clean, faults, promised, untracked, undone,
                  shortened, savedLate>>
  BY DEF PollDelete, history
<1>6. TypeOK'
  BY <1>1, <1>2, <1>3, <1>4, <1>5, Types DEF IInv, TypeOK, Poll, PollStage
<1>7. PollTimes'
  BY <1>1, <1>2, <1>3, <1>4, <1>5, Types DEF IInv, PollTimes
<1>8. WorkInTime'
  BY <1>1, <1>2, <1>3, <1>4, <1>5, Types DEF IInv, PollTimes, WorkInTime, Working
<1>9. PollRemovals'
  BY <1>1, <1>2, <1>3, <1>4, <1>5, Types DEF IInv, PollRemovals, Removing, Expired
<1>10. HeadRemoved'
  BY <1>1, <1>2, <1>3, <1>4, <1>5, Types DEF IInv, HeadRemoved, QueueRemovals
<1>11. Holders'
  BY <1>1, <1>2, <1>3, <1>4, <1>5, Types DEF IInv, RowShape, Holders
<1>12. LiveImages'
  BY <1>1, <1>2, <1>3, <1>4, <1>5, Types DEF IInv, LiveImages, Expired
<1>13. RecordImages'
  BY <1>1, <1>2, <1>3, <1>4, <1>5, Types DEF IInv, RecordImages
<1>14. DesignImages'
  BY <1>1, <1>2, <1>3, <1>4, <1>5, Types DEF IInv, RowShape, DesignImages
<1>15. RowShape' /\ QueueRemovals' /\ ExpiredRows' /\ SaveRows' /\ Claimed' /\ Promises'
  BY <1>5 DEF IInv, RowShape, QueueRemovals, ExpiredRows, SaveRows, Claimed, Promises,
     Expired
<1> QED
  BY <1>6, <1>7, <1>8, <1>9, <1>10, <1>11, <1>12, <1>13, <1>14, <1>15 DEF IInv

(* The row is marked, its image is gone                                    *)
LEMMA PollMarkKeeps ==
    ASSUME IInv, NEW p \in Polls, PollMark(p)
    PROVE  IInv'
<1>1. /\ poll' \in [Polls -> Poll] /\ poll'[p].stage = "idle"
      /\ \A q \in Polls : q # p => poll'[q] = poll[q]
  BY PollEnds DEF IInv, PollMark
<1>2. /\ row' \in [Media -> Row]
      /\ ~row'[poll[p].job].linked
      /\ row[poll[p].job].linked => row'[poll[p].job].status = "expired"
      /\ ~row[poll[p].job].linked => row'[poll[p].job].status = row[poll[p].job].status
      /\ row'[poll[p].job].owner = row[poll[p].job].owner
      /\ row'[poll[p].job].expires = row[poll[p].job].expires
      /\ \A m \in Media : m # poll[p].job => row'[m] = row[m]
  BY RowMarked, PollType DEF IInv, PollMark
<1>3. /\ poll[p].stage = "mark"
      /\ poll[p].job \notin savedLate =>
             Expired(poll[p].job) /\ poll[p].job \notin image
  BY DEF IInv, PollMark, PollRemovals, Removing
<1>4. UNCHANGED <<now, image, design, save, clean, faults, promised, untracked, undone,
                  shortened, savedLate>>
  BY DEF PollMark, history
<1>5. TypeOK'
  BY <1>1, <1>2, <1>3, <1>4, Types DEF IInv, TypeOK, Poll, PollStage
<1>6. RowShape'
  BY <1>1, <1>2, <1>3, <1>4, Types DEF IInv, RowShape
<1>7. PollTimes'
  BY <1>1, <1>2, <1>3, <1>4, Types DEF IInv, PollTimes
<1>8. WorkInTime'
  <2>1. SUFFICES ASSUME NEW q \in Polls, poll'[q].stage \in Working,
                        poll'[q].job \notin savedLate
                 PROVE  \/ row'[poll'[q].job].expires = 0
                        \/ row'[poll'[q].job].expires >= poll'[q].start + AnonRetention
    BY <1>4 DEF WorkInTime
  <2>2. q # p /\ poll'[q] = poll[q]
    BY <1>1, <2>1 DEF Working
  <2>3. row'[poll[q].job].expires = row[poll[q].job].expires
    BY <1>2, Types DEF Poll
  <2>4. \/ row[poll[q].job].expires = 0
        \/ row[poll[q].job].expires >= poll[q].start + AnonRetention
    BY <2>1, <2>2 DEF IInv, WorkInTime
  <2> QED
    BY <2>2, <2>3, <2>4
<1>9. PollRemovals'
  BY <1>1, <1>2, <1>3, <1>4, Types DEF IInv, PollRemovals, Removing, Expired
<1>10. QueueRemovals'
  <2>1. SUFFICES ASSUME NEW i \in 1..Len(clean.queue)
                 PROVE  /\ row'[clean.queue[i]].expires # 0
                        /\ clean.queue[i] \notin savedLate =>
                               row'[clean.queue[i]].expires <= now
    BY <1>1, <1>2, <1>3, <1>4 DEF QueueRemovals, Expired
  <2>2. clean.queue[i] \in Media
    BY Types
  <2>3. /\ row[clean.queue[i]].expires # 0
        /\ clean.queue[i] \notin savedLate => Expired(clean.queue[i])
    BY DEF IInv, QueueRemovals
  <2>4. CASE clean.queue[i] = poll[p].job
    BY <1>1, <1>2, <1>3, <1>4, <2>2, <2>3, <2>4, Types DEF Expired
  <2>5. CASE clean.queue[i] # poll[p].job
    BY <1>1, <1>2, <1>3, <1>4, <2>2, <2>3, <2>5 DEF Expired
  <2> QED
    BY <2>4, <2>5
<1>11. ExpiredRows'
  BY <1>1, <1>2, <1>3, <1>4, Types DEF IInv, RowShape, ExpiredRows, Expired
<1>12. Holders'
  BY <1>1, <1>2, <1>3, <1>4, Types DEF IInv, RowShape, Holders
<1>13. LiveImages'
  BY <1>1, <1>2, <1>3, <1>4, Types DEF IInv, LiveImages, Expired
<1>14. RecordImages'
  BY <1>1, <1>2, <1>3, <1>4, Types DEF IInv, RecordImages
<1>15. SaveRows'
  BY <1>1, <1>2, <1>3, <1>4, Types DEF IInv, RowShape, SaveRows
<1>16. Claimed'
  BY <1>1, <1>2, <1>3, <1>4, Types DEF IInv, RowShape, Claimed
<1>17. Promises'
  BY <1>1, <1>2, <1>3, <1>4, Types DEF IInv, Promises
<1>18. HeadRemoved' /\ DesignImages'
  BY <1>4 DEF IInv, HeadRemoved, DesignImages
<1> QED
  BY <1>5, <1>6, <1>7, <1>8, <1>9, <1>10, <1>11, <1>12, <1>13, <1>14, <1>15, <1>16,
     <1>17, <1>18 DEF IInv

(* A poll stops; an image that is not recorded is noted                    *)
LEMMA PollFailsKeeps ==
    ASSUME IInv, NEW p \in Polls, PollFails(p)
    PROVE  IInv'
<1>1. /\ poll' \in [Polls -> Poll] /\ poll'[p].stage = "idle"
      /\ \A q \in Polls : q # p => poll'[q] = poll[q]
  BY PollEnds DEF IInv, PollFails
<1>2. /\ untracked \subseteq untracked' /\ untracked' \subseteq untracked \cup {poll[p].job}
      /\ poll[p].stage \in {"record", "undo"} => poll[p].job \in untracked'
  BY DEF PollFails
<1>3. faults' \in 0..MaxFaults
  BY FaultCounts DEF IInv, PollFails
<1>4. UNCHANGED <<now, row, image, design, save, clean, promised, undone, shortened,
                  savedLate>>
  BY DEF PollFails, history
<1>5. TypeOK'
  BY <1>1, <1>2, <1>3, <1>4, Types DEF IInv, TypeOK, Poll, PollStage
<1>6. PollTimes'
  BY <1>1, <1>2, <1>3, <1>4, Types DEF IInv, PollTimes
<1>7. WorkInTime'
  BY <1>1, <1>2, <1>3, <1>4, Types DEF IInv, PollTimes, WorkInTime, Working
<1>8. PollRemovals'
  BY <1>1, <1>2, <1>3, <1>4, Types DEF IInv, PollRemovals, Removing, Expired
<1>9. Holders'
  BY <1>1, <1>2, <1>3, <1>4, Types DEF IInv, RowShape, Holders
<1>10. RecordImages'
  BY <1>1, <1>2, <1>3, <1>4, Types DEF IInv, RecordImages
<1>11. /\ RowShape' /\ QueueRemovals' /\ HeadRemoved' /\ ExpiredRows' /\ LiveImages'
       /\ DesignImages' /\ SaveRows' /\ Claimed' /\ Promises'
  BY <1>4 DEF IInv, RowShape, QueueRemovals, HeadRemoved, ExpiredRows, LiveImages,
     DesignImages, SaveRows, Claimed, Promises, Expired
<1> QED
  BY <1>5, <1>6, <1>7, <1>8, <1>9, <1>10, <1>11 DEF IInv

(* A design has no row when its image is uploaded                          *)
LEMMA DesignUploadKeeps ==
    ASSUME IInv, NEW d \in Designs, DesignUpload(d)
    PROVE  IInv'
<1>1. /\ design' \in [Designs -> {"new", "record", "undo", "done"}]
      /\ design[d] = "new" /\ design'[d] = "record"
      /\ \A e \in Designs : e # d => design'[e] = design[e]
  BY DEF IInv, TypeOK, DesignUpload
<1>2. image' = image \cup {d} /\ row[d].expires = 0
  BY <1>1, Types DEF IInv, RowShape, DesignUpload
<1>3. UNCHANGED <<now, row, poll, save, clean, faults, promised, untracked, undone,
                  shortened, savedLate>>
  BY DEF DesignUpload, history
<1>4. TypeOK'
  BY <1>1, <1>2, <1>3, Types DEF IInv, TypeOK, Poll
<1>5. RowShape'
  BY <1>1, <1>2, <1>3, Types DEF IInv, RowShape
<1>6. PollRemovals'
  BY <1>1, <1>2, <1>3, Types DEF IInv, PollRemovals, Removing, Expired
<1>7. HeadRemoved'
  BY <1>1, <1>2, <1>3, Types DEF IInv, HeadRemoved, QueueRemovals
<1>8. Holders'
  BY <1>1, <1>2, <1>3, Types DEF IInv, RowShape, Holders
<1>9. LiveImages'
  BY <1>1, <1>2, <1>3, Types DEF IInv, LiveImages, Expired
<1>10. RecordImages'
  BY <1>1, <1>2, <1>3, Types DEF IInv, RecordImages
<1>11. DesignImages'
  BY <1>1, <1>2, <1>3, Types DEF IInv, RowShape, DesignImages
<1>12. /\ PollTimes' /\ WorkInTime' /\ QueueRemovals' /\ ExpiredRows' /\ SaveRows'
       /\ Claimed' /\ Promises'
  BY <1>3 DEF IInv, PollTimes, WorkInTime, QueueRemovals, ExpiredRows, SaveRows,
     Claimed, Promises, Expired
<1> QED
  BY <1>4, <1>5, <1>6, <1>7, <1>8, <1>9, <1>10, <1>11, <1>12 DEF IInv

(* The image of a design is still there when its row is written, whether   *)
(* the call that writes it succeeds or is reported to fail                 *)
LEMMA DesignRowKeeps ==
    ASSUME IInv, NEW d \in Designs, NEW u \in Customers, NEW to \in {"undo", "done"},
           row' = DesignRecorded(d, u),
           design[d] = "record", design' = [design EXCEPT ![d] = to],
           faults' \in 0..MaxFaults,
           UNCHANGED <<now, image, poll, save, clean, promised, untracked, undone,
                       shortened, savedLate>>
    PROVE  IInv'
<1>1. /\ design' \in [Designs -> {"new", "record", "undo", "done"}]
      /\ design[d] = "record" /\ design'[d] = to
      /\ \A e \in Designs : e # d => design'[e] = design[e]
  BY DEF IInv, TypeOK
<1>2. /\ now \in Nat /\ Retention(u) \in Nat /\ now + Retention(u) \in Nat
      /\ now + Retention(u) # 0
  BY RetentionIs, TryOnAssumption DEF IInv, TypeOK
<1>3. /\ row' \in [Media -> Row] /\ row'[d].status = "completed" /\ row'[d].linked
      /\ row'[d].expires = now + Retention(u)
      /\ \A m \in Media : m # d => row'[m] = row[m]
  BY <1>2, Types DEF IInv, TypeOK, DesignRecorded, Row
<1>4. d \in image /\ row[d].status = "none" /\ row[d].expires = 0
  BY <1>1, Types DEF IInv, RowShape, DesignImages
<1>5. UNCHANGED <<now, image, poll, save, clean, promised, untracked, undone,
                  shortened, savedLate>>
  OBVIOUS
<1>5a. \A p \in Polls : row'[poll[p].job] = row[poll[p].job]
  BY <1>3, Types
<1>6. TypeOK'
  BY <1>1, <1>2, <1>3, <1>4, <1>5, Types DEF IInv, TypeOK, Poll
<1>7. RowShape'
  BY <1>1, <1>2, <1>3, <1>4, <1>5, Types DEF IInv, RowShape
<1>8. PollTimes'
  BY <1>5, <1>5a DEF IInv, PollTimes
<1>9. WorkInTime'
  BY <1>5, <1>5a DEF IInv, WorkInTime
<1>10. PollRemovals'
  BY <1>5, <1>5a DEF IInv, PollRemovals, Expired
<1>11. QueueRemovals'
  <2>1. SUFFICES ASSUME NEW i \in 1..Len(clean.queue)
                 PROVE  /\ row'[clean.queue[i]].expires # 0
                        /\ clean.queue[i] \notin savedLate =>
                               row'[clean.queue[i]].expires <= now
    BY <1>1, <1>2, <1>3, <1>4, <1>5 DEF QueueRemovals, Expired
  <2>2. clean.queue[i] \in Media
    BY Types
  <2>3. /\ row[clean.queue[i]].expires # 0
        /\ clean.queue[i] \notin savedLate => Expired(clean.queue[i])
    BY DEF IInv, QueueRemovals
  <2>4. CASE clean.queue[i] = d
    BY <1>1, <1>2, <1>3, <1>4, <1>5, <2>2, <2>3, <2>4, Types
  <2>5. CASE clean.queue[i] # d
    BY <1>1, <1>2, <1>3, <1>4, <1>5, <2>2, <2>3, <2>5 DEF Expired
  <2> QED
    BY <2>4, <2>5
<1>12. ExpiredRows'
  BY <1>1, <1>2, <1>3, <1>4, <1>5, Types DEF IInv, RowShape, ExpiredRows, Expired
<1>13. Holders'
  BY <1>1, <1>2, <1>3, <1>4, <1>5, Types DEF IInv, RowShape, Holders
<1>14. LiveImages'
  BY <1>1, <1>2, <1>3, <1>4, <1>5, Types DEF IInv, LiveImages, Expired
<1>15. DesignImages'
  BY <1>1, <1>2, <1>3, <1>4, <1>5, Types DEF IInv, RowShape, DesignImages
<1>16. SaveRows'
  <2>1. SUFFICES ASSUME NEW v \in Users, save[v] # None PROVE row'[save[v]].expires # 0
    BY <1>5 DEF SaveRows
  <2>2. save[v] \in Media /\ row[save[v]].expires # 0
    BY <2>1 DEF IInv, TypeOK, SaveRows
  <2> QED
    BY <1>2, <1>3, <2>2
<1>17. Claimed'
  BY <1>1, <1>2, <1>3, <1>4, <1>5, Types DEF IInv, RowShape, Claimed
<1>18. Promises'
  BY <1>1, <1>2, <1>3, <1>4, <1>5, Types DEF IInv, Promises
<1>19. HeadRemoved' /\ RecordImages'
  BY <1>5 DEF IInv, HeadRemoved, RecordImages
<1> QED
  BY <1>6, <1>7, <1>8, <1>9, <1>10, <1>11, <1>12, <1>13, <1>14, <1>15, <1>16, <1>17,
     <1>18, <1>19 DEF IInv

LEMMA DesignRecordKeeps ==
    ASSUME IInv, NEW d \in Designs, NEW u \in Customers, DesignRecord(d, u)
    PROVE  IInv'
<1>1. faults' \in 0..MaxFaults
  BY DEF IInv, TypeOK, DesignRecord
<1> QED
  BY <1>1, DesignRowKeeps DEF DesignRecord, history

(* The row of a design is not written                                      *)
LEMMA DesignNoRowKeeps ==
    ASSUME IInv, NEW d \in Designs, NEW u \in Customers, DesignRecordFails(d, u),
           row' = row
    PROVE  IInv'
<1>1. /\ design' \in [Designs -> {"new", "record", "undo", "done"}]
      /\ design[d] = "record" /\ design'[d] = "undo"
      /\ \A e \in Designs : e # d => design'[e] = design[e]
  BY DEF IInv, TypeOK, DesignRecordFails
<1>2. faults' \in 0..MaxFaults
  BY FaultCounts DEF IInv, DesignRecordFails
<1>3. UNCHANGED <<now, row, image, poll, save, clean, promised, untracked, undone,
                  shortened, savedLate>>
  BY DEF DesignRecordFails, history
<1>4. TypeOK'
  BY <1>1, <1>2, <1>3, Types DEF IInv, TypeOK, Poll
<1>5. RowShape'
  BY <1>1, <1>2, <1>3, Types DEF IInv, RowShape
<1>6. Holders'
  BY <1>1, <1>2, <1>3, Types DEF IInv, RowShape, Holders
<1>7. DesignImages'
  BY <1>1, <1>2, <1>3, Types DEF IInv, RowShape, DesignImages
<1>8. /\ PollTimes' /\ WorkInTime' /\ PollRemovals' /\ QueueRemovals' /\ HeadRemoved'
      /\ ExpiredRows' /\ LiveImages' /\ RecordImages' /\ SaveRows' /\ Claimed'
      /\ Promises'
  BY <1>3 DEF IInv, PollTimes, WorkInTime, PollRemovals, QueueRemovals, HeadRemoved,
     ExpiredRows, LiveImages, RecordImages, SaveRows, Claimed, Promises, Expired
<1> QED
  BY <1>4, <1>5, <1>6, <1>7, <1>8 DEF IInv

LEMMA DesignRecordFailsKeeps ==
    ASSUME IInv, NEW d \in Designs, NEW u \in Customers, DesignRecordFails(d, u)
    PROVE  IInv'
<1>1. CASE row' = row
  BY <1>1, DesignNoRowKeeps
<1>2. CASE row' = DesignRecorded(d, u)
  <2>1. faults' \in 0..MaxFaults
    BY FaultCounts DEF IInv, DesignRecordFails
  <2> QED
    BY <1>2, <2>1, DesignRowKeeps DEF DesignRecordFails, history
<1> QED
  BY <1>1, <1>2 DEF DesignRecordFails

(* The image of a design is deleted; if a row names it, that is noted      *)
LEMMA DesignUndoKeeps ==
    ASSUME IInv, NEW d \in Designs, DesignUndo(d)
    PROVE  IInv'
<1>1. /\ design' \in [Designs -> {"new", "record", "undo", "done"}]
      /\ design[d] = "undo" /\ design'[d] = "done"
      /\ \A e \in Designs : e # d => design'[e] = design[e]
  BY DEF IInv, TypeOK, DesignUndo
<1>2. /\ image' = image \ {d} /\ d \in Media
      /\ undone \subseteq undone' /\ undone' \subseteq undone \cup {d}
      /\ row[d].linked => d \in undone'
  BY DEF DesignUndo, DeleteImage, Media
<1>3. UNCHANGED <<now, row, poll, save, clean, faults, promised, untracked,
                  shortened, savedLate>>
  BY DEF DesignUndo, history
<1>4. TypeOK'
  <2>1. image' \subseteq Media /\ undone' \subseteq Media
    <3>1. image \subseteq Media /\ undone \subseteq Media
      BY DEF IInv, TypeOK
    <3> QED
      BY <1>2, <3>1
  <2> QED
    BY <1>1, <1>3, <2>1, Types DEF IInv, TypeOK, Poll
<1>5. RowShape'
  BY <1>1, <1>2, <1>3, Types DEF IInv, RowShape
<1>6. PollRemovals'
  BY <1>1, <1>2, <1>3, Types DEF IInv, PollRemovals, Removing, Expired
<1>7. HeadRemoved'
  BY <1>1, <1>2, <1>3, Types DEF IInv, HeadRemoved, QueueRemovals
<1>8. Holders'
  BY <1>1, <1>2, <1>3, Types DEF IInv, RowShape, Holders
<1>9. LiveImages'
  BY <1>1, <1>2, <1>3, Types DEF IInv, RowShape, LiveImages, Expired
<1>10. RecordImages'
  BY <1>1, <1>2, <1>3, Types DEF IInv, RecordImages
<1>11. DesignImages'
  BY <1>1, <1>2, <1>3, Types DEF IInv, RowShape, DesignImages
<1>12. /\ PollTimes' /\ WorkInTime' /\ QueueRemovals' /\ ExpiredRows' /\ SaveRows'
       /\ Claimed' /\ Promises'
  BY <1>3 DEF IInv, PollTimes, WorkInTime, QueueRemovals, ExpiredRows, SaveRows,
     Claimed, Promises, Expired
<1> QED
  BY <1>4, <1>5, <1>6, <1>7, <1>8, <1>9, <1>10, <1>11, <1>12 DEF IInv

(* A design's call stops; its image is noted                               *)
LEMMA DesignStopsKeeps ==
    ASSUME IInv, NEW d \in Designs, DesignStops(d)
    PROVE  IInv'
<1>1. /\ design' \in [Designs -> {"new", "record", "undo", "done"}]
      /\ design[d] \in {"record", "undo"} /\ design'[d] = "done"
      /\ \A e \in Designs : e # d => design'[e] = design[e]
  BY DEF IInv, TypeOK, DesignStops
<1>2. faults' \in 0..MaxFaults
  BY FaultCounts DEF IInv, DesignStops
<1>3. untracked' = untracked \cup {d}
  BY DEF DesignStops
<1>4. UNCHANGED <<now, row, image, poll, save, clean, promised, undone, shortened,
                  savedLate>>
  BY DEF DesignStops, history
<1>5. TypeOK'
  BY <1>1, <1>2, <1>3, <1>4, Types DEF IInv, TypeOK, Poll
<1>6. RowShape'
  BY <1>1, <1>2, <1>3, <1>4, Types DEF IInv, RowShape
<1>7. Holders'
  BY <1>1, <1>2, <1>3, <1>4, Types DEF IInv, RowShape, Holders
<1>8. DesignImages'
  BY <1>1, <1>2, <1>3, <1>4, Types DEF IInv, RowShape, DesignImages
<1>9. /\ PollTimes' /\ WorkInTime' /\ PollRemovals' /\ QueueRemovals' /\ HeadRemoved'
      /\ ExpiredRows' /\ LiveImages' /\ RecordImages' /\ SaveRows' /\ Claimed'
      /\ Promises'
  BY <1>4 DEF IInv, PollTimes, WorkInTime, PollRemovals, QueueRemovals, HeadRemoved,
     ExpiredRows, LiveImages, RecordImages, SaveRows, Claimed, Promises, Expired
<1> QED
  BY <1>5, <1>6, <1>7, <1>8, <1>9 DEF IInv

(* A completed result is about to be saved                                 *)
LEMMA SaveReadKeeps ==
    ASSUME IInv, NEW u \in Users, NEW m \in Media, SaveRead(u, m)
    PROVE  IInv'
<1>1. /\ save' \in [Users -> Media \cup {None}] /\ save'[u] = m
      /\ \A v \in Users : v # u => save'[v] = save[v]
  BY DEF IInv, TypeOK, SaveRead
<1>2. row[m].expires # 0
  BY DEF IInv, RowShape, SaveRead
<1>3. UNCHANGED <<now, row, image, poll, design, clean, faults, promised, untracked,
                  undone, shortened, savedLate>>
  BY DEF SaveRead, history
<1>4. TypeOK'
  BY <1>1, <1>2, <1>3, Types DEF IInv, TypeOK, Poll
<1>5. SaveRows'
  BY <1>1, <1>2, <1>3, Types DEF IInv, RowShape, SaveRows
<1>6. /\ RowShape' /\ PollTimes' /\ WorkInTime' /\ PollRemovals' /\ QueueRemovals'
      /\ HeadRemoved' /\ ExpiredRows' /\ Holders' /\ LiveImages' /\ RecordImages'
      /\ DesignImages' /\ Claimed' /\ Promises'
  BY <1>3 DEF IInv, RowShape, PollTimes, WorkInTime, PollRemovals, QueueRemovals,
     HeadRemoved, ExpiredRows, Holders, LiveImages, RecordImages, DesignImages, Claimed,
     Promises, Expired
<1> QED
  BY <1>4, <1>5, <1>6 DEF IInv

(* The cleanup takes rows that have expired                                *)
LEMMA CleanSelectKeeps ==
    ASSUME IInv, CleanSelect
    PROVE  IInv'
<1>1. clean' \in [stage: {"delete", "mark"}, queue: Seq(Media)]
  BY Selected DEF CleanSelect
<1>2. /\ clean'.stage = "delete"
      /\ \A i \in 1..Len(clean'.queue) :
             clean'.queue[i] \in Media /\ Expired(clean'.queue[i])
  BY Selected DEF CleanSelect
<1>3. UNCHANGED <<now, row, image, poll, design, save, faults, promised, untracked,
                  undone, shortened, savedLate>>
  BY DEF CleanSelect, history
<1>4. TypeOK'
  BY <1>1, <1>2, <1>3, Types DEF IInv, TypeOK, Poll
<1>5. QueueRemovals'
  BY <1>1, <1>2, <1>3, Types DEF IInv, RowShape, QueueRemovals, Expired
<1>6. HeadRemoved'
  BY <1>1, <1>2, <1>3, Types DEF IInv, HeadRemoved, QueueRemovals
<1>7. /\ RowShape' /\ PollTimes' /\ WorkInTime' /\ PollRemovals' /\ ExpiredRows'
      /\ Holders' /\ LiveImages' /\ RecordImages' /\ DesignImages' /\ SaveRows'
      /\ Claimed' /\ Promises'
  BY <1>3 DEF IInv, RowShape, PollTimes, WorkInTime, PollRemovals, ExpiredRows, Holders,
     LiveImages, RecordImages, DesignImages, SaveRows, Claimed, Promises, Expired
<1> QED
  BY <1>4, <1>5, <1>6, <1>7 DEF IInv

(* What the cleanup deletes has expired, so no poll is about to record it  *)
LEMMA CleanDeleteKeeps ==
    ASSUME IInv, CleanDelete
    PROVE  IInv'
<1>1. /\ clean.queue # <<>> /\ clean'.stage = "mark" /\ clean'.queue = clean.queue
      /\ clean' \in [stage: {"delete", "mark"}, queue: Seq(Media)]
  BY DEF IInv, TypeOK, CleanDelete
<1>2. clean.queue[1] \in Media /\ image' = image \ {clean.queue[1]}
  BY <1>1, QueueType DEF IInv, CleanDelete, DeleteImage
<1>3. /\ row[clean.queue[1]].expires # 0
      /\ clean.queue[1] \notin savedLate => Expired(clean.queue[1])
  BY <1>1, QueueType DEF IInv, QueueRemovals
<1>4. \A q \in Polls : poll[q].stage = "record" /\ poll[q].job = clean.queue[1] =>
          clean.queue[1] \in savedLate
  BY <1>3, NotExpiredYet DEF Working
<1>5. UNCHANGED <<now, row, poll, design, save, faults, promised, untracked, undone,
                  shortened, savedLate>>
  BY DEF CleanDelete, history
<1>6. TypeOK'
  BY <1>1, <1>2, <1>3, <1>4, <1>5, Types DEF IInv, TypeOK, Poll
<1>7. PollRemovals'
  BY <1>1, <1>2, <1>3, <1>4, <1>5, Types DEF IInv, PollRemovals, Removing, Expired
<1>8. QueueRemovals'
  BY <1>1, <1>2, <1>3, <1>4, <1>5, Types DEF IInv, RowShape, QueueRemovals, Expired
<1>9. HeadRemoved'
  BY <1>1, <1>2, <1>3, <1>4, <1>5, Types DEF IInv, HeadRemoved, QueueRemovals
<1>10. Holders'
  BY <1>1, <1>2, <1>3, <1>4, <1>5, Types DEF IInv, RowShape, Holders
<1>11. LiveImages'
  BY <1>1, <1>2, <1>3, <1>4, <1>5, Types DEF IInv, RowShape, LiveImages, Expired
<1>12. RecordImages'
  BY <1>1, <1>2, <1>3, <1>4, <1>5, Types DEF IInv, RecordImages
<1>13. DesignImages'
  BY <1>1, <1>2, <1>3, <1>4, <1>5, Types DEF IInv, RowShape, DesignImages
<1>14. /\ RowShape' /\ PollTimes' /\ WorkInTime' /\ ExpiredRows' /\ SaveRows'
       /\ Claimed' /\ Promises'
  BY <1>5 DEF IInv, RowShape, PollTimes, WorkInTime, ExpiredRows, SaveRows, Claimed,
     Promises, Expired
<1> QED
  BY <1>6, <1>7, <1>8, <1>9, <1>10, <1>11, <1>12, <1>13, <1>14 DEF IInv

(* The cleanup marks a row whose image is gone                             *)
LEMMA CleanMarkKeeps ==
    ASSUME IInv, CleanMark
    PROVE  IInv'
<1>1. /\ clean.queue # <<>> /\ clean'.stage = "delete"
      /\ clean' \in [stage: {"delete", "mark"}, queue: Seq(Media)]
      /\ \A i \in 1..Len(clean'.queue) : /\ i + 1 \in 1..Len(clean.queue)
                                         /\ clean'.queue[i] = clean.queue[i + 1]
  BY NextQueued DEF IInv, CleanMark
<1>2. clean.queue[1] \in Media /\ MarkExpired(clean.queue[1])
  BY <1>1, QueueType DEF IInv, CleanMark
<1>3. /\ row' \in [Media -> Row]
      /\ ~row'[clean.queue[1]].linked
      /\ row[clean.queue[1]].linked => row'[clean.queue[1]].status = "expired"
      /\ ~row[clean.queue[1]].linked => row'[clean.queue[1]].status = row[clean.queue[1]].status
      /\ row'[clean.queue[1]].owner = row[clean.queue[1]].owner
      /\ row'[clean.queue[1]].expires = row[clean.queue[1]].expires
      /\ \A m \in Media : m # clean.queue[1] => row'[m] = row[m]
  BY <1>2, RowMarked DEF IInv
<1>4. /\ row[clean.queue[1]].expires # 0
      /\ clean.queue[1] \notin savedLate => Expired(clean.queue[1]) /\ clean.queue[1] \notin image
  BY <1>1, QueueType DEF IInv, QueueRemovals, HeadRemoved, CleanMark
<1>5. UNCHANGED <<now, image, poll, design, save, faults, promised, untracked, undone,
                  shortened, savedLate>>
  BY DEF CleanMark, history
<1>6. TypeOK'
  BY <1>1, <1>2, <1>3, <1>4, <1>5, Types DEF IInv, TypeOK, Poll
<1>7. RowShape'
  BY <1>1, <1>2, <1>3, <1>4, <1>5, Types DEF IInv, RowShape
<1>8. PollTimes'
  BY <1>1, <1>2, <1>3, <1>4, <1>5, Types DEF IInv, PollTimes
<1>9. WorkInTime'
  BY <1>1, <1>2, <1>3, <1>4, <1>5, Types DEF IInv, PollTimes, WorkInTime, Working
<1>10. PollRemovals'
  BY <1>1, <1>2, <1>3, <1>4, <1>5, Types DEF IInv, PollRemovals, Removing, Expired
<1>11. QueueRemovals'
  <2>1. SUFFICES ASSUME NEW i \in 1..Len(clean'.queue)
                 PROVE  /\ row'[clean'.queue[i]].expires # 0
                        /\ clean'.queue[i] \notin savedLate =>
                               row'[clean'.queue[i]].expires <= now
    BY <1>1, <1>2, <1>3, <1>4, <1>5 DEF QueueRemovals, Expired
  <2> DEFINE m == clean.queue[i + 1]
  <2>2. clean'.queue[i] = m /\ i + 1 \in 1..Len(clean.queue)
    BY <1>1
  <2>3. /\ m \in Media /\ row[m].expires # 0
        /\ m \notin savedLate => row[m].expires # 0 /\ row[m].expires <= now
    BY <2>2, Types DEF IInv, QueueRemovals, Expired
  <2> HIDE DEF m
  <2>4. row'[m].expires = row[m].expires
    BY <1>3, <2>3
  <2> QED
    BY <2>2, <2>3, <2>4
<1>12. HeadRemoved'
  BY <1>1, <1>2, <1>3, <1>4, <1>5, Types DEF IInv, HeadRemoved, QueueRemovals
<1>13. ExpiredRows'
  BY <1>1, <1>2, <1>3, <1>4, <1>5, Types DEF IInv, RowShape, ExpiredRows, Expired
<1>14. Holders'
  BY <1>1, <1>2, <1>3, <1>4, <1>5, Types DEF IInv, RowShape, Holders
<1>15. LiveImages'
  BY <1>1, <1>2, <1>3, <1>4, <1>5, Types DEF IInv, LiveImages, Expired
<1>16. SaveRows'
  <2>1. \A m \in Media : row'[m].expires = row[m].expires
    BY <1>3
  <2> QED
    BY <1>5, <2>1, Types DEF IInv, SaveRows
<1>17. Claimed'
  BY <1>1, <1>2, <1>3, <1>4, <1>5, Types DEF IInv, RowShape, Claimed
<1>18. Promises'
  BY <1>1, <1>2, <1>3, <1>4, <1>5, Types DEF IInv, Promises
<1>19. RecordImages' /\ DesignImages'
  BY <1>5 DEF IInv, RecordImages, DesignImages
<1> QED
  BY <1>6, <1>7, <1>8, <1>9, <1>10, <1>11, <1>12, <1>13, <1>14, <1>15, <1>16, <1>17,
     <1>18, <1>19 DEF IInv

(* The cleanup passes over a row                                           *)
LEMMA CleanFailsKeeps ==
    ASSUME IInv, CleanFails
    PROVE  IInv'
<1>1. /\ clean.queue # <<>> /\ clean'.stage = "delete"
      /\ clean' \in [stage: {"delete", "mark"}, queue: Seq(Media)]
      /\ \A i \in 1..Len(clean'.queue) : /\ i + 1 \in 1..Len(clean.queue)
                                         /\ clean'.queue[i] = clean.queue[i + 1]
  BY NextQueued DEF IInv, CleanFails
<1>2. faults' \in 0..MaxFaults
  BY FaultCounts DEF IInv, CleanFails
<1>3. UNCHANGED <<now, row, image, poll, design, save, promised, untracked, undone,
                  shortened, savedLate>>
  BY DEF CleanFails, history
<1>4. TypeOK'
  BY <1>1, <1>2, <1>3, Types DEF IInv, TypeOK, Poll
<1>5. QueueRemovals'
  BY <1>1, <1>2, <1>3, Types DEF IInv, RowShape, QueueRemovals, Expired
<1>6. HeadRemoved'
  BY <1>1, <1>2, <1>3, Types DEF IInv, HeadRemoved, QueueRemovals
<1>7. /\ RowShape' /\ PollTimes' /\ WorkInTime' /\ PollRemovals' /\ ExpiredRows'
      /\ Holders' /\ LiveImages' /\ RecordImages' /\ DesignImages' /\ SaveRows'
      /\ Claimed' /\ Promises'
  BY <1>3 DEF IInv, RowShape, PollTimes, WorkInTime, PollRemovals, ExpiredRows, Holders,
     LiveImages, RecordImages, DesignImages, SaveRows, Claimed, Promises, Expired
<1> QED
  BY <1>4, <1>5, <1>6, <1>7 DEF IInv

(* Time passes; no poll outlives a retention time                          *)
LEMMA TickKeeps ==
    ASSUME IInv, Tick
    PROVE  IInv'
<1>1. now \in Nat /\ now' = now + 1 /\ now' \in Nat
  BY DEF IInv, TypeOK, Tick
<1>2. \A p \in Polls : poll[p].stage # "idle" => now' < poll[p].start + AnonRetention
  BY DEF Tick
<1>3. UNCHANGED <<row, image, poll, design, save, clean, faults, promised, untracked,
                  undone, shortened, savedLate>>
  BY DEF Tick, history
<1>4. TypeOK'
  BY <1>1, <1>2, <1>3, Types DEF IInv, TypeOK, Poll
<1>5. PollTimes'
  BY <1>1, <1>2, <1>3, Types DEF IInv, PollTimes
<1>6. PollRemovals'
  BY <1>1, <1>2, <1>3, Types DEF IInv, PollRemovals, Removing, Expired
<1>7. QueueRemovals'
  BY <1>1, <1>2, <1>3, Types DEF IInv, RowShape, QueueRemovals, Expired
<1>8. ExpiredRows'
  BY <1>1, <1>2, <1>3, Types DEF IInv, RowShape, ExpiredRows, Expired
<1>9. LiveImages'
  BY <1>1, <1>2, <1>3, Types DEF IInv, LiveImages, Expired
<1>10. /\ RowShape' /\ WorkInTime' /\ HeadRemoved' /\ Holders' /\ RecordImages'
       /\ DesignImages' /\ SaveRows' /\ Claimed' /\ Promises'
  BY <1>3 DEF IInv, RowShape, WorkInTime, HeadRemoved, Holders, RecordImages,
     DesignImages, SaveRows, Claimed, Promises
<1> QED
  BY <1>4, <1>5, <1>6, <1>7, <1>8, <1>9, <1>10 DEF IInv

(* A result is saved, in time or late                                      *)
LEMMA SaveUpdateKeeps ==
    ASSUME IInv, NEW u \in Users, SaveUpdate(u)
    PROVE  IInv'
<1> DEFINE m == save[u]
<1>1. m # None /\ m \in Media /\ u \in Customers /\ u # None
  BY Types, TryOnAssumption DEF SaveUpdate, Customers
<1>2. /\ save' \in [Users -> Media \cup {None}] /\ save'[u] = None
      /\ \A v \in Users : v # u => save'[v] = save[v]
  BY DEF IInv, TypeOK, SaveUpdate
<1>3. UNCHANGED <<now, image, poll, design, clean, faults, untracked, undone, shortened>>
  BY DEF SaveUpdate
<1>4. row[m].expires # 0
  BY <1>1 DEF IInv, SaveRows
<1>5. CASE row[m].owner # None
  <2>1. UNCHANGED <<row, promised, savedLate>>
    BY <1>5 DEF SaveUpdate
  <2>2. TypeOK'
    BY <1>2, <1>3, <2>1 DEF IInv, TypeOK
  <2>3. SaveRows'
    BY <1>2, <2>1 DEF IInv, SaveRows
  <2>4. /\ RowShape' /\ PollTimes' /\ WorkInTime' /\ PollRemovals' /\ QueueRemovals'
        /\ HeadRemoved' /\ ExpiredRows' /\ Holders' /\ LiveImages' /\ RecordImages'
        /\ DesignImages' /\ Claimed' /\ Promises'
    BY <1>3, <2>1 DEF IInv, RowShape, PollTimes, WorkInTime, PollRemovals, QueueRemovals,
       HeadRemoved, ExpiredRows, Holders, LiveImages, RecordImages, DesignImages, Claimed,
       Promises, Expired
  <2> QED
    BY <2>2, <2>3, <2>4 DEF IInv
<1>6. CASE row[m].owner = None
  <2> DEFINE e == now + UserRetention
             late == ~(row[m].status = "completed" /\ ~Expired(m))
  <2>1. e \in Nat /\ e # 0 /\ e >= now + AnonRetention
    BY Types, TryOnAssumption
  <2>2. row' = [row EXCEPT ![m].owner = u, ![m].expires = e]
    BY <1>6 DEF SaveUpdate
  <2>3. /\ ~late => savedLate' = savedLate /\ promised' = [promised EXCEPT ![m] = e]
        /\ late => savedLate' = savedLate \cup {m} /\ promised' = promised
    BY <1>6 DEF SaveUpdate
  <2>4. m \notin savedLate /\ promised[m] = 0
    BY <1>1, <1>6 DEF IInv, Claimed
  <2> HIDE DEF e, late
  <2>5. row \in [Media -> Row] /\ row[m] \in Row
    BY <1>1 DEF IInv, TypeOK
  <2>6. /\ row' \in [Media -> Row] /\ row'[m].owner = u /\ row'[m].expires = e
        /\ row'[m].status = row[m].status /\ row'[m].linked = row[m].linked
        /\ \A n \in Media : n # m => row'[n] = row[n]
    <3>1. [row[m] EXCEPT !.owner = u, !.expires = e] \in Row
      BY <1>1, <2>1, <2>5 DEF Row
    <3>2. row' = [row EXCEPT ![m] = [row[m] EXCEPT !.owner = u, !.expires = e]]
      BY <1>1, <2>2, <2>5
    <3> QED
      BY <1>1, <2>5, <3>1, <3>2 DEF Row
  <2>7. /\ savedLate \subseteq savedLate' /\ savedLate' \subseteq savedLate \cup {m}
        /\ late => m \in savedLate' /\ promised' = promised
        /\ ~late => m \notin savedLate' /\ promised'[m] = e
        /\ promised' \in [Media -> Nat]
        /\ \A n \in Media : n # m => promised'[n] = promised[n]
    BY <1>1, <2>1, <2>3, <2>4 DEF IInv, TypeOK
  <2>8. ~late => row[m].status = "completed" /\ ~Expired(m)
    BY DEF late
  <2> HIDE DEF m
  <2>9. TypeOK'
    <3>1. savedLate' \subseteq Media
      BY <1>1, <2>7 DEF IInv, TypeOK
    <3> QED
      BY <1>2, <1>3, <2>6, <2>7, <3>1 DEF IInv, TypeOK
  <2>10. RowShape'
    BY <1>1, <1>3, <1>4, <2>1, <2>6 DEF IInv, RowShape
  <2>11. PollTimes'
    BY <1>1, <1>3, <2>6, Types DEF IInv, PollTimes
  <2>12. WorkInTime'
    <3>1. SUFFICES ASSUME NEW p \in Polls, poll[p].stage \in Working,
                          poll[p].job \notin savedLate
                   PROVE  \/ row'[poll[p].job].expires = 0
                          \/ row'[poll[p].job].expires >= poll[p].start + AnonRetention
      BY <1>3, <2>7 DEF WorkInTime
    <3>2. poll[p].job \in Media /\ poll[p].start \in Nat /\ poll[p].start <= now
      BY <3>1, Types DEF IInv, PollTimes, Working
    <3>3. CASE poll[p].job = m
      BY <2>1, <2>6, <3>2, <3>3, Types
    <3>4. CASE poll[p].job # m
      BY <2>6, <3>1, <3>2, <3>4 DEF IInv, WorkInTime
    <3> QED
      BY <3>3, <3>4
  <2>13. PollRemovals'
    BY <1>1, <1>3, <2>6, <2>7, <2>8, Types DEF IInv, PollRemovals, Removing, Expired
  <2>14. QueueRemovals'
    <3>1. SUFFICES ASSUME NEW i \in 1..Len(clean.queue)
                   PROVE  /\ row'[clean.queue[i]].expires # 0
                          /\ clean.queue[i] \notin savedLate' =>
                                 row'[clean.queue[i]].expires <= now
      BY <1>3 DEF QueueRemovals, Expired
    <3>2. clean.queue[i] \in Media
      BY Types
    <3>3. /\ row[clean.queue[i]].expires # 0
          /\ clean.queue[i] \notin savedLate => Expired(clean.queue[i])
      BY DEF IInv, QueueRemovals
    <3>4. CASE clean.queue[i] = m
      BY <2>1, <2>4, <2>6, <2>7, <2>8, <3>3, <3>4
    <3>5. CASE clean.queue[i] # m
      BY <2>6, <2>7, <3>2, <3>3, <3>5 DEF Expired
    <3> QED
      BY <3>4, <3>5
  <2>15. HeadRemoved'
    BY <1>3, <2>7 DEF IInv, HeadRemoved
  <2>16. ExpiredRows'
    BY <1>1, <1>3, <2>6, <2>7, <2>8, Types DEF IInv, ExpiredRows, Expired
  <2>17. Holders'
    BY <1>3, <2>6, <2>7, Types DEF IInv, Holders
  <2>18. LiveImages'
    BY <1>3, <2>6, <2>7, <2>8 DEF IInv, LiveImages, Expired
  <2>19. RecordImages' /\ DesignImages'
    BY <1>3, <2>7 DEF IInv, RecordImages, DesignImages
  <2>20. SaveRows'
    BY <1>2, <2>1, <2>6, Types DEF IInv, SaveRows
  <2>21. Claimed'
    BY <1>1, <2>1, <2>6, <2>7 DEF IInv, Claimed
  <2>22. Promises'
    BY <1>3, <2>1, <2>4, <2>6, <2>7 DEF IInv, Promises
  <2> QED
    BY <2>9, <2>10, <2>11, <2>12, <2>13, <2>14, <2>15, <2>16, <2>17, <2>18, <2>19, <2>20,
       <2>21, <2>22 DEF IInv
<1> QED
  BY <1>5, <1>6

-----------------------------------------------------------------------------
LEMMA InitIInv == Init => IInv
<1> SUFFICES ASSUME Init PROVE IInv
  OBVIOUS
<1>1. /\ /\ now = 1 /\ row = [m \in Media |-> NoRow] /\ image = {}
      /\ poll = [p \in Polls |-> Idle]
      /\ design = [d \in Designs |-> "new"] /\ save = [u \in Users |-> None]
      /\ clean = [stage |-> "delete", queue |-> <<>>]
      /\ faults = 0 /\ promised = [m \in Media |-> 0]
      /\ untracked = {} /\ undone = {} /\ shortened = {} /\ savedLate = {}
  BY DEF Init
<1>2. NoRow \in Row
  BY DEF NoRow, Row, Customers
<1>3. TypeOK
  <2>1. poll \in [Polls -> [stage: {"idle", "status", "upload", "record", "undo", "delete", "mark"},
                            job: Jobs, user: Customers, start: Nat]]
    BY <1>1, IdlePoll DEF Poll, PollStage
  <2>2. row \in [Media -> Row] /\ promised \in [Media -> Nat]
    BY <1>1, <1>2
  <2>3. clean \in [stage: {"delete", "mark"}, queue: Seq(Media)]
    BY <1>1
  <2>4. faults \in 0..MaxFaults /\ now \in Nat
    BY <1>1, TryOnAssumption
  <2>5. /\ design \in [Designs -> {"new", "record", "undo", "done"}]
        /\ save \in [Users -> Media \cup {None}]
        /\ image \subseteq Media
        /\ {untracked, undone, shortened, savedLate} \subseteq SUBSET Media
    BY <1>1
  <2> QED
    BY <2>1, <2>2, <2>3, <2>4, <2>5 DEF TypeOK
<1>4. \A m \in Media : row[m].status = "none" /\ ~row[m].linked /\ row[m].expires = 0
  BY <1>1 DEF NoRow
<1>5. \A p \in Polls : poll[p].stage = "idle"
  BY <1>1, IdlePoll
<1>6. RowShape /\ ExpiredRows /\ LiveImages
  BY <1>4 DEF RowShape, ExpiredRows, LiveImages
<1>7. PollTimes /\ WorkInTime /\ PollRemovals /\ RecordImages
  BY <1>5 DEF PollTimes, WorkInTime, PollRemovals, RecordImages, Working, Removing
<1>8. QueueRemovals /\ HeadRemoved
  BY <1>1 DEF QueueRemovals, HeadRemoved
<1>9. Holders /\ DesignImages /\ SaveRows /\ Claimed /\ Promises
  BY <1>1 DEF Holders, DesignImages, SaveRows, Claimed, Promises
<1> QED
  BY <1>3, <1>6, <1>7, <1>8, <1>9 DEF IInv

LEMMA StutterKeeps ==
    ASSUME IInv, UNCHANGED vars
    PROVE  IInv'
  BY DEF IInv, vars, history, TypeOK, RowShape, PollTimes, WorkInTime, PollRemovals,
     QueueRemovals, HeadRemoved, ExpiredRows, Holders, LiveImages, RecordImages, DesignImages,
     SaveRows, Claimed, Promises, Expired

LEMMA NextIInv == IInv /\ [Next]_vars => IInv'
<1> SUFFICES ASSUME IInv, [Next]_vars PROVE IInv'
  OBVIOUS
<1>1. CASE \E j \in Jobs, u \in Customers : CreateTryOn(j, u)
  BY <1>1, CreateTryOnKeeps
<1>2. ASSUME NEW p \in Polls,
             \/ \E j \in Jobs, u \in Customers : PollRead(p, j, u)
             \/ PollStep(p) \/ PollRecordFails(p) \/ PollFails(p)
      PROVE  IInv'
  BY <1>2, PollReadKeeps, PollStatusKeeps, PollUploadKeeps, PollRecordKeeps,
     PollUndoKeeps,
     PollDeleteKeeps, PollMarkKeeps, PollRecordFailsKeeps, PollFailsKeeps DEF PollStep
<1>3. ASSUME NEW d \in Designs,
             \/ DesignUpload(d)
             \/ \E u \in Customers : DesignRecord(d, u) \/ DesignRecordFails(d, u)
             \/ DesignUndo(d) \/ DesignStops(d)
      PROVE  IInv'
  BY <1>3, DesignUploadKeeps, DesignRecordKeeps, DesignRecordFailsKeeps, DesignUndoKeeps,
     DesignStopsKeeps
<1>4. ASSUME NEW u \in Users, (\E m \in Media : SaveRead(u, m)) \/ SaveUpdate(u)
      PROVE  IInv'
  BY <1>4, SaveReadKeeps, SaveUpdateKeeps
<1>5. CASE CleanStep \/ CleanFails \/ Tick
  BY <1>5, CleanSelectKeeps, CleanDeleteKeeps, CleanMarkKeeps, CleanFailsKeeps, TickKeeps
  DEF CleanStep
<1>6. CASE UNCHANGED vars
  BY <1>6, StutterKeeps
<1> QED
  BY <1>1, <1>2, <1>3, <1>4, <1>5, <1>6 DEF Next

LEMMA AlwaysIInv == Spec => []IInv
  BY InitIInv, NextIInv, PTL DEF Spec

-----------------------------------------------------------------------------
(* The variables keep their types: no step of a poll, of a design, of a    *)
(* save or of the cleanup leaves a malformed row, queue or list of media   *)
THEOREM TypeCorrect == Spec => []TypeOK
<1>1. IInv => TypeOK
  BY DEF IInv
<1> QED
  BY <1>1, AlwaysIInv, PTL

(* An image that no call is at work on is named by its row, unless a call  *)
(* stopped or failed after the upload took effect and before its record or *)
(* undo, or the result was saved after its expiry: for any number of polls *)
(* that overlap and any queue of the cleanup                               *)
THEOREM ImagesTrackedCorrect == Spec => []ImagesTracked
<1>1. IInv => ImagesTracked
  BY DEF IInv, Holders, ImagesTracked, Quiet
<1> QED
  BY <1>1, AlwaysIInv, PTL

(* A completed result that has not expired has its image, whatever the     *)
(* cleanup and other polls do, unless a poll or a design whose record was  *)
(* reported to fail has deleted it or the result was saved after its       *)
(* expiry                                                                  *)
THEOREM LiveResultHasImageCorrect == Spec => []LiveResultHasImage
<1>1. IInv => LiveResultHasImage
  BY DEF IInv, LiveImages, LiveResultHasImage
<1> QED
  BY <1>1, AlwaysIInv, PTL

(* A result saved in time keeps its row, its owner and its image until the *)
(* time promised, unless a poll has set the expiry back or an undo has     *)
(* deleted the image                                                       *)
THEOREM SavedKeptCorrect == Spec => []SavedKept
<1>1. ASSUME IInv PROVE SavedKept
  <2>1. SUFFICES ASSUME NEW m \in Media, now < promised[m], m \notin shortened \cup undone
                 PROVE  row[m].status = "completed" /\ row[m].owner # None /\ m \in image
    BY DEF SavedKept
  <2>2. now \in Nat /\ promised[m] \in Nat /\ row[m].expires \in Nat /\ promised[m] # 0
    BY <1>1, <2>1, Types
  <2>3. m \notin savedLate /\ row[m].expires >= promised[m]
    BY <1>1, <2>1, <2>2 DEF IInv, Promises
  <2>4. row[m].owner # None /\ row[m].expires # 0
    BY <1>1, <2>2 DEF IInv, Claimed
  <2>5. ~Expired(m)
    BY <2>1, <2>2, <2>3 DEF Expired
  <2>6. row[m].status \notin {"none", "pending", "expired"}
    BY <1>1, <2>3, <2>4, <2>5 DEF IInv, RowShape, ExpiredRows
  <2>7. row[m].status = "completed"
    BY <1>1, <2>6, Types
  <2>8. m \in image
    BY <1>1, <2>1, <2>3, <2>5, <2>7 DEF IInv, LiveImages
  <2> QED
    BY <2>4, <2>7, <2>8
<1> QED
  BY <1>1, AlwaysIInv, PTL

=============================================================================
