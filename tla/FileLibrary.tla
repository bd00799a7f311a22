----------------------------- MODULE FileLibrary -----------------------------
(***************************************************************************)
(* The shared file library: app/modules/files/service.py, repository.py,   *)
(* tasks.py and retention.py.                                              *)
(*                                                                         *)
(* Files are rows that refer to content by its hash, so equal uploads      *)
(* share one stored object.  A request or job is one transaction (READ     *)
(* COMMITTED): its row changes show at commit, while what it does to the   *)
(* object store shows at once and no rollback undoes it.  The transactions *)
(* of one content are serialised by an advisory lock on its hash, the      *)
(* numbering of documents by another one; both are held until the end.     *)
(* The archive and backup directories are configured.                      *)
(***************************************************************************)
EXTENDS Integers, FiniteSets, FiniteSetsExt

CONSTANTS
  Conns,      \* connections, each running one transaction after another
  Hashes,     \* contents
  Rows,       \* ids of library_files rows
  Uploads,    \* ids of upload_sessions rows
  None,
  TooBig,     \* a directly uploaded content over max_upload_bytes
  Failing,    \* the operations that may fail or crash before they commit
  MaxFails,   \* bound: failures
  MaxStarts   \* bound: requests and jobs started

Statuses == {"pending", "approved", "rejected", "deleted"}
Live == {"pending", "approved"}

File == [hash : Hashes, status : Statuses, code : 1..Cardinality(Rows),
         ver : 1..Cardinality(Rows), refs : 0..Cardinality(Rows),
         archived : BOOLEAN, backed : BOOLEAN, cold : BOOLEAN,
         from : Uploads \cup {None}]

ASSUME LibraryAssumption ==
  /\ IsFiniteSet(Rows) /\ Rows # {}
  /\ MaxFails \in Nat /\ MaxStarts \in Nat
  /\ TooBig \notin Hashes /\ None \notin Hashes \cup Rows \cup {TooBig}
  /\ None \notin File

VARIABLES
  file,     \* committed library_files rows
  sess,     \* upload_sessions: "none", "open" or "gone"
  old,      \* sessions past _UPLOAD_TTL
  put,      \* what the client stored under its presigned URL
  up,       \* objects under the random keys up/<upload_id>
  hot,      \* contents in the object store
  archive,  \* contents in the archive directory
  backup,   \* contents in the backup directory
  tx,       \* per connection: the transaction it runs
  starts, fails

vars == <<file, sess, old, put, up, hot, archive, backup, tx, starts, fails>>
db == <<file, sess>>
store == <<up, hot, archive, backup>>
clock == <<old, put>>

(* op      : the request or job;  at : its next step                       *)
(* row     : the file it is about; parent : the file it is a version of    *)
(* hash    : the content; locked : lock_hash is held                       *)
(* uploads : the session rows it holds; swept : those it deletes           *)
(* code, ver : the document number taken under lock_document               *)
(* status  : the status it gives the file; refs : the count it writes      *)
Idle == [op |-> "idle", at |-> "idle", row |-> None, parent |-> None, hash |-> None,
         locked |-> FALSE, uploads |-> {}, swept |-> {}, code |-> 0, ver |-> 0,
         status |-> "pending", refs |-> 0]

(* A file approved before backups were made (the ones                      *)
(* backup_approved_files is for), or no file yet.                          *)
Early(h) ==
  [hash |-> h, status |-> "approved", code |-> 1, ver |-> 1, refs |-> 1,
   archived |-> FALSE, backed |-> FALSE, cold |-> FALSE, from |-> None]

Init ==
  /\ \/ hot = {} /\ file = [r \in Rows |-> None]
     \/ \E h \in Hashes :
          /\ hot = {h}
          /\ file = [r \in Rows |-> IF r = CHOOSE x \in Rows : TRUE THEN Early(h) ELSE None]
  /\ sess = [u \in Uploads |-> "none"]
  /\ old = {} /\ put = [u \in Uploads |-> None] /\ up = [u \in Uploads |-> None]
  /\ archive = {} /\ backup = {}
  /\ tx = [c \in Conns |-> Idle]
  /\ starts = 0 /\ fails = 0

-----------------------------------------------------------------------------
Stored == {r \in Rows : file[r] # None}
LiveOf(h) == {r \in Stored : file[r].hash = h /\ file[r].status \in Live}
Reserved == {tx[c].row : c \in Conns}
Held(u) == \E c \in Conns : u \in tx[c].uploads

Step(c, t) == tx' = [tx EXCEPT ![c] = t]
To(c, stage) == [tx[c] EXCEPT !.at = stage]
Rollback(c) == Step(c, Idle)

Begin(c, t) ==
  /\ tx[c] = Idle /\ starts < MaxStarts
  /\ starts' = starts + 1
  /\ Step(c, t)

(* _identity_for_upload: a new version needs a live file of the document.  *)
GoodParent(p) == p = None \/ (p \in Stored /\ file[p].status \in Live)

(* POST /files and POST /files/{id}/versions                               *)
Create(c, r, h, p) ==
  /\ r \notin Stored \cup Reserved
  /\ GoodParent(p)
  /\ Begin(c, [Idle EXCEPT !.op = "create", !.at = "number", !.row = r, !.hash = h,
                           !.parent = p])
  /\ UNCHANGED <<db, store, clock, fails>>

(* upload_init, the client's PUT and the passing of _UPLOAD_TTL.           *)
UploadInit(u) ==
  /\ sess[u] = "none" /\ starts < MaxStarts
  /\ starts' = starts + 1
  /\ sess' = [sess EXCEPT ![u] = "open"]
  /\ UNCHANGED <<file, store, clock, tx, fails>>

Put(u, x) ==
  /\ sess[u] # "none" /\ u \notin old /\ put[u] = None
  /\ put' = [put EXCEPT ![u] = x]
  /\ up' = [up EXCEPT ![u] = x]
  /\ UNCHANGED <<db, old, hot, archive, backup, tx, starts, fails>>

Expire(u) ==
  /\ sess[u] # "none" /\ u \notin old
  /\ old' = old \cup {u}
  /\ UNCHANGED <<db, store, put, tx, starts, fails>>

Claimable(u) == sess[u] = "open" /\ ~Held(u)

(* confirm_upload and notify_upload: DELETE ... RETURNING on the session,  *)
(* then _register_from_upload.                                             *)
Register(c, u, r, p) ==
  /\ Claimable(u)
  /\ r \notin Stored \cup Reserved
  /\ Begin(c, [Idle EXCEPT !.op = "register", !.at = "read", !.row = r,
                           !.uploads = {u}, !.parent = p])
  /\ UNCHANGED <<db, store, clock, fails>>

UploadOf(c) == CHOOSE u \in Uploads : u \in tx[c].uploads

(* The object is missing or too large (then it is removed), a check of     *)
(* process_upload or the document's state refuses it, or it is hashed.     *)
Read(c) ==
  /\ tx[c].at = "read"
  /\ LET x == up[UploadOf(c)] IN
       \/ /\ Rollback(c)
          /\ up' = IF x = TooBig THEN [up EXCEPT ![UploadOf(c)] = None] ELSE up
       \/ /\ x \in Hashes /\ GoodParent(tx[c].parent)
          /\ Step(c, [To(c, "number") EXCEPT !.hash = x])
          /\ UNCHANGED up
  /\ UNCHANGED <<db, hot, archive, backup, clock, starts, fails>>

(* lock_document: of the document for a version, of the year for a new one *)
NumberFree(c) ==
  \A d \in Conns \ {c} : tx[d].ver > 0 =>
    IF tx[c].parent = None THEN tx[d].parent # None
    ELSE tx[d].parent = None \/ tx[d].code # file[tx[c].parent].code

(* next_document_code and next_version                                     *)
TakeNumber(c) ==
  /\ tx[c].at = "number"
  /\ NumberFree(c)
  /\ LET p == tx[c].parent
         code == IF p = None THEN 1 + Max({0} \cup {file[r].code : r \in Stored})
                 ELSE file[p].code
         ver == 1 + Max({0} \cup {file[r].ver : r \in {s \in Stored : file[s].code = code}})
     IN Step(c, [To(c, "hash") EXCEPT !.code = code, !.ver = ver])
  /\ UNCHANGED <<db, store, clock, starts, fails>>

HashFree(c) == \A d \in Conns \ {c} : ~(tx[d].locked /\ tx[d].hash = tx[c].hash)

LockHash(c) ==
  /\ tx[c].at = "hash"
  /\ HashFree(c)
  /\ Step(c, [To(c, IF tx[c].ver > 0 THEN "write" ELSE "decide") EXCEPT !.locked = TRUE])
  /\ UNCHANGED <<db, store, clock, starts, fails>>

(* Save or copy the content unless it is there, insert the row, count.     *)
Write(c) ==
  /\ tx[c].at = "write"
  /\ hot' = hot \cup {tx[c].hash}
  /\ Step(c, [To(c, IF tx[c].op = "create" THEN "commit" ELSE "drop")
                EXCEPT !.refs = Cardinality(LiveOf(tx[c].hash)) + 1])
  /\ UNCHANGED <<db, up, archive, backup, clock, starts, fails>>

(* _safe_delete of the random key, the last step before the commit.        *)
Drop(c) ==
  /\ tx[c].at = "drop"
  /\ up' = [up EXCEPT ![UploadOf(c)] = None]
  /\ Step(c, To(c, "commit"))
  /\ UNCHANGED <<db, hot, archive, backup, clock, starts, fails>>

-----------------------------------------------------------------------------
(* review_file and delete_file read the row, lock its content, and read    *)
(* the row again under its row lock.                                       *)
Review(c, r, s) ==
  /\ r \in Stored /\ s \in {"approved", "rejected"}
  /\ Begin(c, [Idle EXCEPT !.op = "review", !.at = "hash", !.row = r,
                           !.hash = file[r].hash, !.status = s])
  /\ UNCHANGED <<db, store, clock, fails>>

Delete(c, r) ==
  /\ r \in Stored
  /\ Begin(c, [Idle EXCEPT !.op = "delete", !.at = "hash", !.row = r,
                           !.hash = file[r].hash, !.status = "deleted"])
  /\ UNCHANGED <<db, store, clock, fails>>

Others(c) == LiveOf(tx[c].hash) \ {tx[c].row}

(* The content is removed with the last live file that refers to it.       *)
LetGo(c) ==
  /\ Step(c, [To(c, IF Others(c) = {} THEN "wipe" ELSE "commit")
                EXCEPT !.refs = Cardinality(Others(c))])
  /\ UNCHANGED backup

(* Approval copies the content to the backup directory if it is not there. *)
Approve(c) ==
  /\ LET h == tx[c].hash IN
       IF h \in hot \cup backup
         THEN Step(c, To(c, "commit")) /\ backup' = backup \cup {h}
         ELSE Rollback(c) /\ UNCHANGED backup

DecideReview(c) ==
  /\ tx[c].op = "review" /\ tx[c].at = "decide"
  /\ IF file[tx[c].row].status # "pending"
       THEN Rollback(c) /\ UNCHANGED backup
       ELSE IF tx[c].status = "rejected" THEN LetGo(c) ELSE Approve(c)
  /\ UNCHANGED <<db, up, hot, archive, clock, starts, fails>>

DecideDelete(c) ==
  /\ tx[c].op = "delete" /\ tx[c].at = "decide"
  /\ IF file[tx[c].row].status = "deleted" THEN Rollback(c) /\ UNCHANGED backup
                                           ELSE LetGo(c)
  /\ UNCHANGED <<db, up, hot, archive, clock, starts, fails>>

(* _delete_content_variants and delete_archive                             *)
Wipe(c) ==
  /\ tx[c].at = "wipe"
  /\ hot' = hot \ {tx[c].hash}
  /\ archive' = archive \ {tx[c].hash}
  /\ Step(c, To(c, "commit"))
  /\ UNCHANGED <<db, up, backup, clock, starts, fails>>

-----------------------------------------------------------------------------
(* archive_cold_files: every live file of the content is approved, past    *)
(* the cut-off and backed up.                                              *)
AllCold(h) ==
  /\ LiveOf(h) # {}
  /\ \A r \in LiveOf(h) : file[r].status = "approved" /\ file[r].cold /\ file[r].backed

Cool(r) ==
  /\ r \in Stored /\ ~file[r].cold
  /\ file' = [file EXCEPT ![r].cold = TRUE]
  /\ UNCHANGED <<sess, store, clock, tx, starts, fails>>

Archive(c, h) ==
  /\ AllCold(h) /\ \E r \in LiveOf(h) : ~file[r].archived
  /\ Begin(c, [Idle EXCEPT !.op = "archive", !.at = "hash", !.hash = h])
  /\ UNCHANGED <<db, store, clock, fails>>

(* Faulty variant of StillCold: not looked at again under the lock.        *)
StillColdAssumed(h) == TRUE
StillCold(h) == AllCold(h)

(* Under the lock the rows are read again; then the content is copied.     *)
DecideArchive(c) ==
  /\ tx[c].op = "archive" /\ tx[c].at = "decide"
  /\ LET h == tx[c].hash IN
       IF StillCold(h) /\ h \in hot
         THEN Step(c, To(c, "purge")) /\ archive' = archive \cup {h}
         ELSE Rollback(c) /\ UNCHANGED archive
  /\ UNCHANGED <<db, up, hot, backup, clock, starts, fails>>

Purge(c) ==
  /\ tx[c].at = "purge"
  /\ hot' = hot \ {tx[c].hash}
  /\ Step(c, To(c, "commit"))
  /\ UNCHANGED <<db, up, archive, backup, clock, starts, fails>>

(* backup_approved_files takes no lock on the content; its UPDATE waits    *)
(* for the rows other transactions have changed.                           *)
Backup(c, h) ==
  /\ \E r \in LiveOf(h) : file[r].status = "approved" /\ ~file[r].backed
  /\ Begin(c, [Idle EXCEPT !.op = "backup", !.at = "copy", !.hash = h])
  /\ UNCHANGED <<db, store, clock, fails>>

Copy(c) ==
  /\ tx[c].at = "copy"
  /\ IF tx[c].hash \in hot
       THEN Step(c, To(c, "commit")) /\ backup' = backup \cup {tx[c].hash}
       ELSE Rollback(c) /\ UNCHANGED backup
  /\ UNCHANGED <<db, up, hot, archive, clock, starts, fails>>

-----------------------------------------------------------------------------
(* cleanup_expired_uploads: lock what is due and not locked, delete the    *)
(* objects one by one, then the rows of those that went.                   *)
Sweepable == {u \in old : sess[u] = "open" /\ ~Held(u)}

Cleanup(c) ==
  /\ tx[c] = Idle /\ Sweepable # {}
  /\ Step(c, [Idle EXCEPT !.op = "cleanup", !.at = "sweep", !.uploads = Sweepable])
  /\ UNCHANGED <<db, store, clock, starts, fails>>

(* Faulty variant of Sweep: the object is left where it is.                *)
SweepRow(c, u) ==
  /\ tx[c].at = "sweep" /\ u \in tx[c].uploads \ tx[c].swept
  /\ Step(c, [tx[c] EXCEPT !.swept = @ \cup {u}])
  /\ UNCHANGED <<db, store, clock, starts, fails>>
Sweep(c, u) ==
  /\ tx[c].at = "sweep" /\ u \in tx[c].uploads \ tx[c].swept
  /\ \/ /\ up' = [up EXCEPT ![u] = None]
        /\ Step(c, [tx[c] EXCEPT !.swept = @ \cup {u}])
        /\ UNCHANGED fails
     \/ /\ fails < MaxFails /\ fails' = fails + 1
        /\ Step(c, [tx[c] EXCEPT !.uploads = @ \ {u}])
        /\ UNCHANGED up
  /\ UNCHANGED <<db, hot, archive, backup, clock, starts>>

-----------------------------------------------------------------------------
NewFile(t) ==
  [hash |-> t.hash, status |-> "pending", code |-> t.code, ver |-> t.ver,
   refs |-> t.refs, archived |-> FALSE, backed |-> FALSE, cold |-> FALSE,
   from |-> IF t.op = "create" THEN None ELSE CHOOSE u \in Uploads : u \in t.uploads]

(* sync_ref_count writes the count to every file of the content.           *)
Counted(f, t) == IF f # None /\ f.hash = t.hash THEN [f EXCEPT !.refs = t.refs] ELSE f

Committed(t) ==
  CASE t.op \in {"create", "register"} ->
         [r \in Rows |-> IF r = t.row THEN NewFile(t) ELSE Counted(file[r], t)]
    [] t.status \in {"rejected", "deleted"} ->
         [r \in Rows |-> IF r = t.row THEN [Counted(file[r], t) EXCEPT !.status = t.status]
                                      ELSE Counted(file[r], t)]
    [] t.op = "review" /\ t.status = "approved" ->
         [file EXCEPT ![t.row].status = "approved", ![t.row].backed = TRUE]
    [] t.op = "archive" ->
         [r \in Rows |-> IF r \in LiveOf(t.hash) THEN [file[r] EXCEPT !.archived = TRUE]
                                                 ELSE file[r]]
    [] t.op = "backup" ->
         [r \in Rows |-> IF r \in LiveOf(t.hash) /\ file[r].status = "approved"
                           THEN [file[r] EXCEPT !.backed = TRUE] ELSE file[r]]
    [] OTHER -> file

Written(c) == tx[c].locked /\ tx[c].at \in {"wipe", "drop", "purge", "commit"}

Commit(c) ==
  /\ \/ tx[c].at = "commit"
     \/ tx[c].at = "sweep" /\ tx[c].uploads \subseteq tx[c].swept
  /\ tx[c].op = "backup" =>
       \A d \in Conns \ {c} : ~(Written(d) /\ tx[d].hash = tx[c].hash)
  /\ file' = Committed(tx[c])
  /\ sess' = [u \in Uploads |-> IF u \in tx[c].uploads THEN "gone" ELSE sess[u]]
  /\ Step(c, Idle)
  /\ UNCHANGED <<store, clock, starts, fails>>

(* A storage or database error, or a crash: get_session rolls back.        *)
Fail(c) ==
  /\ tx[c].op \in Failing /\ fails < MaxFails
  /\ fails' = fails + 1
  /\ Rollback(c)
  /\ UNCHANGED <<db, store, clock, starts>>

-----------------------------------------------------------------------------
Parents == Rows \cup {None}
Progress(c) ==
  \/ Read(c) \/ TakeNumber(c) \/ LockHash(c) \/ Write(c) \/ Drop(c)
  \/ DecideReview(c) \/ DecideDelete(c) \/ Wipe(c)
  \/ DecideArchive(c) \/ Purge(c) \/ Copy(c)
  \/ (\E u \in Uploads : Sweep(c, u)) \/ Commit(c)

Next ==
  \/ \E c \in Conns :
       \/ \E r \in Rows, h \in Hashes, p \in Parents : Create(c, r, h, p)
       \/ \E u \in Uploads, r \in Rows, p \in Parents : Register(c, u, r, p)
       \/ \E r \in Rows : Delete(c, r) \/ \E s \in Statuses : Review(c, r, s)
       \/ \E h \in Hashes : Archive(c, h) \/ Backup(c, h)
       \/ Cleanup(c) \/ Progress(c) \/ Fail(c)
  \/ \E u \in Uploads :
       UploadInit(u) \/ Expire(u) \/ \E x \in Hashes \cup {TooBig} : Put(u, x)
  \/ \E r \in Rows : Cool(r)

Spec == Init /\ [][Next]_vars

(* Requests end, and the hourly job runs.                                  *)
Fairness ==
  /\ \A c \in Conns : WF_vars(Progress(c))
  /\ WF_vars(\E c \in Conns : Cleanup(c))

FairSpec == Spec /\ Fairness
-----------------------------------------------------------------------------
Tx == [op : {"idle", "create", "register", "review", "delete", "archive", "backup", "cleanup"},
       at : {"idle", "read", "number", "hash", "write", "drop", "decide", "wipe", "purge",
             "copy", "sweep", "commit"},
       row : Rows \cup {None}, parent : Parents, hash : Hashes \cup {None},
       locked : BOOLEAN, uploads : SUBSET Uploads, swept : SUBSET Uploads,
       code : 0..Cardinality(Rows), ver : 0..Cardinality(Rows), status : Statuses,
       refs : 0..Cardinality(Rows)]

(* Every row, object and transaction has its shape; numbers and reference  *)
(* counts never pass the number of files there are.                        *)
TypeOK ==
  /\ file \in [Rows -> File \cup {None}]
  /\ sess \in [Uploads -> {"none", "open", "gone"}]
  /\ old \subseteq Uploads
  /\ put \in [Uploads -> Hashes \cup {TooBig, None}]
  /\ up \in [Uploads -> Hashes \cup {TooBig, None}]
  /\ hot \subseteq Hashes /\ archive \subseteq Hashes /\ backup \subseteq Hashes
  /\ tx \in [Conns -> Tx]
  /\ starts \in 0..MaxStarts /\ fails \in 0..MaxFails

(* r is about to be committed as rejected or deleted.                      *)
Leaving(r) == \E c \in Conns :
  tx[c].row = r /\ tx[c].at = "commit" /\ tx[c].status \in {"rejected", "deleted"}

(* A file waiting for review has its content in the object store, an       *)
(* approved one there or in the archive, whatever is deleted, rejected or  *)
(* archived at the same time (serve_content, review_file, delete_file),    *)
(* until its own removal is committed.                                     *)
LiveHasBytes ==
  \A r \in Stored : ~Leaving(r) =>
    /\ file[r].status = "pending" => file[r].hash \in hot
    /\ file[r].status = "approved" => file[r].hash \in hot \cup archive

(* ref_count of every file is the number of live files of its content      *)
(* (sync_ref_count).                                                       *)
RefsExact == \A r \in Stored : file[r].refs = Cardinality(LiveOf(file[r].hash))

(* Two uploads never get the same document number and version, not even    *)
(* while they are open, so none fails on uq_library_document_version.      *)
DocumentsDistinct ==
  /\ \A r, s \in Stored :
       r # s => <<file[r].code, file[r].ver>> # <<file[s].code, file[s].ver>>
  /\ \A c \in Conns : tx[c].ver > 0 =>
       /\ \A r \in Stored : <<file[r].code, file[r].ver>> # <<tx[c].code, tx[c].ver>>
       /\ \A d \in Conns \ {c} : tx[d].ver > 0 =>
            <<tx[d].code, tx[d].ver>> # <<tx[c].code, tx[c].ver>>

(* A direct upload becomes one file, however often it is confirmed and     *)
(* notified (UploadSessionRepository.claim).                               *)
RegisteredOnce == \A r, s \in Stored : r # s /\ file[r].from # None => file[r].from # file[s].from

(* Content nobody is working on is stored for some live file: the last     *)
(* reference takes the object with it (delete_file, review_file).          *)
NothingLeft ==
  \A h \in hot \cup archive :
    (\A c \in Conns : tx[c].hash # h) => LiveOf(h) # {}

(* While a session is open its uploaded object is there to be registered   *)
(* again (_register_from_upload).                                          *)
UploadKept ==
  \A u \in Uploads :
    sess[u] = "open" /\ u \notin old /\ put[u] \in Hashes /\ ~Held(u) => up[u] = put[u]

(* The library keeps what it should and nothing else: live files have      *)
(* their content, exact reference counts, distinct numbers, one row for    *)
(* an upload, and no content outlives its last file.                       *)
LibrarySound ==
  /\ LiveHasBytes /\ NothingLeft /\ RefsExact
  /\ RegisteredOnce /\ UploadKept /\ DocumentsDistinct

(* An expired session is removed in the end, and its object with it.       *)
SessionsSwept ==
  \A u \in Uploads :
    (u \in old /\ sess[u] = "open") ~> (sess[u] = "gone" /\ up[u] = None)
=============================================================================
