------------------------------ MODULE Receipts ------------------------------
(***************************************************************************)
(* Receipts of transactions: a row in the database, a file under a fresh   *)
(* storage key, and a thumbnail made on demand and kept under the row's id *)
(* (ReceiptAttachmentService, its routes, and the permanent deletion of    *)
(* transactions in TransactionService).                                    *)
(*                                                                         *)
(* Rows and files change one after the other.  A request is a step here    *)
(* for each of them, other requests come in between, and the process may   *)
(* stop anywhere.  The database gives the id of a deleted row away again,  *)
(* and a delete of a row names it by id.                                   *)
(***************************************************************************)
EXTENDS Integers, FiniteSets, FiniteSetsExt, Functions

CONSTANTS
  Client, Txn,
  MaxAttachments,  \* MAX_ATTACHMENTS_PER_TRANSACTION
  MaxKey,          \* BOUND: uploads
  Null

Key == 1..MaxKey
Id == 1..MaxKey

\* What a request under way remembers: an upload before and after its file is written; a
\* purge that has not read its receipts; what is to be unlinked, and removed after that; a
\* picture.
Keys == UNION {[ids -> Key] : ids \in SUBSET Id}
Request ==
       [kind : {"upload"}, txn : Txn, replaces : Id \cup {Null}, key : {Null}, old : Key \cup {Null}]
  \cup [kind : {"written"}, txn : Txn, replaces : Id \cup {Null}, key : Key, old : Key \cup {Null}]
  \cup [kind : {"purging"}, txn : Txn]
  \cup [kind : {"replace", "delete", "purge"}, txn : Txn, ids : SUBSET Id, keys : Keys, files : Keys,
        thumbs : SUBSET Id]
  \cup [kind : {"thumbnail"}, id : Id, key : Key]

\* What the constants are.
ReceiptsAssumption ==
  /\ MaxAttachments \in Nat \ {0} /\ MaxKey \in Nat /\ IsFiniteSet(Client)
  /\ Null \notin Client \cup Nat \cup Request

VARIABLES
  txns,      \* transaction -> "live", "trashed" or "gone"
  rows,      \* id -> the transaction and the storage key
  files,     \* storage keys with a file
  thumbs,    \* id -> the key of the picture that its thumbnail shows
  uploads,   \* storage keys generated so far
  requests,  \* Client -> the request under way, or Null
  lock,      \* the request whose writes are not committed yet, or Null
  asked,     \* what has happened: keys whose deletion has begun,
  slips      \* and the accidents that leave rows, files and thumbnails apart

vars == <<txns, rows, files, thumbs, uploads, requests, lock, asked, slips>>
disk == <<files, thumbs>>
database == <<txns, rows, lock>>
history == <<asked, slips>>

TypeOK ==
  /\ txns \in [Txn -> {"live", "trashed", "gone"}]
  /\ DOMAIN rows \subseteq Id /\ rows \in [DOMAIN rows -> [txn : Txn, key : Key]]
  /\ \A id \in DOMAIN rows : txns[rows[id].txn] # "gone"
  /\ files \subseteq Key /\ thumbs \in [DOMAIN thumbs -> Key]
  /\ lock \in Client \cup {Null}

-----------------------------------------------------------------------------
Put(table, id, row) == [k \in DOMAIN table \cup {id} |-> IF k = id THEN row ELSE table[k]]
Without(table, ids) == Restrict(table, DOMAIN table \ ids)
NewId(table) == IF DOMAIN table = {} THEN 1 ELSE Max(DOMAIN table) + 1
Attachments(t) == {id \in DOMAIN rows : rows[id].txn = t}

Idle(c) == requests[c] = Null
Kind(c) == IF Idle(c) THEN "none" ELSE requests[c].kind
Becomes(c, request) == requests' = [requests EXCEPT ![c] = request]
Ends(c) == Becomes(c, Null)

\* A request that still has files to unlink or rows to delete.
Unlinks(c) == Kind(c) \in {"replace", "delete", "purge"}
Removing(id) == \E c \in Client : Unlinks(c) /\ id \in requests[c].ids

\* What is still to be unlinked for some rows: their files, and the thumbnails of their ids.
ThumbsOf(ids) == ids
Unlinking(kind, t, ids, keyOf) ==
  [kind |-> kind, txn |-> t, ids |-> ids, keys |-> keyOf, files |-> keyOf, thumbs |-> ThumbsOf(ids)]
KeysOf(ids) == [id \in ids |-> rows[id].key]

Init ==
  /\ txns = [t \in Txn |-> "live"]
  /\ rows = <<>> /\ files = {} /\ thumbs = <<>> /\ uploads = 0
  /\ requests = [c \in Client |-> Null] /\ lock = Null
  /\ asked = {} /\ slips = {}

-----------------------------------------------------------------------------
\* An upload looks at the transaction, at the receipt it replaces, and at how many there
\* are; a replacement takes its target's place.
Occupied(t, replaces) == Cardinality(Attachments(t)) - (IF replaces = Null THEN 0 ELSE 1)

BeginUpload(c, t, replaces) ==
  /\ Idle(c) /\ txns[t] = "live"
  /\ replaces # Null => replaces \in Attachments(t)
  /\ Occupied(t, replaces) < MaxAttachments
  /\ Becomes(c, [kind |-> "upload", txn |-> t, replaces |-> replaces, key |-> Null,
                 old |-> IF replaces = Null THEN Null ELSE rows[replaces].key])
  /\ UNCHANGED <<database, disk, uploads, history>>

\* Its bytes are written.  Mutant: in place of those it replaces.
WriteFile_DropsOld(c) ==
  /\ Kind(c) = "upload" /\ uploads < MaxKey
  /\ uploads' = uploads + 1
  /\ files' = (files \cup {uploads + 1}) \ {requests[c].old}
  /\ Becomes(c, [requests[c] EXCEPT !.kind = "written", !.key = uploads + 1])
  /\ UNCHANGED <<database, thumbs, history>>
WriteFile(c) ==
  /\ Kind(c) = "upload" /\ uploads < MaxKey  \* BOUND
  /\ uploads' = uploads + 1
  /\ files' = files \cup {uploads + 1}
  /\ Becomes(c, [requests[c] EXCEPT !.kind = "written", !.key = uploads + 1])
  /\ UNCHANGED <<database, thumbs, history>>

\* Too large, empty, or of a type that is not allowed: what was written goes again.
RefuseFile(c) ==
  /\ Kind(c) = "upload" /\ Ends(c)
  /\ UNCHANGED <<database, disk, uploads, history>>

\* create_metadata: the row is inserted, then the replaced one deleted, and both are
\* committed.  A transaction that is gone by now breaks the foreign key, and the file is
\* unlinked.
AfterFailure(key) == files \ {key}
Insertable(t) == txns[t] # "gone"

CommitUpload(c) ==
  /\ Kind(c) = "written" /\ lock = Null
  /\ LET r == requests[c]
         id == NewId(rows)
         inserted == Put(rows, id, [txn |-> r.txn, key |-> r.key])
     IN IF ~Insertable(r.txn)
        THEN /\ files' = AfterFailure(r.key) /\ Ends(c)
             /\ UNCHANGED <<rows, slips>>
        ELSE /\ rows' = Without(inserted, {r.replaces})
             \* The replaced row may be gone, and its id another row's.
             /\ slips' = slips \cup
                  {"reused id" : i \in {i \in DOMAIN inserted :
                                         i = r.replaces /\ inserted[i].key # r.old}}
                  \cup {"early id" : i \in {i \in {id} : Removing(i)}}
             /\ IF r.replaces \in {Null, id} THEN Ends(c)
                ELSE Becomes(c, Unlinking("replace", r.txn, {r.replaces},
                                          [i \in {r.replaces} |-> r.old]))
             /\ UNCHANGED files
  /\ UNCHANGED <<txns, thumbs, uploads, lock, asked>>

-----------------------------------------------------------------------------
\* A deletion reads its row and unlinks before it deletes.
BeginDelete(c, id) ==
  /\ Idle(c) /\ id \in DOMAIN rows
  /\ Becomes(c, Unlinking("delete", rows[id].txn, {id}, KeysOf({id})))
  /\ asked' = asked \cup {rows[id].key}
  /\ UNCHANGED <<database, disk, uploads, slips>>

\* The trash is emptied of a transaction: its id is read; then its tags are deleted, which
\* takes the database's lock, and the receipts of the id are read.
BeginPurge(c, t) ==
  /\ Idle(c) /\ txns[t] = "trashed"
  /\ Becomes(c, [kind |-> "purging", txn |-> t])
  /\ UNCHANGED <<database, disk, uploads, history>>

LockPurge(c) ==
  /\ Kind(c) = "purging" /\ lock = Null /\ lock' = c
  /\ LET ids == Attachments(requests[c].txn)
     IN /\ Becomes(c, Unlinking("purge", requests[c].txn, ids, KeysOf(ids)))
        /\ asked' = asked \cup {rows[id].key : id \in ids}
  /\ UNCHANGED <<txns, rows, disk, uploads, slips>>

UnlinkFile(c) ==
  /\ Unlinks(c)
  /\ \E id \in DOMAIN requests[c].files :
       /\ files' = files \ {requests[c].files[id]}
       /\ Becomes(c, [requests[c] EXCEPT !.files = Without(@, {id})])
  /\ UNCHANGED <<database, thumbs, uploads, history>>

UnlinkThumb(c) ==
  /\ Unlinks(c)
  /\ \E id \in requests[c].thumbs \ DOMAIN requests[c].files :
       /\ thumbs' = Without(thumbs, {id})
       /\ Becomes(c, [requests[c] EXCEPT !.thumbs = @ \ {id}])
  /\ UNCHANGED <<database, files, uploads, history>>

\* The rows go last, and with a purge the transaction unless it was restored.
Finish(c) ==
  /\ Unlinks(c) /\ requests[c].files = <<>> /\ requests[c].thumbs = {}
  /\ LET r == requests[c]
     IN \/ /\ r.kind = "replace"
           /\ UNCHANGED <<database, slips>>
        \/ /\ r.kind = "delete" /\ lock = Null
           /\ rows' = Without(rows, r.ids)
           /\ slips' = slips \cup {"reused id" : id \in {id \in r.ids \cap DOMAIN rows :
                                                           rows[id].key # r.keys[id]}}
           /\ UNCHANGED <<txns, lock>>
        \/ /\ r.kind = "purge"
           /\ rows' = Without(rows, r.ids)
           /\ txns' = [txns EXCEPT ![r.txn] = IF @ = "trashed" THEN "gone" ELSE @]
           /\ lock' = Null
           /\ UNCHANGED slips
  /\ Ends(c)
  /\ UNCHANGED <<disk, uploads, asked>>

\* soft_delete and restore.
Trash(t) ==
  /\ lock = Null /\ txns[t] = "live"
  /\ txns' = [txns EXCEPT ![t] = "trashed"]
  /\ UNCHANGED <<rows, lock, disk, uploads, requests, history>>
Restore(t) ==
  /\ lock = Null /\ txns[t] = "trashed"
  /\ txns' = [txns EXCEPT ![t] = "live"]
  /\ UNCHANGED <<rows, lock, disk, uploads, requests, history>>

-----------------------------------------------------------------------------
\* ensure_thumbnail: made from the file if there is none yet, and put in place when it is
\* complete, whatever has become of the receipt; an image may be unreadable.
BeginThumbnail(c, id) ==
  /\ Idle(c) /\ id \in DOMAIN rows \ DOMAIN thumbs /\ rows[id].key \in files
  /\ Becomes(c, [kind |-> "thumbnail", id |-> id, key |-> rows[id].key])
  /\ UNCHANGED <<database, disk, uploads, history>>

Shows(id, key) == id \in DOMAIN rows /\ rows[id].key = key
PlaceThumbnail(c) ==
  /\ Kind(c) = "thumbnail"
  /\ LET r == requests[c]
     IN /\ thumbs' = Put(thumbs, r.id, r.key)
        /\ slips' = slips \cup {"late thumbnail" : i \in {i \in {r.id} :
                                                   ~Shows(i, r.key) \/ Removing(i)}}
  /\ Ends(c)
  /\ UNCHANGED <<database, files, uploads, asked>>

RefuseThumbnail(c) ==
  /\ Kind(c) = "thumbnail" /\ Ends(c)
  /\ UNCHANGED <<database, disk, uploads, history>>

\* The process stops: nothing that was under way goes on, and the lock's writes are undone.
Stop ==
  /\ \E c \in Client : ~Idle(c)
  /\ requests' = [c \in Client |-> Null] /\ lock' = Null
  /\ slips' = slips \cup {"stop"}
  /\ UNCHANGED <<txns, rows, disk, uploads, asked>>

Next ==
  \/ \E c \in Client :
       \/ \E t \in Txn : BeginPurge(c, t)
                         \/ \E id \in Id \cup {Null} : BeginUpload(c, t, id)
       \/ \E id \in Id : BeginDelete(c, id) \/ BeginThumbnail(c, id)
       \/ WriteFile(c) \/ RefuseFile(c) \/ CommitUpload(c)
       \/ LockPurge(c) \/ UnlinkFile(c) \/ UnlinkThumb(c) \/ Finish(c)
       \/ PlaceThumbnail(c) \/ RefuseThumbnail(c)
  \/ \E t \in Txn : Trash(t) \/ Restore(t)
  \/ Stop

Spec == Init /\ [][Next]_vars

-----------------------------------------------------------------------------
\* An export of the account gives up at a receipt without its file.
Exportable(id) == rows[id].key \in files

\* However uploads, replacements, deletions, purges and stops interleave, a receipt that is
\* listed has its file, unless somebody has begun to delete that very receipt.  A
\* replacement that does not come through costs nothing.
RowsHaveFiles == \A id \in DOMAIN rows : Exportable(id) \/ rows[id].key \in asked

\* No file is left behind without its row, except by a stop, or by two removals of the same
\* id of which the second one hits the row that got the id in between.
NoOrphans ==
  slips \cap {"stop", "reused id"} = {} =>
    \A key \in files : \/ \E id \in DOMAIN rows : rows[id].key = key
                       \/ \E c \in Client : Kind(c) = "written" /\ requests[c].key = key
                       \/ \E c \in Client : Unlinks(c) /\ key \in Range(requests[c].files)

\* Nobody is shown the thumbnail of another receipt, though ids are given away again, except
\* after a stop, after a thumbnail that was still being made when its receipt went, and
\* when an id is given away before the replacement that freed it has unlinked.
ThumbnailsMatch ==
  slips \cap {"stop", "late thumbnail", "early id"} = {} =>
    \A id \in DOMAIN rows \cap DOMAIN thumbs : thumbs[id] = rows[id].key

\* Uploads that overlap pass the limit by at most one each but the first.
LimitHolds ==
  \A t \in Txn : Cardinality(Attachments(t)) <= MaxAttachments + Cardinality(Client) - 1
=============================================================================
