----------------------------- MODULE FileStore -----------------------------
(***************************************************************************)
(* The records internal/store/store.go keeps for one path of the synced    *)
(* directory, and what each of its transactions does to one.  BoltDB runs  *)
(* every db.Update and db.View as one transaction on disk, so a            *)
(* transaction is one step here and its effect survives a crash.           *)
(*                                                                         *)
(* A content stands for the bytes of a file: its SHA-256 (content_hash)    *)
(* and its infohash (name, piece length and piece hashes) are both         *)
(* determined by it, so the content itself is used as either.  Path,       *)
(* ModTime and SeenAt decide nothing and are left out.                     *)
(***************************************************************************)
EXTENDS Clocks

CONSTANTS Content,     \* what a file may contain
          NoContent,   \* no file, and the "" of an unset hash
          NoRecord     \* GetFile's nil: the path has no record

MaybeContent == Content \cup {NoContent}

FileRecord == [hash : MaybeContent, info : MaybeContent, vc : Clock,
               deleted : BOOLEAN]
MaybeRecord == FileRecord \cup {NoRecord}

ASSUME FileStoreAssumption == /\ NoContent \notin Content
                              /\ NoRecord \notin FileRecord

\* existing != nil && !existing.Deleted
Live(r) == r # NoRecord /\ ~r.deleted

\* existing.VectorClock, and the empty map when there is no record.
ClockOf(r) == IF r = NoRecord THEN Zero ELSE r.vc

\* The record that PutFile writes for a version: it replaces the old one.
Version(hash, info, vc) ==
  [hash |-> hash, info |-> info, vc |-> vc, deleted |-> FALSE]

\* DeleteFile: a read-modify-write of the record in one transaction.  Hash,
\* infohash and clock stay; a path without a record gets one of zero values.
MarkDeleted(r) ==
  IF r = NoRecord
    THEN [hash |-> NoContent, info |-> NoContent, vc |-> Zero, deleted |-> TRUE]
    ELSE [r EXCEPT !.deleted = TRUE]
=============================================================================
