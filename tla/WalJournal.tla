------------------------------ MODULE WalJournal ------------------------------
(***************************************************************************)
(* The consensus journal (consensus/pbft/wal): records are appended to     *)
(* files wal.1, wal.2, ...; a new file is begun when the current one has   *)
(* reached its limit.  ConfirmViewChange notes a check point, the current  *)
(* file and its length, in the meta database; files before it are deleted  *)
(* by a goroutine.  After a restart the records behind the check point are *)
(* loaded and writing goes on at the end of the last file.                 *)
(*                                                                         *)
(* A file is a sequence of cells: a record, here its serial number, or     *)
(* Torn, what a crash in the middle of a write leaves behind.              *)
(***************************************************************************)
EXTENDS Integers, Sequences, SequencesExt, FiniteSets, TLC

CONSTANTS
    journalLimitSize,   \* in records
    Torn, None,
    MaxRecord, MaxFile  \* bounds: records ever written, files ever begun

ASSUME JournalAssumption ==
    /\ journalLimitSize \in Nat \ {0}
    /\ Torn \notin Nat

VARIABLES
    files,      \* the wal directory: file number -> cells
    fileID, writer,   \* journal.fileID; whether journal.writer is open
    meta,       \* ViewChangeMessage: [file, seq], or None
    expiring,   \* ExpireJournalFile goroutines: the file number each was given
    up,
    next,       \* serial number of the next record
    written     \* history: the records written completely since the check point

vars == <<files, fileID, writer, meta, expiring, up, next, written>>

\* newJournal in an empty directory
Init ==
    /\ files = (1 :> <<>>)
    /\ fileID = 1 /\ writer = TRUE
    /\ meta = None
    /\ expiring = {}
    /\ up = TRUE
    /\ next = 1
    /\ written = <<>>

-----------------------------------------------------------------------------

\* rotate: flush, close, and begin a file if the current one is full.
NeedsRotation == Len(files[fileID]) >= journalLimitSize
Rotated == IF NeedsRotation THEN fileID + 1 ELSE fileID

\* newJournalFile opens for appending, and creates what is not there.
Opened(f) == IF f \in DOMAIN files THEN files ELSE files @@ (f :> <<>>)

\* WriteSync, journal.Insert: rotate, write, flush.
WriteSync ==
    /\ up /\ writer /\ next <= MaxRecord /\ Rotated <= MaxFile
    /\ fileID' = Rotated
    /\ files' = [Opened(Rotated) EXCEPT ![Rotated] = Append(@, next)]
    /\ next' = next + 1
    /\ written' = Append(written, next)
    /\ UNCHANGED <<writer, meta, expiring, up>>

\* The ticker of mainLoop.
RotateTick ==
    /\ up /\ writer /\ NeedsRotation /\ Rotated <= MaxFile
    /\ fileID' = Rotated
    /\ files' = Opened(Rotated)
    /\ UNCHANGED <<writer, meta, expiring, up, next, written>>

\* The new file cannot be created: the old one is closed and no writer is left.
RotateFails ==
    /\ up /\ writer /\ NeedsRotation
    /\ writer' = FALSE
    /\ UNCHANGED <<files, fileID, meta, expiring, up, next, written>>

\* UpdateViewChange with CurrentJournal; it starts ExpireJournalFile.
UpdateViewChange ==
    /\ up /\ writer
    /\ meta' = [file |-> fileID, seq |-> Len(files[fileID])]
    /\ expiring' = expiring \cup {fileID}
    /\ written' = <<>>
    /\ UNCHANGED <<files, fileID, writer, up, next>>

\* Fault: the file of the check point goes as well.
ExpireJournalFile_Inclusive(f) ==
    /\ up /\ f \in expiring
    /\ expiring' = expiring \ {f}
    /\ files' = [n \in {n \in DOMAIN files : n = fileID \/ n > f} |-> files[n]]
    /\ UNCHANGED <<fileID, writer, meta, up, next, written>>

\* ExpireJournalFile, at any time after it was started; it reads fileID without the lock.
ExpireJournalFile(f) ==
    /\ up /\ f \in expiring
    /\ expiring' = expiring \ {f}
    /\ files' = [n \in {n \in DOMAIN files : n = fileID \/ n >= f} |-> files[n]]
    /\ UNCHANGED <<fileID, writer, meta, up, next, written>>

\* The process stops, possibly in the middle of a write: the record may be complete, without
\* WriteSync having returned, or cut.
Crash ==
    /\ up /\ up' = FALSE
    /\ expiring' = {}
    /\ \/ UNCHANGED <<files, fileID, next, written>>
       \/ /\ writer /\ next <= MaxRecord /\ Rotated <= MaxFile
          /\ fileID' = Rotated
          /\ next' = next + 1
          /\ \E cell \in {next, Torn} :
               /\ files' = [Opened(Rotated) EXCEPT ![Rotated] = Append(@, cell)]
               /\ written' = IF cell = Torn THEN written ELSE Append(written, cell)
    /\ UNCHANGED <<writer, meta>>

-----------------------------------------------------------------------------
(* Loading *)

\* loadJournal: the cells of a file from seq on.
Cells(f) == IF f = meta.file THEN SubSeq(files[f], meta.seq + 1, Len(files[f])) ELSE files[f]

\* A cut record at the end looks like the end of the file; in front of other records the
\* checksum is wrong, or the records behind it are swallowed.
Readable(f) == \A k \in 1 .. Len(Cells(f)) - 1 : Cells(f)[k] # Torn

LoadedFiles == {f \in DOMAIN files : f >= meta.file}

\* LoadJournal: what the recovery function is called with, if nothing goes wrong.
LoadJournal ==
    SelectSeq(FlattenSeq([k \in 1 .. Cardinality(LoadedFiles) |->
                             Cells(SetToSortSeq(LoadedFiles, <)[k])]),
              LAMBDA cell : cell # Torn)

\* Fault: the first file of the directory is taken for the last.
Restart_FirstFile ==
    /\ ~ up /\ up' = TRUE
    /\ fileID' = CHOOSE f \in DOMAIN files : \A g \in DOMAIN files : f <= g
    /\ writer' = TRUE
    /\ UNCHANGED <<files, meta, expiring, next, written>>

\* newJournal in the directory that is left; the last file is continued.
Restart ==
    /\ ~ up /\ up' = TRUE
    /\ fileID' = CHOOSE f \in DOMAIN files : \A g \in DOMAIN files : g <= f
    /\ writer' = TRUE
    /\ UNCHANGED <<files, meta, expiring, next, written>>

Next ==
    \/ WriteSync
    \/ RotateTick
    \/ RotateFails
    \/ UpdateViewChange
    \/ \E f \in expiring : ExpireJournalFile(f)
    \/ Crash
    \/ Restart

Spec == Init /\ [][Next]_vars

-----------------------------------------------------------------------------
(* Properties *)

\* Shapes; the current file is the last one of the directory and was not deleted.
TypeOK ==
    /\ DOMAIN files \subseteq 1 .. MaxFile
    /\ \A f \in DOMAIN files : files[f] \in Seq(1 .. MaxRecord \cup {Torn})
    /\ up => fileID \in DOMAIN files /\ \A f \in DOMAIN files : f <= fileID
    /\ writer \in BOOLEAN /\ up \in BOOLEAN
    /\ meta = None \/ meta \in [file : 1 .. MaxFile, seq : Nat]
    /\ expiring \subseteq 1 .. MaxFile
    /\ next \in 1 .. MaxRecord + 1
    /\ written \in Seq(1 .. MaxRecord)

\* A file was continued behind a record that a crash had cut.
CutContinued == \E f \in DOMAIN files : \E k \in 1 .. Len(files[f]) - 1 : files[f][k] = Torn

\* "the next time the phoenixchain node restart, we will recovery the msg from this check
\* point" (ConfirmViewChange): whenever the process stops, loading succeeds and brings back
\* exactly the records written since the check point, in order, however files were begun
\* and deleted in between, and whether the last record was cut or not.  It ends when records
\* are written behind a cut one in the same file, which newJournal does not prevent.
LoadsSinceCheckPoint ==
    meta # None /\ ~ CutContinued =>
        (\A f \in LoadedFiles : Readable(f)) /\ LoadJournal = written
=============================================================================
