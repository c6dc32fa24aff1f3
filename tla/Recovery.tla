------------------------------- MODULE Recovery -------------------------------
(***************************************************************************)
(* What a validator keeps across a restart (consensus/pbft/wal_bridge.go,  *)
(* Pbft.Start, the result loop of ethereum/miner/worker.go).               *)
(*                                                                         *)
(* The engine and the worker that writes committed blocks run side by      *)
(* side; the engine hands over a block with eventMux.Post, which returns   *)
(* when the worker has taken it, and the worker reports errors through     *)
(* commitErrCh, which holds one.  The process may stop between any two     *)
(* steps.  Three things survive: the blockchain database, the chain state  *)
(* in the WAL database, and the journal behind its check point (WalJournal *)
(* shows that these are the records that come back).                       *)
(*                                                                         *)
(* The blocks a validator inserts form a path, so a block is its height    *)
(* here; cert gives the view of the certificate each was inserted with.    *)
(***************************************************************************)
EXTENDS Integers, Sequences, SequencesExt, FiniteSets

CONSTANTS
    None,
    Unexecuted,     \* blocks for which the worker may find no state in the cache
    MaxHeight, MaxView, MaxRuns     \* bounds: block numbers, views, starts of the process

VARIABLES
    runs,       \* how often the process was started
    status,     \* "up", "down" or, when Start returned an error, "failed"
    engine,     \* the consensus state, see Started
    offered,    \* the PbftResult the engine is posting, or None
    confirm,    \* what ConfirmViewChange has still to write: check point and record, record
    worker,     \* where resultLoop is: "idle", "taken", "updated" or "failed"
    result,     \* the PbftResult it holds
    commitErrCh,    \* whether there is an error in the channel
    disk,       \* number of blockChain.CurrentBlock
    wal,        \* ChainState: [commit, lock], or None
    journal,    \* records behind the check point, or None before the first one
    cert        \* views of the certificates of the inserted blocks

engineVars == <<engine, offered, confirm>>
workerVars == <<worker, result, commitErrCh>>
vars == <<runs, status, engine, offered, confirm, worker, result, commitErrCh, disk, wal, journal, cert>>

Height == 0 .. MaxHeight
View == 0 .. MaxView
VoteKind == {"SendPrepareVote", "SendPreCommit"}

\* The state Start leaves behind with block d at the head of the database: d is highest in
\* every respect, and its certificate ends its view.
Started(d) == [
    number |-> d + 1, view |-> 0,
    lock |-> d, commit |-> d,
    hadSend |-> [k \in VoteKind |-> <<0, 0>>],
    viewChange |-> FALSE]               \* the own ViewChange is in viewChanges

Init ==
    /\ runs = 1 /\ status = "up"
    /\ engine = Started(0)
    /\ offered = None /\ confirm = <<>>
    /\ worker = "idle" /\ result = None /\ commitErrCh = FALSE
    /\ disk = 0 /\ wal = None /\ journal = None
    /\ cert = [h \in Height |-> IF h = 0 THEN 0 ELSE None]

\* WriteSync; what precedes the first check point is never loaded.
Written(m) == IF journal = None THEN None ELSE Append(journal, m)

\* The engine's goroutine is at the select of receiveLoop.
Running == status = "up" /\ offered = None /\ confirm = <<>>

-----------------------------------------------------------------------------
(* The engine *)

HadSend(had, n, v) == had[1] > n \/ (had[1] = n /\ had[2] >= v)

\* trySendPrepareVote, trySendPreCommit: the journal first, then the network.
SendVote(kind) ==
    LET n == engine.number
        v == engine.view
    IN  /\ Running /\ n <= MaxHeight
        /\ ~ HadSend(engine.hadSend[kind], n, v)
        /\ engine' = [engine EXCEPT !.hadSend[kind] = <<n, v>>]
        /\ journal' = Written([type |-> kind, number |-> n, view |-> v])
        /\ UNCHANGED <<runs, status, offered, confirm, disk, wal, cert, workerVars>>

\* OnViewTimeout
SendViewChange ==
    /\ Running /\ ~ engine.viewChange
    /\ engine' = [engine EXCEPT !.viewChange = TRUE]
    /\ journal' = Written([type |-> "SendViewChange", number |-> engine.lock, view |-> engine.view])
    /\ UNCHANGED <<runs, status, offered, confirm, disk, wal, cert, workerVars>>

\* changeView; ConfirmViewChange follows in two steps.
ChangeView(e, v, qc) ==
    /\ engine' = [e EXCEPT !.view = v, !.viewChange = FALSE]
    /\ confirm' = <<"check point",
                    [type |-> "ConfirmedViewChange", number |-> e.lock, view |-> v, qc |-> qc]>>

UpdateViewChange ==
    /\ status = "up" /\ offered = None /\ Len(confirm) = 2
    /\ journal' = <<>>
    /\ confirm' = Tail(confirm)
    /\ UNCHANGED <<runs, status, engine, offered, disk, wal, cert, workerVars>>

WriteConfirmed ==
    /\ status = "up" /\ offered = None /\ Len(confirm) = 1
    /\ journal' = Written(confirm[1])
    /\ confirm' = <<>>
    /\ UNCHANGED <<runs, status, engine, offered, disk, wal, cert, workerVars>>

\* A ViewChangeQC leads to a later view of the same number.
NextView(v) ==
    /\ Running /\ v > engine.view
    /\ ChangeView(engine, v, TRUE)
    /\ UNCHANGED <<runs, status, offered, disk, wal, journal, cert, workerVars>>

\* insertQCBlock of the next block with a certificate of view v, tryAddStateBlockNumber and
\* tryChangeView: its parent is committed and posted to the worker; until Post returns
\* nothing else that can be seen happens.
InsertBlock(v) ==
    LET n == engine.number
        e == [engine EXCEPT !.number = n + 1, !.lock = n, !.commit = n - 1]
    IN  /\ Running /\ n <= MaxHeight
        /\ cert' = [cert EXCEPT ![n] = v]
        /\ ChangeView(e, 0, FALSE)
        /\ offered' = IF n - 1 = engine.commit + 1 THEN [commit |-> n - 1, lock |-> n] ELSE None
        /\ UNCHANGED <<runs, status, disk, wal, journal, workerVars>>

OnCommitError ==
    /\ Running /\ commitErrCh
    /\ commitErrCh' = FALSE
    /\ UNCHANGED <<runs, status, engineVars, worker, result, disk, wal, journal, cert>>

-----------------------------------------------------------------------------
(* The worker *)

\* Post returns when resultLoop has received the event.
TakeResult ==
    /\ status = "up" /\ worker = "idle" /\ offered # None
    /\ worker' = "taken" /\ result' = offered
    /\ offered' = None
    /\ UNCHANGED <<runs, status, engine, confirm, commitErrCh, disk, wal, journal, cert>>

\* The block is in the database already, or there is no state for it in the cache.
DropResult ==
    /\ status = "up" /\ worker = "taken"
    /\ result.commit \in Unexecuted \/ result.commit <= disk
    /\ worker' = "idle" /\ result' = None
    /\ UNCHANGED <<runs, status, engineVars, commitErrCh, disk, wal, journal, cert>>


\* ChainStateUpdateCB; an update that does not follow the stored one is ignored.
UpdateChainState ==
    /\ status = "up" /\ worker = "taken" /\ result.commit > disk
    /\ wal' = IF wal # None /\ result.commit \notin {wal.commit, wal.commit + 1} THEN wal ELSE result
    /\ worker' = "updated"
    /\ UNCHANGED <<runs, status, engineVars, result, commitErrCh, disk, journal, cert>>

\* WriteBlockWithState; a block whose parent is not in the database is an error.
WriteBlock ==
    /\ status = "up" /\ worker = "updated"
    /\ IF disk + 1 = result.commit
       THEN disk' = result.commit /\ worker' = "idle"
       ELSE disk' = disk /\ worker' = "failed"
    /\ result' = None
    /\ UNCHANGED <<runs, status, engineVars, commitErrCh, wal, journal, cert>>

\* SyncState <- err
ReportError ==
    /\ status = "up" /\ worker = "failed" /\ ~ commitErrCh
    /\ commitErrCh' = TRUE
    /\ worker' = "idle"
    /\ UNCHANGED <<runs, status, engineVars, result, disk, wal, journal, cert>>

-----------------------------------------------------------------------------
(* Stopping and starting *)

Crash ==
    /\ status = "up" /\ status' = "down"
    /\ engine' = Started(0) /\ offered' = None /\ confirm' = <<>>
    /\ worker' = "idle" /\ result' = None /\ commitErrCh' = FALSE
    /\ UNCHANGED <<runs, disk, wal, journal, cert>>

\* tryWalChangeView and the second half of walChangeView.
LaterRound(e, h, v) == h + 1 > e.number \/ (h + 1 = e.number /\ v > e.view)

tryWalChangeView(e, h, v) ==
    IF LaterRound(e, h, v) THEN [e EXCEPT !.view = v, !.viewChange = FALSE] ELSE e

\* Fault: the number stays.
recoveryChainStateProcess_NumberKept(e, h) == tryWalChangeView(e, h, cert[h])

\* recoveryChainStateProcess for the block at h: into the view of its certificate, the block
\* into the tree, on to the next number and to the view after.
recoveryChainStateProcess(e, h) ==
    LET e1 == tryWalChangeView(e, h, cert[h])
        e2 == IF h = e1.number THEN [e1 EXCEPT !.number = h + 1] ELSE e1
    IN  tryWalChangeView(e2, h, e2.view + 1)

\* recoveryChainState; the chain state and the database must fit.
Fits == wal # None => wal.commit \in {disk, disk + 1}

\* Fault: only the commit block is restored.
recoveryChainState_CommitOnly(e) ==
    IF wal = None \/ disk = wal.commit THEN e
    ELSE [recoveryChainStateProcess(e, wal.commit) EXCEPT !.commit = wal.commit, !.lock = wal.commit]

recoveryChainState(e) ==
    IF wal = None THEN e
    ELSE LET c == IF disk = wal.commit THEN e
                  ELSE [recoveryChainStateProcess(e, wal.commit) EXCEPT !.commit = wal.commit]
         IN  [recoveryChainStateProcess(c, wal.lock) EXCEPT !.lock = wal.lock]

\* shouldRecovery: neither a lower nor a higher view, and a block beyond the next one.
shouldRecovery(e, m) ==
    /\ m.number = e.number /\ m.view = e.view
    /\ m.number > e.lock + 1

\* recoveryMsg
recoveryMsg(e, m) ==
    CASE m.type = "ConfirmedViewChange" ->
           IF \/ m.qc /\ LaterRound(e, m.number, m.view)
              \/ ~ m.qc /\ m.number + 1 >= e.number /\ m.view >= e.view
           THEN [e EXCEPT !.view = m.view, !.viewChange = FALSE] ELSE e
      [] m.type = "SendViewChange" ->
           [e EXCEPT !.viewChange = @ \/ (m.number + 1 = e.number /\ m.view = e.view)]
      [] m.type \in VoteKind ->
           IF shouldRecovery(e, m) THEN [e EXCEPT !.hadSend[m.type] = <<m.number, m.view>>] ELSE e
      [] OTHER -> e


\* Start and LoadWal
Restart ==
    /\ status = "down" /\ runs < MaxRuns
    /\ runs' = runs + 1
    /\ IF Fits
       THEN /\ status' = "up"
            /\ engine' = FoldLeft(recoveryMsg, recoveryChainState(Started(disk)),
                                 IF journal = None THEN <<>> ELSE journal)
            /\ disk' = IF wal # None THEN wal.commit ELSE disk
       ELSE status' = "failed" /\ UNCHANGED <<engine, disk>>
    /\ UNCHANGED <<offered, confirm, wal, journal, cert, workerVars>>

Next ==
    \/ \E kind \in VoteKind : SendVote(kind)
    \/ SendViewChange
    \/ UpdateViewChange
    \/ WriteConfirmed
    \/ \E v \in View : NextView(v) \/ InsertBlock(v)
    \/ OnCommitError
    \/ TakeResult
    \/ DropResult
    \/ UpdateChainState
    \/ WriteBlock
    \/ ReportError
    \/ Crash
    \/ Restart

Spec == Init /\ [][Next]_vars

-----------------------------------------------------------------------------
(* Properties *)

Round == Height \X (0 .. MaxView + 1)
Record ==
    [type : VoteKind \cup {"SendViewChange"}, number : Nat, view : Nat] \cup
    [type : {"ConfirmedViewChange"}, number : Height, view : View, qc : BOOLEAN]
ChainState == {cs \in [commit : Height, lock : Height] : cs.lock = cs.commit + 1}

\* Shapes.  The highest block is one below the current number (changeView keeps blockNumber,
\* tryAddStateBlockNumber moves it) and at most one above the last committed one, in a
\* restarted validator as in one that never stopped.
TypeOK ==
    /\ runs \in 1 .. MaxRuns /\ status \in {"up", "down", "failed"}
    /\ engine \in [number : 1 .. MaxHeight + 1, view : 0 .. MaxView + 1, lock : Height,
                   commit : Height, hadSend : [VoteKind -> Round], viewChange : BOOLEAN]
    /\ engine.number = engine.lock + 1
    /\ engine.lock \in {engine.commit, engine.commit + 1}
    /\ offered \in ChainState \cup {None}
    /\ Len(confirm) \in 0 .. 2 /\ (confirm # <<>> => Last(confirm) \in Record)
    /\ worker \in {"idle", "taken", "updated", "failed"}
    /\ result \in ChainState \cup {None} /\ (result # None <=> worker \in {"taken", "updated"})
    /\ commitErrCh \in BOOLEAN
    /\ disk \in Height /\ wal \in ChainState \cup {None}
    /\ journal = None \/ journal \in Seq(Record)
    /\ cert \in [Height -> View \cup {None}]

\* "recovery chain state errror,non contiguous chain block state" (recoveryChainState) is
\* never the end of a start: wherever the process stopped between the engine's hand-over,
\* the chain state's write and the block's write, the two fit together again.
StartSucceeds == status # "failed"


\* A start brings back at least the lock and the commit of the stored chain state, a block
\* that was only in the chain state is in the database, and no step takes a block or a chain
\* state back.
ChainStateKept ==
    [][/\ disk' >= disk
       /\ wal # None => wal' # None /\ wal'.commit >= wal.commit
       /\ Restart /\ wal # None /\ status' = "up" =>
            engine'.lock >= wal.lock /\ engine'.commit >= wal.commit /\ disk' >= wal.commit]_vars

\* "if the msg does not belong to the current view or the msg number is smaller than the qc
\* number discard it" (shouldRecovery): the other votes are brought back, so a vote that is
\* in the journal behind the check point is not cast and written a second time.
VoteOnce ==
    journal # None => \A k, l \in 1 .. Len(journal) :
        journal[k].type \in VoteKind /\ journal[k] = journal[l] => k = l
=============================================================================
