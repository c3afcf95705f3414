------------------------------ MODULE Recovery ------------------------------
(***************************************************************************)
(* Log, checkpoint and restart recovery of the memory tablespaces.  A      *)
(* change is logged, its LSN noted in the transaction, the page changed in *)
(* memory and put in the list of dirty pages, if its flag is not set yet.  *)
(* A checkpoint writes dirty pages to the older of the two images each     *)
(* tablespace has on disk, whatever transactions do meanwhile, makes that  *)
(* image the current one and moves the LSN from which a restart redoes the *)
(* log.  A page has to be written twice, to each image once, before it is  *)
(* clean.  A crash loses the memory, the log behind the last sync and some *)
(* of the page writes that are not synced.  The restart loads the current  *)
(* image, redoes the log and rolls back unfinished transactions.           *)
(*                                                                         *)
(* An LSN is an index of the log.  A row stands for the values of a record *)
(* and its lock for the versions by which writers exclude each other.      *)
(***************************************************************************)
EXTENDS Integers, Sequences, FiniteSets

CONSTANTS
  Trans,        \* transaction slots
  Rows, Pages,
  PageOf,       \* the page of each row
  LastUpd, LastChkpt, LastCrash   \* bounds

ASSUME RecoveryAssumption ==
  /\ 0 \notin Trans
  /\ PageOf \in [Rows -> Pages]
  /\ {LastUpd, LastChkpt, LastCrash} \subseteq Nat

Zero == [r \in Rows |-> 0]
NoLSN == 0

VARIABLES
  log,      \* the log, in the log buffers and on disk
  synced,   \* last LSN on disk
  acked,    \* last LSN of a commit reported as durable
  mem,      \* the rows in memory
  dirty,    \* pages with m_dirty set
  listed,   \* pages in the list of smmDirtyPageMgr
  stat,     \* m_dirtyStat of the pages in the list of smrDirtyPageList
  img,      \* the two images on disk
  file,     \* the older image as the operating system has it
  anchor,   \* log anchor: the current image, LSN of the begin checkpoint log
  status,   \* of transactions
  first,    \* mFstUndoNxtLSN
  undoNxt,  \* records each still has to undo, the last first (mLstUndoNxtLSN)
  owner,    \* writer of each row
  wr,       \* the change a transaction is making: how far it is, its record
  ck,       \* the checkpoint thread
  phase,    \* of the server
  history,  \* what the users have committed so far, for the properties
  missed,   \* the places at which a checkpoint has missed a writer, for the properties
  upd, chkpts, crashes   \* counters, for the bounds

logVars == <<log, synced>>
pageVars == <<mem, dirty, listed>>
diskVars == <<img, file, anchor>>
transVars == <<status, first, undoNxt, owner, wr>>
bounds == <<upd, chkpts, crashes>>
recVars ==
  <<log, synced, acked, pageVars, stat, diskVars, transVars, ck, phase, history, missed, bounds>>

Other == 1 - anchor.current
Idle == [step |-> "none"]
CkIdle == [pc |-> "idle", redo |-> NoLSN, begin |-> NoLSN, scan |-> {}, todo |-> {}, page |-> {}]
Latest == history[Len(history)]

RecInit ==
  /\ log = <<[op |-> "begin", redo |-> 1]>>
  /\ synced = 1
  /\ acked = NoLSN
  /\ mem = Zero
  /\ dirty = {} /\ listed = {}
  /\ stat = [p \in Pages |-> "init"]
  /\ img = [i \in {0, 1} |-> Zero]
  /\ file = Zero
  /\ anchor = [current |-> 0, begin |-> 1]
  /\ status = [t \in Trans |-> "idle"]
  /\ first = [t \in Trans |-> NoLSN]
  /\ undoNxt = [t \in Trans |-> <<>>]
  /\ owner = [r \in Rows |-> 0]
  /\ wr = [t \in Trans |-> Idle]
  /\ ck = CkIdle
  /\ phase = "run"
  /\ history = <<Zero>> /\ missed = {}
  /\ upd = 0 /\ chkpts = 0 /\ crashes = 0

(***************************************************************************)
(* What a sequence of log records does to the rows, and which of them each *)
(* transaction still has to undo.                                          *)
(***************************************************************************)

\* A transaction of which the redo does not see the first record is taken for a
\* committed one (addActiveTrans).
Apply(acc, n) ==
  LET l == log[n] IN
  CASE l.op = "update" -> [acc EXCEPT !.db[l.row] = l.val,
                                      !.undo[l.tr] = IF l.begins \/ @ # <<>> THEN <<n>> \o @ ELSE @]
    [] l.op = "undo" -> [acc EXCEPT !.db[l.row] = l.val,
                                    !.undo[l.tr] = IF @ = <<>> THEN @ ELSE Tail(@)]
    [] l.op \in {"commit", "abort"} -> [acc EXCEPT !.undo[l.tr] = <<>>]
    [] OTHER -> acc

\* The log from lo to hi, applied to db.
Redone(db, lo, hi) ==
  LET acc[n \in lo - 1 .. hi] ==
        IF n < lo THEN [db |-> db, undo |-> [t \in Trans |-> <<>>]] ELSE Apply(acc[n - 1], n)
  IN  acc[hi]

RedoLSN == log[anchor.begin].redo

(***************************************************************************)
(* Transactions.                                                           *)
(***************************************************************************)

\* lockAndWriteLog: a record goes into the log.  What is left to undo only the
\* transaction itself asks; others ask its first LSN, which is set, if it is to be, in
\* a step of its own.
Logged(t, rec, undo) ==
  /\ log' = Append(log, rec)
  /\ undoNxt' = [undoNxt EXCEPT ![t] = undo]
  /\ wr' = [wr EXCEPT ![t] = [step |-> IF first[t] = NoLSN THEN "log" ELSE "change",
                              row |-> rec.row, val |-> rec.val, lsn |-> Len(log) + 1]]

Update(t, r) ==
  /\ phase = "run" /\ upd < LastUpd
  /\ status[t] \in {"idle", "active"} /\ wr[t] = Idle
  /\ owner[r] \in {0, t}
  /\ owner' = [owner EXCEPT ![r] = t]
  /\ status' = [status EXCEPT ![t] = "active"]
  /\ upd' = upd + 1
  /\ Logged(t, [op |-> "update", tr |-> t, row |-> r, old |-> mem[r], val |-> upd + 1,
                begins |-> first[t] = NoLSN],
            <<Len(log) + 1>> \o undoNxt[t])
  /\ UNCHANGED <<synced, acked, pageVars, stat, diskVars, first, ck, phase, history, missed, chkpts,
                 crashes>>

\* The mutex of the log is released by now.
SetLstUndoNxtLSN(t) ==
  /\ wr[t].step = "log"
  /\ first' = [first EXCEPT ![t] = wr[t].lsn]
  /\ wr' = [wr EXCEPT ![t].step = "change"]
  /\ UNCHANGED <<logVars, acked, pageVars, stat, diskVars, status, owner, undoNxt, ck, phase, history,
                 missed, bounds>>

ChangeRow(t) ==
  /\ wr[t].step = "change"
  /\ mem' = [mem EXCEPT ![wr[t].row] = wr[t].val]
  /\ wr' = [wr EXCEPT ![t].step = "test"]
  /\ UNCHANGED <<logVars, acked, dirty, listed, stat, diskVars, status, first, owner, undoNxt, ck, phase,
                 history, missed, bounds>>

\* insDirtyPage reads m_dirty and sets it without a lock, then links the page under
\* the mutex of a list.  Who finds the flag set leaves the page to others.
PageToMark(t) == PageOf[wr[t].row]

TestDirty(t) ==
  /\ wr[t].step = "test"
  /\ wr' = [wr EXCEPT ![t] = IF PageToMark(t) \in dirty THEN Idle ELSE [@ EXCEPT !.step = "set"]]
  /\ UNCHANGED <<logVars, acked, pageVars, stat, diskVars, status, first, owner, undoNxt, ck, phase,
                 history, missed, bounds>>

SetDirty(t) ==
  /\ wr[t].step = "set"
  /\ dirty' = dirty \cup {PageToMark(t)}
  /\ wr' = [wr EXCEPT ![t].step = "link"]
  /\ UNCHANGED <<logVars, acked, mem, listed, stat, diskVars, status, first, owner, undoNxt, ck, phase,
                 history, missed, bounds>>

AddDirtyPage(t) ==
  /\ wr[t].step = "link"
  /\ listed' = listed \cup {PageToMark(t)}
  /\ wr' = [wr EXCEPT ![t] = Idle]
  /\ UNCHANGED <<logVars, acked, mem, dirty, stat, diskVars, status, first, owner, undoNxt, ck, phase,
                 history, missed, bounds>>

InsDirtyPage(t) == TestDirty(t) \/ SetDirty(t) \/ AddDirtyPage(t)

\* The end of a transaction, whose rows others may change from then on.
EndTrans(t) ==
  /\ status' = [status EXCEPT ![t] = "idle"]
  /\ first' = [first EXCEPT ![t] = NoLSN]
  /\ undoNxt' = [undoNxt EXCEPT ![t] = <<>>]
  /\ owner' = [r \in Rows |-> IF owner[r] = t THEN 0 ELSE owner[r]]
  /\ UNCHANGED <<wr, pageVars, stat, diskVars, ck, phase, missed, bounds>>

\* Mutant of Synced: a commit that waits returns before the log is on disk.
SyncedNot(wait) == synced

Synced(wait) == IF wait THEN Len(log) + 1 ELSE synced

\* writeCommitLog and flushLog, which has the log synced or does not wait for it
\* (COMMIT_WRITE_WAIT_MODE, set for each transaction).  What the log flush thread
\* syncs by itself is what Crash leaves of the log.
Commit(t, wait) ==
  /\ status[t] = "active" /\ wr[t] = Idle
  /\ log' = Append(log, [op |-> "commit", tr |-> t])
  /\ synced' = Synced(wait)
  /\ acked' = IF wait THEN Len(log') ELSE acked
  /\ history' = Append(history, [r \in Rows |-> IF owner[r] = t THEN mem[r] ELSE Latest[r]])
  /\ EndTrans(t)

\* undoTrans and, over all transactions, undoAll, which takes the latest record
\* of all; undo logs the compensation, then changes the page.
Undo(t) ==
  /\ status[t] \in {"active", "rollback"} /\ wr[t] = Idle
  /\ undoNxt[t] # <<>>
  /\ phase = "restart" =>
       \A u \in Trans : wr[u] = Idle /\ (undoNxt[u] # <<>> => undoNxt[u][1] <= undoNxt[t][1])
  /\ status' = [status EXCEPT ![t] = "rollback"]
  /\ LET l == log[undoNxt[t][1]]
     IN  Logged(t, [op |-> "undo", tr |-> t, row |-> l.row, val |-> l.old], Tail(undoNxt[t]))
  /\ UNCHANGED <<synced, acked, pageVars, stat, diskVars, first, owner, ck, phase, history, missed,
                 bounds>>

\* The restart writes the abort logs when everything is undone.
Abort(t) ==
  /\ status[t] = "rollback"
  /\ \A u \in Trans : u = t \/ phase = "restart" => undoNxt[u] = <<>> /\ wr[u] = Idle
  /\ log' = Append(log, [op |-> "abort", tr |-> t])
  /\ EndTrans(t)
  /\ UNCHANGED <<synced, acked, history>>

User(t) ==
  \/ \E r \in Rows : Update(t, r)
  \/ SetLstUndoNxtLSN(t) \/ ChangeRow(t) \/ InsDirtyPage(t) \/ Undo(t) \/ Abort(t)
  \/ \E wait \in BOOLEAN : Commit(t, wait)

(***************************************************************************)
(* The checkpoint thread.                                                  *)
(***************************************************************************)

At(pc) ==
  /\ phase = "run" /\ ck.pc = pc
  /\ UNCHANGED <<acked, mem, transVars, phase, history, upd, crashes>>
Goto(pc) == ck' = [ck EXCEPT !.pc = pc]

\* chkptCalcRedoLSN: the end of the log; then the transactions one by one, without
\* stopping them (getMinLSNOfAllActiveTrans; nothing tells one slot from another, so
\* the slots stand here in any order).
CalcRedoLSN ==
  /\ At("idle") /\ chkpts < LastChkpt
  /\ chkpts' = chkpts + 1
  /\ ck' = [ck EXCEPT !.pc = "scan", !.redo = Len(log) + 1, !.scan = Trans]
  /\ UNCHANGED <<logVars, dirty, listed, stat, diskVars, missed>>

\* Mutant of MinLSN: transactions still at work are not looked at.
MinLSNEnd(t) == ck.redo

\* Mutant of MinLSN: the LSN of the last transaction instead of the smallest.
MinLSNLast(t) == IF first[t] # NoLSN THEN first[t] ELSE ck.redo

MinLSN(t) == IF first[t] # NoLSN /\ first[t] < ck.redo THEN first[t] ELSE ck.redo

\* The scan reads the slot of a transaction whose first record is in the log, before
\* the redo LSN as it is so far, and does not find the LSN there.
MissesFirst(t) == wr[t].step = "log" /\ wr[t].lsn < ck.redo

ScanTrans(t) ==
  /\ At("scan") /\ t \in ck.scan
  /\ missed' = IF MissesFirst(t) THEN missed \cup {"first"} ELSE missed
  /\ ck' = [ck EXCEPT !.pc = IF ck.scan = {t} THEN "begin" ELSE "scan",
                      !.scan = @ \ {t}, !.redo = MinLSN(t)]
  /\ UNCHANGED <<logVars, dirty, listed, stat, diskVars, chkpts>>

WriteBeginChkptLog ==
  /\ At("begin")
  /\ log' = Append(log, [op |-> "begin", redo |-> ck.redo])
  /\ ck' = [ck EXCEPT !.pc = "move", !.begin = Len(log) + 1]
  /\ UNCHANGED <<synced, dirty, listed, stat, diskVars, missed, chkpts>>

\* moveDirtyPagesFrom, add, and the PID logs, which are synced: what other threads
\* do between these makes no difference.
Moved == [p \in Pages |-> IF p \in listed THEN "flush" ELSE stat[p]]
Chain(st) == {p \in Pages : st[p] # "init"}

\* A page has its flag, so that writers pass it by, and is not in a list.
MissesPage == \E t \in Trans : wr[t].step = "link" /\ PageToMark(t) \notin Chain(Moved)

MoveDirtyPages ==
  /\ At("move")
  /\ stat' = Moved
  /\ listed' = {}
  /\ log' = Append(log, [op |-> "pages", pages |-> Chain(Moved)])
  /\ synced' = Len(log) + 1
  /\ ck' = [ck EXCEPT !.pc = "flag", !.todo = Chain(Moved)]
  /\ missed' = IF MissesPage THEN missed \cup {"page"} ELSE missed
  /\ UNCHANGED <<dirty, diskVars, chkpts>>

\* writeDirtyPages: m_dirty is taken back before the page is written.
ClearDirty(p) ==
  /\ At("flag") /\ p \in ck.todo
  /\ dirty' = dirty \ {p}
  /\ ck' = [ck EXCEPT !.pc = "write", !.todo = @ \ {p}, !.page = {p}]
  /\ UNCHANGED <<logVars, listed, stat, diskVars, missed, chkpts>>

\* Mutant of WrittenStat: a page written once is clean.
WrittenStatOnce(p) == "init"

\* The chain keeps a page until it has been written twice.
WrittenStat(p) == IF stat[p] = "remove" THEN "init" ELSE "remove"

WritePage(p) ==
  /\ At("write") /\ ck.page = {p}
  /\ file' = [r \in Rows |-> IF PageOf[r] = p THEN mem[r] ELSE file[r]]
  /\ stat' = [stat EXCEPT ![p] = WrittenStat(p)]
  /\ ck' = [ck EXCEPT !.pc = "flag", !.page = {}]
  /\ UNCHANGED <<logVars, dirty, listed, img, anchor, missed, chkpts>>

\* syncDB, then the sync of the log up to the end checkpoint log (which the redo
\* passes over, so that it is left out here).
SyncDB ==
  /\ At("flag") /\ ck.todo = {} /\ Goto("switch")
  /\ img' = [img EXCEPT ![Other] = file]
  /\ synced' = Len(log)
  /\ UNCHANGED <<log, dirty, listed, stat, file, anchor, missed, chkpts>>

\* updateStableNoOfAllMemTBSAndFlush; the older image is now the other one.
SwitchImage ==
  /\ At("switch") /\ Goto("anchor")
  /\ anchor' = [anchor EXCEPT !.current = Other]
  /\ file' = img[anchor.current]
  /\ UNCHANGED <<logVars, dirty, listed, stat, img, missed, chkpts>>

\* updateChkptAndFlush; then log files before the redo LSN may be removed.
UpdateChkpt ==
  /\ At("anchor")
  /\ anchor' = [anchor EXCEPT !.begin = ck.begin]
  /\ ck' = CkIdle
  /\ UNCHANGED <<logVars, dirty, listed, stat, img, file, missed, chkpts>>

Checkpoint ==
  \/ CalcRedoLSN \/ (\E t \in Trans : ScanTrans(t)) \/ WriteBeginChkptLog \/ MoveDirtyPages
  \/ (\E p \in Pages : ClearDirty(p) \/ WritePage(p))
  \/ SyncDB \/ SwitchImage \/ UpdateChkpt

(***************************************************************************)
(* Crash and restart.                                                      *)
(***************************************************************************)

\* How many states are committed by the log up to n, the first one included.
Committed(n) == 1 + Cardinality({i \in 1 .. n : log[i].op = "commit"})

Crash ==
  /\ phase # "down" /\ crashes < LastCrash
  /\ crashes' = crashes + 1
  /\ phase' = "down"
  /\ \E n \in synced .. Len(log) :
       /\ log' = SubSeq(log, 1, n) /\ synced' = n
       /\ history' = SubSeq(history, 1, Committed(n))
  /\ \E W \in SUBSET Pages :
       LET left == [r \in Rows |-> IF PageOf[r] \in W THEN file[r] ELSE img[Other][r]]
       IN  img' = [img EXCEPT ![Other] = left] /\ file' = left
  /\ mem' = Zero /\ dirty' = {} /\ listed' = {}
  /\ stat' = [p \in Pages |-> "init"]
  /\ status' = [t \in Trans |-> "idle"]
  /\ first' = [t \in Trans |-> NoLSN]
  /\ undoNxt' = [t \in Trans |-> <<>>]
  /\ owner' = [r \in Rows |-> 0]
  /\ wr' = [t \in Trans |-> Idle]
  /\ ck' = CkIdle
  /\ chkpts' = 0
  /\ UNCHANGED <<acked, anchor, missed, upd>>

\* Pages of the records redone.
Touched == {PageOf[log[n].row] : n \in {m \in RedoLSN .. Len(log) : log[m].op \in {"update", "undo"}}}

\* Mutant of Noted: PID logs mean nothing to the redo.
NotedNone == {}

\* Pages of the PID logs of the last checkpoint, which may be in one image only.
Noted == UNION {log[n].pages : n \in {m \in anchor.begin .. Len(log) : log[m].op = "pages"}}

\* redoAll, and the list of the transactions without an end, with their first LSNs.
RedoAll ==
  LET acc == Redone(img[anchor.current], RedoLSN, Len(log)) IN
  /\ phase = "down"
  /\ phase' = "restart"
  /\ mem' = acc.db
  /\ dirty' = Touched /\ listed' = Touched
  /\ stat' = [p \in Pages |-> IF p \in Noted THEN "flush" ELSE "init"]
  /\ undoNxt' = acc.undo
  /\ status' = [t \in Trans |-> IF acc.undo[t] # <<>> THEN "rollback" ELSE "idle"]
  /\ first' = [t \in Trans |-> IF acc.undo[t] # <<>> THEN acc.undo[t][Len(acc.undo[t])] ELSE NoLSN]
  /\ UNCHANGED <<logVars, acked, diskVars, owner, wr, ck, history, missed, bounds>>

\* Mutant of Undone: service begins while unfinished transactions are being undone.
UndoneNot == TRUE

Undone == \A t \in Trans : status[t] = "idle"

EndRestart ==
  /\ phase = "restart" /\ Undone
  /\ phase' = "run"
  /\ UNCHANGED <<logVars, acked, pageVars, stat, diskVars, transVars, ck, history, missed, bounds>>

RecNext == (\E t \in Trans : User(t)) \/ Checkpoint \/ Crash \/ RedoAll \/ EndRestart

RecSpec == RecInit /\ [][RecNext]_recVars

\* The two ways to SKIP_REMOVE_LOGFILE: an online redo of the disk tablespaces is
\* under way, or replication does not say which log files it needs (BUG-40294).
\* The anchor gets the new LSNs, the stable image stays the old one.
SkipRemoveLogFile ==
  /\ At("switch") /\ Goto("anchor")
  /\ UNCHANGED <<logVars, dirty, listed, stat, diskVars, missed, chkpts>>

SkipSpec == RecInit /\ [][RecNext \/ SkipRemoveLogFile]_recVars

(***************************************************************************)
(* Properties.                                                             *)
(***************************************************************************)

\* Every variable keeps its type.
RecTypeOK ==
  /\ synced \in 1 .. Len(log) /\ acked \in 0 .. synced
  /\ mem \in [Rows -> 0 .. LastUpd] /\ file \in [Rows -> 0 .. LastUpd]
  /\ dirty \subseteq Pages /\ listed \subseteq Pages
  /\ stat \in [Pages -> {"init", "flush", "remove"}]
  /\ img \in [{0, 1} -> [Rows -> 0 .. LastUpd]]
  /\ anchor \in [current : {0, 1}, begin : 1 .. synced]
  /\ status \in [Trans -> {"idle", "active", "rollback"}]
  /\ first \in [Trans -> 0 .. Len(log)]
  /\ owner \in [Rows -> {0} \cup Trans]
  /\ undoNxt \in [Trans -> Seq(1 .. Len(log))]
  /\ wr \in [Trans -> {Idle} \cup [step : {"log", "change", "test", "set", "link"}, row : Rows,
                                   val : 0 .. LastUpd, lsn : 1 .. Len(log)]]
  /\ Len(history) = Committed(Len(log))
  /\ phase \in {"run", "restart", "down"}

\* The rows with the changes of unfinished transactions undone.
Rolled(acc) ==
  [r \in Rows |->
     LET pending == {n \in UNION {{acc.undo[t][i] : i \in DOMAIN acc.undo[t]} : t \in Trans} :
                       log[n].row = r}
     IN  IF pending = {} THEN acc.db[r]
         ELSE log[CHOOSE n \in pending : \A m \in pending : n <= m].old]

\* Whatever of the log behind the last sync is lost: the current image, redone from
\* the redo LSN of the anchor, with the unfinished transactions rolled back, is the
\* state committed by what is left of the log.
RestartsRight ==
  \A n \in synced .. Len(log) :
    Rolled(Redone(img[anchor.current], RedoLSN, n)) = history[Committed(n)]

\* Whenever the server dies, in whatever step of a checkpoint, it restarts right
\* (chkptCalcRedoLSN, redoAll, undoAll), if no checkpoint has missed a writer: these
\* two windows are the only ones.
RecoverySound == missed = {} => RestartsRight

\* The redo LSN is that of the oldest record of a transaction under way, or the end of
\* the log (comment at smrRecoveryMgr.cpp:7177), so that a restart goes right whenever
\* no page was missed.  It does not: see README, findings.
OldestRecordRedone == missed \subseteq {"first"} => RestartsRight

\* insDirtyPage puts the changed page in the list of dirty pages (comment at
\* smmDirtyPageMgr.cpp:149), so that a restart goes right whenever no first record was
\* missed.  It does not: see README, findings.
ChangedPagesListed == missed \subseteq {"page"} => RestartsRight

\* What no list will bring to the images any more is in both of them: a page leaves
\* the lists only after it has been written to each (writeDirtyPages), and a restart
\* puts those back which a crash has left in one of them (SMR_LT_DIRTY_PAGE).
BothImagesCovered ==
  missed = {} /\ phase = "run" /\ ck.pc = "idle" =>
    \A r \in Rows :
      \/ PageOf[r] \in listed \cup Chain(stat)
      \/ \E t \in Trans : wr[t] # Idle /\ PageToMark(t) = PageOf[r]
      \/ \A i \in {0, 1} : img[i][r] = mem[r]

\* The log before the redo LSN, which a checkpoint allows to be removed
\* (updateChkptAndFlush), is never needed again: the redo LSN does not go back, unless
\* a checkpoint has missed a first record, which the next one finds.
RedoGoesOn == [][missed' = {} => RedoLSN' >= RedoLSN]_recVars

\* Of a row that is being changed, readers get the version before.
Shown == [r \in Rows |-> IF owner[r] # 0 THEN Latest[r] ELSE mem[r]]

Store == INSTANCE DurableStore WITH
  acked <- Committed(acked),
  view <- IF phase = "run" THEN {Shown} ELSE {}

\* Log, checkpoints and restart keep the promise of DurableStore as long as no
\* checkpoint has missed a writer: what was acknowledged survives any crash, and what
\* the store serves after the restart, while others go on changing it, is the last
\* committed state.
ImplementsDurableStore == Store!Init /\ [][missed' = {} => Store!Next]_(Store!vars)
=============================================================================
