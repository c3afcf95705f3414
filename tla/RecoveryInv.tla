---------------------------- MODULE RecoveryInv ----------------------------
(***************************************************************************)
(* The inductive invariant of Recovery.  The log is the truth: what it     *)
(* says of the rows and of the unfinished transactions up to an LSN is     *)
(* what its records do from the first one on, Full.  A restart reads only  *)
(* the records from the redo LSN on and takes the rest from an image.      *)
(***************************************************************************)
EXTENDS Recovery

Val == 0 .. LastUpd
Record ==
  [op : {"update"}, tr : Trans, row : Rows, old : Val, val : Val, begins : BOOLEAN]
  \cup [op : {"undo"}, tr : Trans, row : Rows, val : Val]
  \cup [op : {"commit", "abort"}, tr : Trans]
  \cup [op : {"begin"}, redo : Nat \ {0}]
  \cup [op : {"pages"}, pages : SUBSET Pages]

\* The rows and the records still to undo, after the log up to n.
Full(n) == Redone(Zero, 1, n)
Db(n) == Full(n).db
Stack(n) == Full(n).undo

\* The records t still has to undo.
Pending(n, t) == {Stack(n)[t][i] : i \in DOMAIN Stack(n)[t]}

Writes(k, r) == log[k].op \in {"update", "undo"} /\ log[k].row = r
Written(r, lo, hi) == \E k \in lo .. hi : Writes(k, r)

-----------------------------------------------------------------------------
(* The log and the history.                                                *)

\* What the writer of record n knew.
StepOK(n) ==
  LET l == log[n] IN
  /\ l.op = "update" =>
       /\ l.old = Db(n - 1)[l.row]
       /\ l.begins <=> Stack(n - 1)[l.tr] = <<>>
       /\ \A u \in Trans \ {l.tr} : \A k \in Pending(n - 1, u) : log[k].row # l.row
  /\ l.op = "undo" =>
       LET s == Stack(n - 1)[l.tr] IN
       s # <<>> /\ l.row = log[s[1]].row /\ l.val = log[s[1]].old
  /\ l.op = "abort" => Stack(n - 1)[l.tr] = <<>>
  /\ l.op = "begin" => l.redo <= n

\* The records that transactions have to undo: the last first, nobody another's row.
StackOK(n) ==
  /\ \A t \in Trans :
       /\ \A k \in Pending(n, t) : log[k].op = "update" /\ log[k].tr = t
       /\ \A i, j \in DOMAIN Stack(n)[t] : i < j => Stack(n)[t][j] < Stack(n)[t][i]
  /\ \A t, u \in Trans : t # u =>
       \A k \in Pending(n, t), l \in Pending(n, u) : log[k].row # log[l].row

LogInv ==
  /\ log \in Seq(Record) /\ history \in Seq([Rows -> Val])
  /\ \A n \in 1 .. Len(log) : StepOK(n)
  /\ \A n \in 0 .. Len(log) : StackOK(n)
  /\ \A n \in 1 .. Len(log) : history[Committed(n)] = Rolled(Full(n))

-----------------------------------------------------------------------------
(* The transactions and the memory.                                        *)

Changing(t, r) == wr[t].step \in {"log", "change"} /\ wr[t].row = r
AtWork(r) == \E t \in Trans : wr[t] # Idle /\ wr[t].row = r

\* The first LSN of each transaction, whether or not it is set already.
Fst == [t \in Trans |-> IF wr[t].step = "log" THEN wr[t].lsn ELSE first[t]]

\* Somebody has set the flag of page p and is to put it in a list.
LinkDue(p) == \E t \in Trans : wr[t].step = "link" /\ PageToMark(t) = p

\* The memory is what the log says, but for the changes that are logged and not made.
MemInv ==
  phase # "down" =>
    /\ undoNxt = Stack(Len(log))
    /\ \A r \in Rows :
         \/ \E t \in Trans : Changing(t, r) /\ wr[t].val = Db(Len(log))[r]
         \/ (\A t \in Trans : ~ Changing(t, r)) /\ mem[r] = Db(Len(log))[r]
    /\ \A t, u \in Trans : t # u /\ wr[t] # Idle /\ wr[u] # Idle => wr[t].row # wr[u].row

RunInv ==
  phase = "run" => \A t \in Trans :
    /\ status[t] = "idle" => Fst[t] = NoLSN /\ undoNxt[t] = <<>> /\ wr[t] = Idle
    /\ status[t] = "active" => undoNxt[t] # <<>>
    /\ status[t] # "idle" =>
         /\ Fst[t] # NoLSN /\ RedoLSN <= Fst[t]
         /\ Stack(Fst[t] - 1)[t] = <<>>
    /\ wr[t] # Idle => owner[wr[t].row] = t /\ Written(wr[t].row, Fst[t], Len(log))
    /\ wr[t].step = "log" => first[t] = NoLSN
    /\ \A k \in Pending(Len(log), t) : owner[log[k].row] = t

RestartInv ==
  phase # "run" =>
    /\ ck = CkIdle
    /\ owner = [r \in Rows |-> 0]
    /\ phase = "down" => synced = Len(log)
    /\ \A t \in Trans :
         /\ status[t] # "active"
         /\ status[t] = "idle" => Fst[t] = NoLSN /\ wr[t] = Idle
         /\ status[t] = "idle" /\ phase = "restart" => undoNxt[t] = <<>>
         /\ wr[t] # Idle => \A u \in Trans \ {t} : wr[u] = Idle
         /\ phase = "down" => status[t] = "idle"

-----------------------------------------------------------------------------
(* Images, dirty pages and the checkpoint.                                 *)

\* v will do for row r if the log is redone from lo on.
Covers(v, r, lo, hi) == Written(r, lo, hi) \/ v = Db(lo - 1)[r]

\* Who was at work at lo has ended, or undone everything, when the log gets to hi.
NobodyAcross(t, lo, hi) == \E k \in lo - 1 .. hi : Stack(k)[t] = <<>>

NotedIn(p, lo) == \E n \in lo .. synced : log[n].op = "pages" /\ p \in log[n].pages

\* What no PID log notes and no redo touches is the same everywhere on disk.
Same(r, begin, redo) ==
  \/ NotedIn(PageOf[r], begin)
  \/ Written(r, redo, synced)
  \/ img[0][r] = img[1][r] /\ file[r] = img[0][r]

BeginsAt(n, redo) == log[n].op = "begin" /\ log[n].redo = redo

AnchorInv ==
  /\ log[anchor.begin].op = "begin"
  /\ \A t \in Trans : NobodyAcross(t, RedoLSN, anchor.begin)
  /\ \A r \in Rows : Covers(img[anchor.current][r], r, RedoLSN, synced)
  /\ \A r \in Rows : Same(r, anchor.begin, RedoLSN)

Writing == ck.pc \in {"flag", "write", "switch"}

\* A page in no list: the images have what the memory has.  One that has been
\* written once: the image written last has it.
ListInv ==
  phase # "down" =>
    /\ \A p \in dirty : p \in listed \/ (p \in ck.todo /\ stat[p] = "flush") \/ LinkDue(p)
    /\ \A r \in Rows :
         LET p == PageOf[r] IN
         p \notin listed /\ p \notin dirty /\ ~ LinkDue(p) /\ ~ AtWork(r) =>
           /\ stat[p] = "init" => img[anchor.current][r] = mem[r] /\ file[r] = mem[r]
           /\ stat[p] = "remove" =>
                IF Writing /\ p \notin ck.todo \cup ck.page
                THEN file[r] = mem[r] ELSE img[anchor.current][r] = mem[r]

CkTypeOK ==
  /\ ck \in [pc : {"idle", "scan", "begin", "move", "flag", "write", "switch", "anchor"},
             redo : Nat, begin : Nat, scan : SUBSET Trans, todo : SUBSET Pages, page : SUBSET Pages]
  /\ ck.pc = "write" => ck.page # {}
  /\ ck.pc # "write" => ck.page = {}
  /\ ck.todo \cap ck.page = {}
  /\ ck.pc # "scan" => ck.scan = {}
  /\ ck.pc \notin {"flag", "write"} => ck.todo = {}
  /\ ck.pc = "idle" => ck = CkIdle

CkInv ==
  /\ ck.pc # "idle" =>
       /\ phase = "run"
       /\ ck.redo \in RedoLSN .. Len(log) + 1
       /\ \A t \in Trans \ ck.scan : Fst[t] = NoLSN \/ ck.redo <= Fst[t]
  /\ ck.pc \in {"scan", "begin"} =>
       \A t \in Trans \ ck.scan : NobodyAcross(t, ck.redo, Len(log))
  /\ ck.pc \in {"move", "flag", "write", "switch", "anchor"} =>
       /\ ck.begin \in anchor.begin + 1 .. Len(log) /\ BeginsAt(ck.begin, ck.redo)
       /\ \A t \in Trans : NobodyAcross(t, ck.redo, ck.begin)
  /\ ck.pc \in {"flag", "write", "switch", "anchor"} =>
       /\ ck.begin <= synced
       /\ \A r \in Rows : Same(r, ck.begin, ck.redo)
       /\ \A p \in ck.todo \cup ck.page : NotedIn(p, ck.begin) /\ stat[p] # "init"
  /\ ck.pc \in {"flag", "write"} =>
       \A r \in Rows : \/ PageOf[r] \in ck.todo \cup ck.page
                       \/ Covers(file[r], r, ck.redo, Len(log))
  /\ ck.pc = "switch" => \A r \in Rows : Covers(file[r], r, ck.redo, synced)
  /\ ck.pc = "anchor" => \A r \in Rows : Covers(img[anchor.current][r], r, ck.redo, synced)
  /\ ck.pc \notin {"flag", "write"} => file = img[Other]

RecInv ==
  /\ RecTypeOK /\ upd \in 0 .. LastUpd
  /\ LogInv /\ MemInv /\ RunInv /\ RestartInv
  /\ AnchorInv /\ ListInv /\ CkTypeOK /\ CkInv
=============================================================================
