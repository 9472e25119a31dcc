------------------------------ MODULE LogTail ------------------------------
(***************************************************************************)
(* The reader of Postfix's log (activity/log-tail.ts, LogTailer) and what  *)
(* happens around it: Postfix appends, the container rotates the log       *)
(* (postfix-ctl.sh, rotate_log), somebody may empty it, and the app is     *)
(* stopped (index.ts, shutdown) or dies at any step.                       *)
(*                                                                         *)
(* Abstracted: a line is two units long, so that a read or a write may end *)
(* in the middle of one; lines are numbered as they are written; a file    *)
(* holds the lines base + 1 .. base + len. Where CHUNK ends and whether    *)
(* SAVE_MS have passed are nondeterministic. An inode number is not used   *)
(* again. A fragment handed to onLine counts as no line.                   *)
(***************************************************************************)
EXTENDS Naturals

CONSTANTS Inodes,
          MaxLines,      \* bound: lines written
          MaxRotations,  \* bound: rotations
          MaxCuts,       \* bound: truncations
          MaxEnds,       \* bound: stops and crashes of the app
          Nil, Closed

ASSUME SomeInode == Inodes # {}
ASSUME NoInode == Nil \notin Inodes /\ Closed \notin Inodes /\ Nil # Closed
ASSUME NoRecord == Nil \notin [base : Nat, len : Nat] \cup [ino : Inodes, pos : Nat]
ASSUME TailBounds == {MaxLines, MaxRotations, MaxCuts, MaxEnds} \subseteq Nat

VARIABLES
  file,      \* file[i]: what inode i holds; Nil: no such file
  path,      \* the inode under the log's name, or Nil
  log,       \* the inode Postfix writes to
  torn,      \* 1 while the last line of the log is half-written
  count,     \* lines written so far
  saved,     \* app_settings: the inode and position of the last save, or Nil
  at,        \* the step of the tick in progress
  fh, ino, pos, part, savedPos,   \* the LogTailer's fields (part: length of partial)
  st, resume, goal,               \* locals of tick: the stat, where to open, drain for what
  next, last,                     \* locals of drain: the lines in hand, read and not handled yet
  broken,                         \* the first of them lacks its beginning
  stopping,  \* "no", or how far stop() has come
  base, savedBase,  \* history: the base of the contents that pos, saved.pos were measured in
  clean,     \* history: stop() found no tick in progress, and has its file on record
  handled,   \* history: handled[l]: how often line l went through onLine
  gaps,      \* history: lines lost to a rotation, a truncation or a failing onLine
  cutOff,    \* history: lines that stop() found read but not handled
  again,     \* history: lines that an unclean end, a misopened file or a failed loadState() may repeat
  rotations, cuts, ends

files == <<file, path, log, torn, count>>
handle == <<fh, ino, base>>
record == <<saved, savedPos, savedBase>>
tail == <<handle, pos, part, record>>
chunk == <<next, last, broken>>
plan == <<st, resume, goal>>
ending == <<stopping, clean, ends>>
lineHistory == <<handled, gaps, cutOff, again>>
limits == <<rotations, cuts>>
tailVars == <<files, at, tail, plan, chunk, ending, lineHistory, limits>>

Lines == 1 .. MaxLines
File == [base : Nat, len : Nat]
Place == [ino : Inodes, pos : Nat]

Size(i) == 2 * file[i].len - (IF i = log THEN torn ELSE 0)
LinesOf(i) == {l \in Lines : file[i].base < l /\ l <= file[i].base + file[i].len}
Handled == {l \in Lines : handled[l] > 0}
Unread(i) == LinesOf(i) \ Handled
\* The lines of inode i that begin before position p.
Before(i, p) == {l \in LinesOf(i) : 2 * (l - file[i].base) - 1 <= p}
\* The lines that only the handle the app holds can still reach, if any.
OnlyHeld == IF fh \in {Nil, Closed, path} THEN {} ELSE Unread(fh)
Done == pos - part   \* the end of the last line read whole

FirstInode == CHOOSE i \in Inodes : TRUE

TailInit ==
  /\ path = FirstInode /\ log = FirstInode
  /\ file = [i \in Inodes |-> IF i = FirstInode THEN [base |-> 0, len |-> 0] ELSE Nil]
  /\ torn = 0 /\ count = 0 /\ saved = Nil /\ savedBase = 0
  /\ at = "off" /\ fh = Nil /\ ino = Nil /\ base = 0
  /\ pos = 0 /\ part = 0 /\ savedPos = Nil
  /\ st = Nil /\ resume = 0 /\ goal = "save" /\ next = 1 /\ last = 0 /\ broken = FALSE
  /\ stopping = "no" /\ clean = FALSE
  /\ handled = [l \in Lines |-> 0] /\ gaps = {} /\ cutOff = {} /\ again = {}
  /\ rotations = 0 /\ cuts = 0 /\ ends = 0

-----------------------------------------------------------------------------
(* Around the app.                                                          *)

\* Renamed, the log is written to until Postfix opens a new one; only a handle
\* that the app holds, and keeps, still reaches it.
WriteHalf ==
  /\ torn = 0 /\ count < MaxLines
  /\ file' = [file EXCEPT ![log].len = @ + 1]
  /\ torn' = 1
  /\ count' = count + 1
  /\ gaps' = IF path # log /\ (fh # log \/ stopping # "no") THEN gaps \cup {count'} ELSE gaps
  /\ UNCHANGED <<path, log, at, tail, plan, chunk, ending, handled, cutOff, again, limits>>

WriteRest ==
  /\ torn = 1
  /\ torn' = 0
  /\ UNCHANGED <<file, path, log, count, at, tail, plan, chunk, ending, lineHistory, limits>>

Rename ==
  /\ path # Nil /\ rotations < MaxRotations
  /\ rotations' = rotations + 1
  /\ path' = Nil
  /\ gaps' = IF fh # path \/ stopping # "no" THEN gaps \cup Unread(path) ELSE gaps
  /\ UNCHANGED <<file, log, torn, count, at, tail, plan, chunk, ending, handled, cutOff, again,
                 cuts>>

Recreate ==
  /\ path = Nil /\ torn = 0
  /\ \E i \in Inodes :
       /\ file[i] = Nil
       /\ path' = i /\ log' = i
       /\ file' = [file EXCEPT ![i] = [base |-> count, len |-> 0]]
  /\ UNCHANGED <<torn, count, at, tail, plan, chunk, ending, lineHistory, limits>>

Truncate ==
  /\ path # Nil /\ torn = 0 /\ cuts < MaxCuts
  /\ file[path].len > 0
  /\ cuts' = cuts + 1
  /\ file' = [file EXCEPT ![path] = [base |-> count, len |-> 0]]
  /\ gaps' = gaps \cup Unread(path)
  /\ UNCHANGED <<path, log, torn, count, at, tail, plan, chunk, ending, handled, cutOff, again,
                 rotations>>

-----------------------------------------------------------------------------
(* tick().                                                                  *)

Go(step) == at' = step /\ UNCHANGED <<files, ending, limits>>
\* The tick ends early: the file is missing, or something threw.
Abandon == Go("idle") /\ UNCHANGED <<tail, plan, chunk, lineHistory>>

\* start(), and the timer: one tick at a time.
Start == at = "off" /\ Go("idle") /\ UNCHANGED <<tail, plan, chunk, lineHistory>>
Tick == at = "idle" /\ stopping = "no" /\ Go("stat") /\ UNCHANGED <<tail, plan, chunk, lineHistory>>

Resume_Never == 0
\* loadState(): go on where the last run stopped, if it is the same file still.
Resume == IF saved # Nil /\ saved.ino = path /\ saved.pos <= Size(path) THEN saved.pos ELSE 0

\* The query of the saved position fails, which loadState() takes for none: the file is read from its start.
LoadFails ==
  /\ fh = Nil /\ Resume > 0
  /\ resume' = 0
  /\ again' = again \cup (Handled \cap LinesOf(path))

Truncated == Size(path) < pos

\* The stat decides: open the log, finish a rotated one, or notice that it was
\* truncated.
StatDone ==
  /\ at = "stat"
  /\ IF path = Nil THEN Abandon
     ELSE /\ st' = path
          /\ \/ resume' = (IF fh = Nil THEN Resume ELSE 0) /\ UNCHANGED again
             \/ LoadFails
          /\ goal' = IF fh # Nil /\ path # ino THEN "switch" ELSE "save"
          /\ IF fh # Nil /\ path = ino /\ Truncated
             THEN pos' = 0 /\ part' = 0 /\ base' = file[path].base
             ELSE UNCHANGED <<pos, part, base>>
          /\ Go(IF fh = Nil THEN "open" ELSE "read")
          /\ UNCHANGED <<fh, ino, record, chunk, handled, gaps, cutOff>>

\* openFile() opens what is there by now, under the number that stat saw.
Open ==
  /\ at = "open"
  /\ IF path = Nil THEN Abandon
     ELSE /\ fh' = path /\ ino' = st /\ pos' = resume /\ part' = 0
          /\ base' = IF resume > 0 /\ path = st THEN savedBase ELSE file[path].base
          /\ goal' = "save" /\ resume' = 0
          /\ Go("read")
          /\ UNCHANGED <<record, st, chunk, lineHistory>>

\* A truncation that nobody noticed: what was written since, up to the position
\* reached before it, is passed over.
PassOver ==
  IF base # file[fh].base /\ (pos <= Size(fh) \/ goal = "switch")
  THEN base' = file[fh].base /\ gaps' = gaps \cup (Before(fh, pos) \ Handled)
  ELSE UNCHANGED <<base, gaps>>

Rest_Dropped(p) == 0
\* What is left of a chunk, half a line or nothing, waits for the next read.
Rest(p) == p % 2

\* drain(): a chunk is read and the position moves past it, before any of its
\* lines is handled. A handle that was closed throws.
ReadTo(to) ==
  LET whole == file[fh].base + to \div 2 IN
  /\ pos' = to
  /\ next' = file[fh].base + Done \div 2 + 1
  /\ last' = whole
  /\ broken' = (Done % 2 = 1)
  /\ IF next' > whole THEN Go("read") /\ part' = Rest(to) ELSE Go("process") /\ part' = part

Read ==
  /\ at = "read"
  /\ IF fh \in {Nil, Closed} THEN Abandon
     ELSE /\ PassOver
          /\ \/ /\ Size(fh) <= pos
                /\ Go(IF goal = "switch" THEN "close" ELSE "save")
                /\ UNCHANGED <<pos, part, chunk>>
             \/ \E to \in pos + 1 .. Size(fh) : ReadTo(to)
          /\ UNCHANGED <<fh, ino, record, plan, handled, cutOff, again>>

Misread == fh # ino \/ (stopping # "no" /\ ~clean)

\* One line, through onLine; a failure is logged and the line is dropped.
Process ==
  /\ at = "process"
  /\ next' = next + 1 /\ broken' = FALSE
  /\ IF next = last THEN Go("read") /\ part' = Rest(pos) ELSE Go("process") /\ part' = part
  /\ \/ /\ ~broken
        /\ handled' = [handled EXCEPT ![next] = @ + 1]
        /\ again' = IF Misread THEN again \cup {next} ELSE again
        /\ gaps' = gaps
     \/ /\ gaps' = IF broken THEN gaps ELSE gaps \cup {next}
        /\ UNCHANGED <<handled, again>>
  /\ UNCHANGED <<handle, pos, record, plan, last, cutOff>>

\* The old file is closed, the new one not open yet; if opening it fails, the
\* closed handle stays.
Close ==
  /\ at = "close"
  /\ IF fh = Nil THEN Abandon
     ELSE /\ fh' = Closed
          /\ Go("open")
          /\ UNCHANGED <<ino, base, pos, part, record, plan, chunk, lineHistory>>

SavePosition_AllRead ==
  saved' = [ino |-> ino, pos |-> pos + (pos % 2)] /\ savedPos' = Done /\ savedBase' = base
SavePosition == saved' = [ino |-> ino, pos |-> Done] /\ savedPos' = Done /\ savedBase' = base

\* save(false): not too often, and not twice the same number.
Save ==
  /\ at = "save"
  /\ \/ UNCHANGED record
     \/ fh # Nil /\ Done # savedPos /\ SavePosition
  /\ Go("idle")
  /\ UNCHANGED <<handle, pos, part, plan, chunk, lineHistory>>

-----------------------------------------------------------------------------
(* The app ends.                                                            *)

\* stop(): save(true), whatever the tick in progress is doing; it goes on. A save that fails is ignored.
StopSave ==
  /\ at # "off" /\ stopping = "no" /\ ends < MaxEnds
  /\ ends' = ends + 1
  /\ stopping' = "saved"
  /\ \/ UNCHANGED record
     \/ fh # Nil /\ Done # savedPos /\ SavePosition
  /\ clean' = (at = "idle" /\ (fh = Nil \/ saved' = [ino |-> ino, pos |-> Done]))
  /\ cutOff' = IF at # "process" THEN cutOff
               ELSE cutOff \cup (next .. last) \cup {l \in Before(fh, Done) : l > last}
  /\ again' = IF clean' THEN again ELSE again \cup Handled
  /\ gaps' = gaps \cup OnlyHeld
  /\ UNCHANGED <<files, at, handle, pos, part, plan, chunk, handled, limits>>

StopClose ==
  /\ stopping = "saved"
  /\ stopping' = "closed"
  /\ fh' = Nil
  /\ UNCHANGED <<files, at, ino, base, pos, part, record, plan, chunk, clean, ends, lineHistory,
                 limits>>

\* The memory of the process is gone.
Off ==
  /\ at' = "off" /\ fh' = Nil /\ ino' = Nil /\ base' = 0
  /\ pos' = 0 /\ part' = 0 /\ savedPos' = Nil
  /\ st' = Nil /\ resume' = 0 /\ goal' = "save" /\ next' = 1 /\ last' = 0 /\ broken' = FALSE
  /\ stopping' = "no" /\ clean' = FALSE
  /\ UNCHANGED <<files, saved, savedBase, handled, cutOff, limits>>

\* shutdown() goes on to close what else is open, then exits; until then the
\* tick in progress goes on as well.
Exit ==
  /\ stopping = "closed"
  /\ Off
  /\ UNCHANGED <<gaps, again, ends>>

Crash ==
  /\ at # "off" /\ ends < MaxEnds
  /\ ends' = ends + 1
  /\ again' = again \cup Handled
  /\ gaps' = gaps \cup OnlyHeld
  /\ Off

-----------------------------------------------------------------------------
TailStep == \/ Tick \/ StatDone \/ Open \/ Read \/ Process \/ Close \/ Save
StopStep == StopClose \/ Exit
Around == WriteHalf \/ WriteRest \/ Rename \/ Recreate \/ Truncate

TailNext == Around \/ Start \/ TailStep \/ StopSave \/ StopStep \/ Crash

TailSpec == TailInit /\ [][TailNext]_tailVars

\* The app is started again and its timers run; a line begun is written out and
\* a rotated log created anew.
FairTailSpec == TailSpec /\ WF_tailVars(Start) /\ WF_tailVars(TailStep) /\ WF_tailVars(StopStep)
                 /\ WF_tailVars(WriteRest) /\ WF_tailVars(Recreate)

-----------------------------------------------------------------------------
\* Types. A position is never before the half line it keeps (log-tail.ts:136
\* subtracts the one from the other).
TailTypeOK ==
  /\ file \in [Inodes -> File \cup {Nil}]
  /\ path \in Inodes \cup {Nil} /\ log \in Inodes /\ torn \in {0, 1} /\ count \in Nat
  /\ file[log] # Nil /\ (path # Nil => path = log)
  /\ saved \in Place \cup {Nil} /\ savedPos \in Nat \cup {Nil}
  /\ at \in {"off", "idle", "stat", "open", "read", "process", "close", "save"}
  /\ fh \in Inodes \cup {Nil, Closed} /\ ino \in Inodes \cup {Nil}
  /\ pos \in Nat /\ part \in {0, 1} /\ part <= pos
  /\ st \in Inodes \cup {Nil} /\ resume \in Nat /\ goal \in {"save", "switch"}
  /\ next \in Nat /\ last \in Nat /\ broken \in BOOLEAN
  /\ stopping \in {"no", "saved", "closed"} /\ clean \in BOOLEAN
  /\ base \in Nat /\ savedBase \in Nat
  /\ handled \in [Lines -> Nat]
  /\ gaps \in SUBSET Lines /\ cutOff \in SUBSET Lines /\ again \in SUBSET Lines
  /\ {rotations, cuts, ends} \subseteq Nat

OnRecord == IF saved # Nil /\ file[saved.ino].base = savedBase
            THEN Before(saved.ino, saved.pos) ELSE {}

\* The position on record (log-tail.ts, save) never runs ahead of the lines
\* handled: all before it went through onLine, or were lost to the log itself,
\* or were in hand when stop() saved. So a crash at any step loses nothing.
SavedBehind == OnRecord \subseteq Handled \cup gaps \cup cutOff

\* A line is counted twice only after an unclean end of the app (one whose save
\* failed included), when the saved position could not be read at a start
\* (log-tail.ts:129), or when the log was rotated between stat and open
\* (log-tail.ts:75-92): rotation, truncation, chunk borders and half-written
\* lines repeat nothing, nor does a stop between two ticks.
NoRepeat == \A l \in Lines : handled[l] > 1 => l \in again

\* Every line written is handled in the end, whatever is rotated or restarted,
\* or it is in one of the gaps; or the handle of a rotated file was closed and
\* the new one could not be opened (log-tail.ts:80-81), after which every tick
\* throws.
Jammed == fh = Closed /\ at # "open"
EveryLineHandled == \A l \in Lines :
  (l <= count) ~> (l \in Handled \cup gaps \cup cutOff \/ Jammed)

=============================================================================
