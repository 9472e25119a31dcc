----------------------------- MODULE PostfixCtl -----------------------------
(***************************************************************************)
(* The control channel between the app and the Postfix container: files    *)
(* <id>.tmp, <id>.req and <id>.res in a shared volume.                     *)
(*   - The app (activity/postfix-ctl.ts, run) writes a request, polls for  *)
(*     its answer every 100 ms and gives up after a deadline.              *)
(*   - The shell loop (docker/postfix/postfix-ctl.sh) picks requests up,   *)
(*     runs one Postfix command at a time and answers.                     *)
(* Either side may stop between any two file operations.                   *)
(*                                                                         *)
(* Abstracted: what a command prints and does to a message is a            *)
(* nondeterministic result, "ok" or "error"; the deadline and the age of a *)
(* file are nondeterministic, except that an answer older than two minutes *)
(* has no caller left (a caller waits ten seconds).                        *)
(***************************************************************************)
EXTENDS Naturals

CONSTANTS Calls,        \* the calls of run(): one randomUUID each
          MaxRestarts,  \* bound: restarts of the Postfix container
          MaxCrashes,   \* bound: restarts of the app process
          None

ASSUME NoneIsNoCall == None \notin Calls
ASSUME BoundsAreNat == MaxRestarts \in Nat /\ MaxCrashes \in Nat

VARIABLES
  mounted,   \* does the app see the volume? (a matter of deployment)
  pc,        \* pc[c]: where call c stands in the app
  cmd,       \* cmd[c]: "action" (flush, retry, hold, ...), "page" or "overview"
  body,      \* body[c]: the answer read by, or served to, call c
  cached,    \* the app's last queue snapshot
  tmp,       \* tmp[c]: content of <c>.tmp, "none", "request" or "answer"
  req,       \* the calls whose <c>.req exists
  res,       \* res[c]: content of <c>.res, or None
  sh,        \* the shell: its step, its current request, what it has read
  todo,      \* the rest of the shell's current "for req in *.req" list
  runs,      \* history: how often c's command was run
  now, began, ended,     \* history: the order in which calls begin and end
  restarts, crashes

appVars == <<pc, cmd, body, cached>>
fileVars == <<tmp, req, res>>
shellVars == <<sh, todo, runs>>
history == <<now, began, ended>>
bounds == <<mounted, restarts, crashes>>
vars == <<appVars, fileVars, shellVars, history, bounds>>

Commands == {"action", "page", "overview"}
\* run() either returns ("ok") or throws: 503 or a bad id ("refused"), an
\* error status of the shell ("error"), 504 ("timeout") or ENOENT ("failed").
Returned == {"ok", "refused", "error", "timeout", "failed"}
AppSteps == {"idle", "written", "waiting", "read", "expired", "lost"} \cup Returned
InFlight == {"written", "waiting", "read", "expired"}

\* An answer: the status line, and, of a snapshot, which commands it reflects.
Answer == [status : {"ok", "error"}, seen : SUBSET Calls]
Snapshot == [available : BOOLEAN, seen : SUBSET Calls, by : Calls]
ShellSteps == {"down", "scan", "picked", "read", "removed", "ran", "written"}
Shell == [at : ShellSteps, id : Calls \cup {None}, line : {"empty", "command"},
          out : Answer \cup {None}]
AtScan == [at |-> "scan", id |-> None, line |-> "empty", out |-> None]
Down == [at |-> "down", id |-> None, line |-> "empty", out |-> None]

Executed == {c \in Calls : runs[c] > 0}

Init ==
  /\ mounted \in BOOLEAN
  /\ pc = [c \in Calls |-> "idle"]
  /\ cmd = [c \in Calls |-> "action"]
  /\ body = [c \in Calls |-> None]
  /\ cached = None
  /\ tmp = [c \in Calls |-> "none"]
  /\ req = {}
  /\ res = [c \in Calls |-> None]
  /\ sh = AtScan
  /\ todo = {}
  /\ runs = [c \in Calls |-> 0]
  /\ now = 0
  /\ began = [c \in Calls |-> 0]
  /\ ended = [c \in Calls |-> 0]
  /\ restarts = 0
  /\ crashes = 0

-----------------------------------------------------------------------------
(* The app: run(), queueSnapshot(), flushQueue(), queueAction().            *)

\* Call c ends with outcome o; the answer of a snapshot, or the failure to
\* get one, becomes the cached snapshot, a successful action drops the cache.
Finish(c, o) ==
  /\ pc' = [pc EXCEPT ![c] = o]
  /\ now' = now + 1
  /\ ended' = [ended EXCEPT ![c] = now + 1]
  /\ cached' = IF cmd'[c] # "action"
               THEN [available |-> o = "ok", by |-> c,
                     seen |-> IF o = "ok" THEN body[c].seen ELSE {}]
               ELSE IF o = "ok" THEN None ELSE cached

\* A call starts: the volume is there and the queue id is well-formed, so the
\* request is written beside its final name.
WriteRequest(c, k) ==
  /\ pc[c] = "idle" /\ mounted
  /\ pc' = [pc EXCEPT ![c] = "written"]
  /\ cmd' = [cmd EXCEPT ![c] = k]
  /\ tmp' = [tmp EXCEPT ![c] = "request"]
  /\ now' = now + 1
  /\ began' = [began EXCEPT ![c] = now + 1]
  /\ UNCHANGED <<body, cached, req, res, shellVars, ended, bounds>>

\* 503 (no volume), or 400: a malformed queue id, which only an action carries.
Refuse(c, k) ==
  /\ pc[c] = "idle"
  /\ ~mounted \/ k = "action"
  /\ cmd' = [cmd EXCEPT ![c] = k]
  /\ Finish(c, "refused")
  /\ began' = [began EXCEPT ![c] = now + 1]
  /\ UNCHANGED <<body, fileVars, shellVars, bounds>>

\* The overview is answered from the cache while the cache is young enough.
ServeCached(c) ==
  /\ pc[c] = "idle" /\ cached # None
  /\ pc' = [pc EXCEPT ![c] = IF cached.available THEN "ok" ELSE "error"]
  /\ cmd' = [cmd EXCEPT ![c] = "overview"]
  /\ body' = [body EXCEPT ![c] = [status |-> IF cached.available THEN "ok" ELSE "error",
                                  seen |-> cached.seen]]
  /\ now' = now + 1
  /\ began' = [began EXCEPT ![c] = now + 1]
  /\ ended' = [ended EXCEPT ![c] = now + 1]
  /\ UNCHANGED <<cached, fileVars, shellVars, bounds>>

\* rename(tmp, req); the file is gone if the shell started in between.
PublishRequest(c) ==
  /\ pc[c] = "written"
  /\ \/ /\ tmp[c] = "request"
        /\ tmp' = [tmp EXCEPT ![c] = "none"]
        /\ req' = req \cup {c}
        /\ pc' = [pc EXCEPT ![c] = "waiting"]
        /\ UNCHANGED <<cached, now, ended>>
     \/ /\ tmp[c] # "request"
        /\ cmd' = cmd
        /\ Finish(c, "failed")
        /\ UNCHANGED <<tmp, req>>
  /\ UNCHANGED <<cmd, body, res, shellVars, began, bounds>>

\* A poll that finds the answer; one that does not changes nothing.
ReadAnswer(c) ==
  /\ pc[c] = "waiting" /\ res[c] # None
  /\ pc' = [pc EXCEPT ![c] = "read"]
  /\ body' = [body EXCEPT ![c] = res[c]]
  /\ UNCHANGED <<cmd, cached, fileVars, shellVars, history, bounds>>

\* The answer is unlinked, its status line decides.
TakeAnswer(c) ==
  /\ pc[c] = "read"
  /\ res' = [res EXCEPT ![c] = None]
  /\ cmd' = cmd
  /\ Finish(c, body[c].status)
  /\ UNCHANGED <<body, tmp, req, shellVars, began, bounds>>

\* The loop finds the deadline passed, be there an answer by now or not.
Expire(c) ==
  /\ pc[c] = "waiting"
  /\ pc' = [pc EXCEPT ![c] = "expired"]
  /\ UNCHANGED <<cmd, body, cached, fileVars, shellVars, history, bounds>>

\* (Mutations of the definitions below, used only to test the properties, carry
\* the name of the definition and of the mistake.)
Withdraw_LeavesRequest(c) ==
  /\ pc[c] = "expired"
  /\ cmd' = cmd
  /\ Finish(c, "timeout")
  /\ UNCHANGED <<body, fileVars, shellVars, began, bounds>>

Withdraw_ReportsSuccess(c) ==
  /\ pc[c] = "expired"
  /\ req' = req \ {c}
  /\ cmd' = cmd
  /\ Finish(c, IF cmd[c] = "action" THEN "ok" ELSE "timeout")
  /\ UNCHANGED <<body, tmp, res, shellVars, began, bounds>>

\* The request is withdrawn before the caller learns of the timeout.
Withdraw(c) ==
  /\ pc[c] = "expired"
  /\ req' = req \ {c}
  /\ cmd' = cmd
  /\ Finish(c, "timeout")
  /\ UNCHANGED <<body, tmp, res, shellVars, began, bounds>>

\* The app stops; its calls are gone and so is its memory, the files stay.
AppRestart ==
  /\ crashes < MaxCrashes
  /\ crashes' = crashes + 1
  /\ pc' = [c \in Calls |-> IF pc[c] \in InFlight THEN "lost" ELSE pc[c]]
  /\ cached' = None
  /\ UNCHANGED <<cmd, body, fileVars, shellVars, history, mounted, restarts>>

-----------------------------------------------------------------------------
(* The shell loop.                                                          *)

\* for req in "$CTL_DIR"/*.req: the list is expanded once per round.
Scan ==
  /\ sh.at = "scan" /\ todo = {} /\ req # {}
  /\ todo' = req
  /\ UNCHANGED <<appVars, fileVars, sh, runs, history, bounds>>

\* [ -f "$req" ]: the next of the list, unless it has been withdrawn.
Pick(c) ==
  /\ sh.at = "scan" /\ c \in todo
  /\ todo' = todo \ {c}
  /\ sh' = IF c \in req THEN [sh EXCEPT !.at = "picked", !.id = c] ELSE sh
  /\ UNCHANGED <<appVars, fileVars, runs, history, bounds>>

ReadLine_Unchecked ==
  /\ sh.at = "picked"
  /\ sh' = [sh EXCEPT !.at = "read", !.line = "command"]
  /\ UNCHANGED <<appVars, fileVars, todo, runs, history, bounds>>

\* line=$(head ...): empty when the request has been withdrawn since.
ReadLine ==
  /\ sh.at = "picked"
  /\ sh' = [sh EXCEPT !.at = "read",
                   !.line = IF sh.id \in req THEN "command" ELSE "empty"]
  /\ UNCHANGED <<appVars, fileVars, todo, runs, history, bounds>>

RemoveRequest_Forgotten ==
  /\ sh.at = "read"
  /\ sh' = [sh EXCEPT !.at = "removed"]
  /\ UNCHANGED <<appVars, fileVars, todo, runs, history, bounds>>

RemoveRequest ==
  /\ sh.at = "read"
  /\ sh' = [sh EXCEPT !.at = "removed"]
  /\ req' = req \ {sh.id}
  /\ UNCHANGED <<appVars, tmp, res, todo, runs, history, bounds>>

\* Run the command; an empty line is an unknown command and runs nothing.
Run ==
  /\ sh.at = "removed"
  /\ runs' = IF sh.line = "command" THEN [runs EXCEPT ![sh.id] = @ + 1] ELSE runs
  /\ \E status \in {"ok", "error"} :
       /\ status = "ok" => sh.line = "command"
       /\ sh' = [sh EXCEPT !.at = "ran",
                   !.out = [status |-> status, seen |-> Executed']]
  /\ UNCHANGED <<appVars, fileVars, todo, history, bounds>>

\* answer(): printf > <id>.tmp ...
WriteAnswer ==
  /\ sh.at = "ran"
  /\ sh' = [sh EXCEPT !.at = "written"]
  /\ tmp' = [tmp EXCEPT ![sh.id] = "answer"]
  /\ UNCHANGED <<appVars, req, res, todo, runs, history, bounds>>

\* ... && mv -f <id>.tmp <id>.res
PublishAnswer ==
  /\ sh.at = "written"
  /\ sh' = AtScan
  /\ tmp' = [tmp EXCEPT ![sh.id] = "none"]
  /\ res' = [res EXCEPT ![sh.id] = sh.out]
  /\ UNCHANGED <<appVars, req, todo, runs, history, bounds>>

Cleanup_WrongSuffix ==
  /\ sh.at = "scan" /\ todo = {}
  /\ \E c \in Calls : res[c] # None /\ pc[c] \notin InFlight
  /\ tmp' = [c \in Calls |-> "none"]
  /\ UNCHANGED <<appVars, req, res, shellVars, history, bounds>>

\* find -name '*.res' -mmin +2 -delete, between two rounds: the answers whose
\* callers are no longer there.
Cleanup ==
  /\ sh.at = "scan" /\ todo = {}
  /\ \E c \in Calls : res[c] # None /\ pc[c] \notin InFlight
  /\ res' = [c \in Calls |-> IF pc[c] \in InFlight THEN res[c] ELSE None]
  /\ UNCHANGED <<appVars, tmp, req, shellVars, history, bounds>>

\* The container stops, at any step of the loop.
ShellStop ==
  /\ sh.at # "down" /\ restarts < MaxRestarts
  /\ restarts' = restarts + 1
  /\ sh' = Down
  /\ todo' = {}
  /\ UNCHANGED <<appVars, fileVars, runs, history, mounted, crashes>>

\* rm -f *.req *.res *.tmp, then the loop.
ShellStart ==
  /\ sh.at = "down"
  /\ sh' = AtScan
  /\ req' = {}
  /\ res' = [c \in Calls |-> None]
  /\ tmp' = [c \in Calls |-> "none"]
  /\ UNCHANGED <<appVars, todo, runs, history, bounds>>

-----------------------------------------------------------------------------
AppStep(c) == \/ PublishRequest(c) \/ ReadAnswer(c) \/ TakeAnswer(c)
              \/ Expire(c) \/ Withdraw(c)
Begin(c) == \/ \E k \in Commands : WriteRequest(c, k) \/ Refuse(c, k)
            \/ ServeCached(c)
ShellStep == \/ Scan \/ (\E c \in Calls : Pick(c)) \/ ReadLine \/ RemoveRequest
             \/ Run \/ WriteAnswer \/ PublishAnswer \/ ShellStart

Next == \/ \E c \in Calls : Begin(c) \/ AppStep(c)
        \/ AppRestart
        \/ ShellStep \/ Cleanup \/ ShellStop

Spec == Init /\ [][Next]_vars

\* The event loop runs timers that are due, the shell loop never ends; that a
\* call begins and that something stops is never promised.
FairSpec == Spec /\ (\A c \in Calls : WF_vars(AppStep(c)))
                 /\ WF_vars(ShellStep) /\ WF_vars(Cleanup)

-----------------------------------------------------------------------------
TypeOK ==
  /\ mounted \in BOOLEAN
  /\ pc \in [Calls -> AppSteps]
  /\ cmd \in [Calls -> Commands]
  /\ body \in [Calls -> Answer \cup {None}]
  /\ cached \in Snapshot \cup {None}
  /\ tmp \in [Calls -> {"none", "request", "answer"}]
  /\ req \in SUBSET Calls
  /\ res \in [Calls -> Answer \cup {None}]
  /\ sh \in Shell
  /\ todo \in SUBSET Calls
  /\ runs \in [Calls -> Nat]
  /\ now \in Nat
  /\ began \in [Calls -> Nat]
  /\ ended \in [Calls -> Nat]
  /\ restarts \in Nat
  /\ crashes \in Nat

\* A caller learnt how call a ended before call b was made.
EndedBefore(a, b) == pc[a] \in Returned /\ pc[b] # "idle" /\ ended[a] < began[b]

\* A command is run at most once, whatever stops and starts: the request is
\* removed before the command is run (postfix-ctl.sh, lines 27 and 41). run()
\* returns normally only if this call's own command was run, never on another
\* request's answer or an empty one's (an overview may be answered by an earlier
\* snapshot); a call refused, or failed before it published, has no effect ever.
RunsMatchOutcomes == \A c \in Calls :
  /\ runs[c] <= 1
  /\ pc[c] = "ok" /\ cmd[c] # "overview" => runs[c] = 1
  /\ pc[c] \in {"refused", "failed"} => runs[c] = 0

\* The queue page "always asks Postfix" (postfix-ctl.ts:84): it reflects every
\* action that had been confirmed when the page was asked for.
PageIsFresh == \A a, b \in Calls :
  /\ pc[a] = "ok" /\ cmd[a] = "action"
  /\ pc[b] = "ok" /\ cmd[b] = "page" /\ EndedBefore(a, b)
  => a \in body[b].seen

\* A confirmed action drops the cache, so a cached snapshot can miss a
\* confirmed action only if the snapshot was still being taken at that moment:
\* its call ended after the action did.
CacheOutlivesNoAction == \A a \in Calls :
  cached # None /\ pc[a] = "ok" /\ cmd[a] = "action" => ended[a] < ended[cached.by]

\* A command that was given up on never takes effect after a later one: what
\* the admin was told about (a timeout included) is not run once a call made
\* after that has run. Only a request orphaned by a restart of the app may.
NoOvertaking == [][\A a, b \in Calls :
  EndedBefore(a, b) /\ runs[b] > 0 => runs'[a] = runs[a]]_vars

\* No file of a call is left in the volume for ever: a request is taken or
\* withdrawn, an answer is read or swept away, though its caller timed out or was
\* lost, and what is written as <id>.tmp is renamed. Except that a restart of the
\* app between writeFile and rename (postfix-ctl.ts:33-34) orphans an <id>.tmp,
\* which stays until the container starts again.
FilesGo == \A c \in Calls :
  /\ (c \in req) ~> (c \notin req)
  /\ (res[c] # None) ~> (res[c] = None)
  /\ (tmp[c] = "answer") ~> (tmp[c] # "answer")
  /\ (tmp[c] = "request") ~> (tmp[c] # "request" \/ pc[c] = "lost")

-----------------------------------------------------------------------------
(* What it implements: a serial server that takes each command once.        *)

\* The shell has read c's command and has not run it yet.
ShellHolds(c) == sh.at \in {"read", "removed"} /\ sh.line = "command" /\ sh.id = c

\* c's command may still reach the shell: what is published while the
\* container is down, or before, is erased when it starts.
Awaits(c) == \/ c \in req /\ sh.at # "down"
             \/ pc[c] = "written" /\ tmp[c] = "request"

Stage == [c \in Calls |->
  IF pc[c] = "idle" THEN "new"
  ELSE IF runs[c] > 0 THEN "executed"
  ELSE IF ShellHolds(c) THEN "taken"
  ELSE IF Awaits(c) THEN "pending"
  ELSE "dropped"]

Told == [c \in Calls |->
  IF pc[c] \notin Returned THEN "nothing"
  ELSE IF pc[c] = "ok" /\ cmd[c] # "overview" THEN "confirmed"
  ELSE "ended"]

Service == INSTANCE CommandService WITH stage <- Stage, told <- Told

\* The channel is such a server: a command goes through pending, taken and
\* executed in that order or is dropped, one at a time, and a caller is told
\* only what is so (run() with the shell's handle()).
ImplementsService == Service!ASpec
=============================================================================
