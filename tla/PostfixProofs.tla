---------------------------- MODULE PostfixProofs ----------------------------
(***************************************************************************)
(* Proofs about both ways in which Postfix's container and the app meet.   *)
(*   - PostfixCtl, the control channel, for any finite set of calls and    *)
(*     any number of restarts: the inductive invariant IInv says where a   *)
(*     call's request may be at each step of either side, what an answer   *)
(*     vouches for wherever it is kept, and how the order of calls bounds  *)
(*     the order of runs.                                                  *)
(*   - LogTail, the reader of the log, for any number of inodes, lines,    *)
(*     rotations, truncations and ends of the app: TailInv says which file *)
(*     is the newest, how far the lines handled reach, and what lies       *)
(*     before each position.                                               *)
(***************************************************************************)
EXTENDS PostfixCtl, LogTail, TLAPS

\* Where the request of a call can be: it exists in one place at a time, and
\* nowhere once the call has been answered.
PlaceInv ==
  /\ \A c \in Calls :
       /\ pc[c] \in {"idle", "written", "refused", "failed"} =>
            runs[c] = 0 /\ c \notin req /\ res[c] = None /\ sh.id # c
       /\ tmp[c] = "request" =>
            pc[c] \in {"written", "lost"} /\ runs[c] = 0 /\ c \notin req /\ sh.id # c
       /\ c \in req =>
            runs[c] = 0 /\ res[c] = None /\ pc[c] \in {"waiting", "expired", "lost"}
       /\ runs[c] <= 1
  /\ sh.id = None <=> sh.at \in {"scan", "down"}
  /\ sh.at \in {"removed", "ran", "written"} => sh.id \notin req
  /\ sh.at \in {"picked", "read", "removed"} => runs[sh.id] = 0

\* What an answer vouches for, in the shell, in its file and in the app.
Vouches(c, ans) ==
  /\ ans \in Answer
  /\ ans.status = "ok" => runs[c] = 1
  /\ \A a \in Calls :
       pc[a] = "ok" /\ cmd[a] = "action" /\ EndedBefore(a, c) => a \in ans.seen

AnswerInv ==
  /\ sh.at \in {"ran", "written"} => Vouches(sh.id, sh.out)
  /\ \A c \in Calls :
       /\ res[c] # None => Vouches(c, res[c])
       /\ pc[c] = "read" => Vouches(c, body[c])
       /\ pc[c] = "ok" /\ cmd[c] # "overview" => Vouches(c, body[c]) /\ runs[c] = 1

\* Calls and runs in order.
OrderInv ==
  /\ \A c \in Calls : began[c] <= now /\ ended[c] <= now
  /\ CacheOutlivesNoAction
  /\ \A a, b \in Calls : EndedBefore(a, b) /\ ShellHolds(a) => runs[b] = 0

IInv == TypeOK /\ PlaceInv /\ AnswerInv /\ OrderInv

USE DEF appVars, fileVars, shellVars, history, bounds

-----------------------------------------------------------------------------
(* Type correctness.                                                        *)

LEMMA InitType == Init => TypeOK
BY BoundsAreNat
DEF Init, TypeOK, AppSteps, Commands, Shell, AtScan, ShellSteps

LEMMA FinishType ==
  ASSUME TypeOK, NEW c \in Calls, NEW o \in Returned, Finish(c, o),
         cmd' \in [Calls -> Commands], o = "ok" => body[c] \in Answer
  PROVE  /\ pc' \in [Calls -> AppSteps]
         /\ now' \in Nat
         /\ ended' \in [Calls -> Nat]
         /\ cached' \in Snapshot \cup {None}
<1>1. CASE cmd'[c] = "action"
  BY <1>1 DEF Finish, TypeOK, AppSteps
<1>2. CASE cmd'[c] # "action"
  <2>1. (IF o = "ok" THEN body[c].seen ELSE {}) \in SUBSET Calls
    BY DEF Answer
  <2>2. cached' \in Snapshot
    BY <1>2, <2>1 DEF Finish, Snapshot
  <2>3. QED BY <2>2 DEF Finish, TypeOK, AppSteps
<1>3. QED BY <1>1, <1>2

LEMMA TypeStep == IInv /\ [Next]_vars => TypeOK'
<1> SUFFICES ASSUME IInv, [Next]_vars PROVE TypeOK'
  OBVIOUS
<1>0. TypeOK
  BY DEF IInv
<1>a. sh.at \notin {"scan", "down"} => sh.id \in Calls
  BY NoneIsNoCall DEF IInv, TypeOK, PlaceInv, Shell
<1>b. /\ sh.at \in {"ran", "written"} => sh.out \in Answer
      /\ \A d \in Calls : pc[d] = "read" => body[d] \in Answer
  BY DEF IInv, AnswerInv, Vouches
<1> USE <1>0 DEF TypeOK, AppSteps, Returned, Commands, Shell, ShellSteps
<1>1. ASSUME NEW c \in Calls, NEW k \in Commands, WriteRequest(c, k)
     PROVE  TypeOK'
  BY <1>1 DEF WriteRequest
<1>2. ASSUME NEW c \in Calls, NEW k \in Commands, Refuse(c, k)
     PROVE  TypeOK'
  <2>1. cmd' \in [Calls -> Commands]
    BY <1>2 DEF Refuse
  <2>2. QED BY <1>2, <2>1, FinishType DEF Refuse
<1>3. ASSUME NEW c \in Calls, ServeCached(c)
     PROVE  TypeOK'
  <2>1. cached \in Snapshot
    BY <1>3 DEF ServeCached
  <2>2. [status |-> IF cached.available THEN "ok" ELSE "error",
         seen |-> cached.seen] \in Answer
    BY <2>1 DEF Snapshot, Answer
  <2>3. QED BY <1>3, <2>2 DEF ServeCached
<1>4. ASSUME NEW c \in Calls, PublishRequest(c)
     PROVE  TypeOK'
  <2>1. CASE tmp[c] = "request"
    BY <1>4, <2>1 DEF PublishRequest
  <2>2. CASE tmp[c] # "request"
    <3>1. cmd' \in [Calls -> Commands] /\ Finish(c, "failed")
      BY <1>4, <2>2 DEF PublishRequest
    <3>2. QED BY <1>4, <2>2, <3>1, FinishType DEF PublishRequest
  <2>3. QED BY <2>1, <2>2
<1>5. ASSUME NEW c \in Calls, ReadAnswer(c)
     PROVE  TypeOK'
  BY <1>5 DEF ReadAnswer
<1>6. ASSUME NEW c \in Calls, TakeAnswer(c)
     PROVE  TypeOK'
  <2>1. /\ cmd' \in [Calls -> Commands]
        /\ body[c] \in Answer
        /\ body[c].status \in Returned
        /\ Finish(c, body[c].status)
    BY <1>6, <1>b DEF TakeAnswer, Answer
  <2>2. QED BY <1>6, <2>1, FinishType DEF TakeAnswer
<1>7. ASSUME NEW c \in Calls, Expire(c)
     PROVE  TypeOK'
  BY <1>7 DEF Expire
<1>8. ASSUME NEW c \in Calls, Withdraw(c)
     PROVE  TypeOK'
  <2>1. cmd' \in [Calls -> Commands] /\ Finish(c, "timeout")
    BY <1>8 DEF Withdraw
  <2>2. QED BY <1>8, <2>1, FinishType DEF Withdraw
<1>9. CASE AppRestart
  BY <1>9 DEF AppRestart
<1>10. CASE Scan
  BY <1>10 DEF Scan
<1>11. ASSUME NEW c \in Calls, Pick(c)
     PROVE  TypeOK'
  BY <1>11 DEF Pick
<1>12. CASE ReadLine
  BY <1>12, <1>a DEF ReadLine
<1>13. CASE RemoveRequest
  BY <1>13 DEF RemoveRequest
<1>14. CASE Run
  <2>1. runs' \in [Calls -> Nat]
    BY <1>14, <1>a DEF Run
  <2>2. Executed' \in SUBSET Calls
    BY DEF Executed
  <2>3. PICK status \in {"ok", "error"} :
          sh' = [sh EXCEPT !.at = "ran",
                   !.out = [status |-> status, seen |-> Executed']]
    BY <1>14 DEF Run
  <2>4. sh' \in Shell
    BY <2>2, <2>3 DEF Answer
  <2>5. QED BY <1>14, <2>1, <2>4 DEF Run
<1>15. CASE WriteAnswer
  BY <1>15, <1>a DEF WriteAnswer
<1>16. CASE PublishAnswer
  BY <1>16, <1>a, <1>b DEF PublishAnswer, AtScan
<1>17. CASE Cleanup
  BY <1>17 DEF Cleanup
<1>18. CASE ShellStop
  BY <1>18 DEF ShellStop, Down
<1>19. CASE ShellStart
  BY <1>19 DEF ShellStart, AtScan
<1>20. CASE UNCHANGED vars
  BY <1>20 DEF vars
<1>21. QED
  BY <1>1, <1>2, <1>3, <1>4, <1>5, <1>6, <1>7, <1>8, <1>9, <1>10,
     <1>11, <1>12, <1>13, <1>14, <1>15, <1>16, <1>17, <1>18, <1>19, <1>20
  DEF Next, Begin, AppStep, ShellStep

-----------------------------------------------------------------------------
(* The invariant.                                                           *)

LEMMA PlaceStep == IInv /\ [Next]_vars => PlaceInv'
<1> SUFFICES ASSUME IInv, [Next]_vars PROVE PlaceInv'
  OBVIOUS
<1>0. TypeOK /\ PlaceInv
  BY DEF IInv
<1> USE <1>0, NoneIsNoCall
    DEF TypeOK, PlaceInv, AppSteps, Returned, InFlight, Shell, ShellSteps
<1>1. ASSUME NEW c \in Calls, NEW k \in Commands, WriteRequest(c, k)
     PROVE  PlaceInv'
  BY <1>1 DEF WriteRequest
<1>2. ASSUME NEW c \in Calls, NEW k \in Commands, Refuse(c, k)
     PROVE  PlaceInv'
  BY <1>2 DEF Refuse, Finish
<1>3. ASSUME NEW c \in Calls, ServeCached(c)
     PROVE  PlaceInv'
  BY <1>3 DEF ServeCached
<1>4. ASSUME NEW c \in Calls, PublishRequest(c)
     PROVE  PlaceInv'
  BY <1>4 DEF PublishRequest, Finish
<1>5. ASSUME NEW c \in Calls, ReadAnswer(c)
     PROVE  PlaceInv'
  BY <1>5 DEF ReadAnswer
<1>6. ASSUME NEW c \in Calls, TakeAnswer(c)
     PROVE  PlaceInv'
  <2>1. body[c].status \in {"ok", "error"}
    BY <1>6 DEF IInv, AnswerInv, Vouches, Answer, TakeAnswer
  <2>2. QED BY <1>6, <2>1 DEF TakeAnswer, Finish
<1>7. ASSUME NEW c \in Calls, Expire(c)
     PROVE  PlaceInv'
  BY <1>7 DEF Expire
<1>8. ASSUME NEW c \in Calls, Withdraw(c)
     PROVE  PlaceInv'
  BY <1>8 DEF Withdraw, Finish
<1>9. CASE AppRestart
  BY <1>9 DEF AppRestart
<1>10. CASE Scan
  BY <1>10 DEF Scan
<1>11. ASSUME NEW c \in Calls, Pick(c)
     PROVE  PlaceInv'
  BY <1>11 DEF Pick
<1>12. CASE ReadLine
  BY <1>12 DEF ReadLine
<1>13. CASE RemoveRequest
  BY <1>13 DEF RemoveRequest
<1>14. CASE Run
  BY <1>14 DEF Run
<1>15. CASE WriteAnswer
  BY <1>15 DEF WriteAnswer
<1>16. CASE PublishAnswer
  BY <1>16 DEF PublishAnswer, AtScan
<1>17. CASE Cleanup
  BY <1>17 DEF Cleanup
<1>18. CASE ShellStop
  BY <1>18 DEF ShellStop, Down
<1>19. CASE ShellStart
  BY <1>19 DEF ShellStart, AtScan
<1>20. CASE UNCHANGED vars
  BY <1>20 DEF vars
<1>21. QED
  BY <1>1, <1>2, <1>3, <1>4, <1>5, <1>6, <1>7, <1>8, <1>9, <1>10,
     <1>11, <1>12, <1>13, <1>14, <1>15, <1>16, <1>17, <1>18, <1>19, <1>20
  DEF Next, Begin, AppStep, ShellStep

LEMMA AnswerStep == IInv /\ [Next]_vars => AnswerInv'
<1> SUFFICES ASSUME IInv, [Next]_vars PROVE AnswerInv'
  OBVIOUS
<1>0. TypeOK /\ PlaceInv /\ AnswerInv
  BY DEF IInv
<1>a. \A d \in Calls : began[d] <= now /\ ended[d] <= now
  BY DEF IInv, OrderInv
<1>b. sh.at \in {"ran", "written", "removed"} => sh.id \in Calls
  BY <1>0, NoneIsNoCall DEF TypeOK, PlaceInv, Shell
<1> USE <1>0, <1>a, <1>b, NoneIsNoCall
    DEF TypeOK, PlaceInv, AnswerInv, AppSteps, Returned, InFlight
<1>1. ASSUME NEW c \in Calls, NEW k \in Commands, WriteRequest(c, k)
     PROVE  AnswerInv'
  BY <1>1 DEF WriteRequest, Vouches, EndedBefore
<1>2. ASSUME NEW c \in Calls, NEW k \in Commands, Refuse(c, k)
     PROVE  AnswerInv'
  BY <1>2 DEF Refuse, Finish, Vouches, EndedBefore
<1>3. ASSUME NEW c \in Calls, ServeCached(c)
     PROVE  AnswerInv'
  BY <1>3 DEF ServeCached, Vouches, EndedBefore
<1>4. ASSUME NEW c \in Calls, PublishRequest(c)
     PROVE  AnswerInv'
  <2>1. \A a, d \in Calls :
          (pc[a] = "ok" /\ cmd[a] = "action" /\ EndedBefore(a, d))'
          => pc[a] = "ok" /\ cmd[a] = "action" /\ EndedBefore(a, d)
    BY <1>4 DEF PublishRequest, Finish, EndedBefore
  <2> USE <1>4, <2>1 DEF PublishRequest, Finish
  <2>2. (sh.at \in {"ran", "written"} => Vouches(sh.id, sh.out))'
    BY DEF Vouches
  <2>3. ASSUME NEW d \in Calls
        PROVE  (res[d] # None => Vouches(d, res[d]))'
    BY DEF Vouches
  <2>4. ASSUME NEW d \in Calls
        PROVE  (pc[d] = "read" => Vouches(d, body[d]))'
    BY DEF Vouches
  <2>5. ASSUME NEW d \in Calls
        PROVE  (pc[d] = "ok" /\ cmd[d] # "overview"
                => Vouches(d, body[d]) /\ runs[d] = 1)'
    BY DEF Vouches
  <2>6. QED BY <2>2, <2>3, <2>4, <2>5
<1>5. ASSUME NEW c \in Calls, ReadAnswer(c)
     PROVE  AnswerInv'
  BY <1>5 DEF ReadAnswer, Vouches, EndedBefore
<1>6. ASSUME NEW c \in Calls, TakeAnswer(c)
     PROVE  AnswerInv'
  <2>0. body[c] \in Answer /\ body[c].status \in {"ok", "error"}
    BY <1>6 DEF Answer, Vouches, TakeAnswer
  <2>1. \A a, d \in Calls :
          (pc[a] = "ok" /\ cmd[a] = "action" /\ EndedBefore(a, d))'
          => pc[a] = "ok" /\ cmd[a] = "action" /\ EndedBefore(a, d)
    BY <1>6, <2>0 DEF TakeAnswer, Finish, EndedBefore
  <2> USE <1>6, <2>1, <2>0 DEF TakeAnswer, Finish
  <2>2. (sh.at \in {"ran", "written"} => Vouches(sh.id, sh.out))'
    BY DEF Vouches
  <2>3. ASSUME NEW d \in Calls
        PROVE  (res[d] # None => Vouches(d, res[d]))'
    BY DEF Vouches
  <2>4. ASSUME NEW d \in Calls
        PROVE  (pc[d] = "read" => Vouches(d, body[d]))'
    BY DEF Vouches
  <2>5. ASSUME NEW d \in Calls
        PROVE  (pc[d] = "ok" /\ cmd[d] # "overview"
                => Vouches(d, body[d]) /\ runs[d] = 1)'
    BY DEF Vouches
  <2>6. QED BY <2>2, <2>3, <2>4, <2>5
<1>7. ASSUME NEW c \in Calls, Expire(c)
     PROVE  AnswerInv'
  BY <1>7 DEF Expire, Vouches, EndedBefore
<1>8. ASSUME NEW c \in Calls, Withdraw(c)
     PROVE  AnswerInv'
  BY <1>8 DEF Withdraw, Finish, Vouches, EndedBefore
<1>9. CASE AppRestart
  <2>1. \A a, d \in Calls :
          (pc[a] = "ok" /\ cmd[a] = "action" /\ EndedBefore(a, d))'
          => pc[a] = "ok" /\ cmd[a] = "action" /\ EndedBefore(a, d)
    BY <1>9 DEF AppRestart, EndedBefore
  <2> USE <1>9, <2>1 DEF AppRestart
  <2>2. (sh.at \in {"ran", "written"} => Vouches(sh.id, sh.out))'
    BY DEF Vouches
  <2>3. ASSUME NEW d \in Calls
        PROVE  (res[d] # None => Vouches(d, res[d]))'
    BY DEF Vouches
  <2>4. ASSUME NEW d \in Calls
        PROVE  (pc[d] = "read" => Vouches(d, body[d]))'
    BY DEF Vouches
  <2>5. ASSUME NEW d \in Calls
        PROVE  (pc[d] = "ok" /\ cmd[d] # "overview"
                => Vouches(d, body[d]) /\ runs[d] = 1)'
    BY DEF Vouches
  <2>6. QED BY <2>2, <2>3, <2>4, <2>5
<1>10. CASE Scan
  BY <1>10 DEF Scan, Vouches, EndedBefore
<1>11. ASSUME NEW c \in Calls, Pick(c)
     PROVE  AnswerInv'
  BY <1>11 DEF Pick, Vouches, EndedBefore
<1>12. CASE ReadLine
  BY <1>12 DEF ReadLine, Vouches, EndedBefore
<1>13. CASE RemoveRequest
  BY <1>13 DEF RemoveRequest, Vouches, EndedBefore
<1>14. CASE Run
  <2>1. \A a, d \in Calls :
          (pc[a] = "ok" /\ cmd[a] = "action" /\ EndedBefore(a, d))'
          => pc[a] = "ok" /\ cmd[a] = "action" /\ EndedBefore(a, d)
    BY <1>14 DEF Run, EndedBefore
  <2> USE <1>14, <2>1 DEF Run
  <2>2. (sh.at \in {"ran", "written"} => Vouches(sh.id, sh.out))'
    <3>1. PICK status \in {"ok", "error"} :
            /\ status = "ok" => sh.line = "command"
            /\ sh' = [sh EXCEPT !.at = "ran",
                       !.out = [status |-> status, seen |-> Executed']]
      OBVIOUS
    <3>2. sh'.id = sh.id /\ sh'.out = [status |-> status, seen |-> Executed']
      BY <3>1 DEF Shell
    <3>3. sh'.out \in Answer /\ sh'.out.status = status /\ sh'.out.seen = Executed'
      BY <3>2 DEF Answer, Executed
    <3>4. status = "ok" => runs'[sh.id] = 1
      BY <3>1
    <3>5. \A a \in Calls : pc[a] = "ok" /\ cmd[a] = "action" => a \in Executed'
      BY DEF Executed
    <3>6. QED BY <3>2, <3>3, <3>4, <3>5 DEF Vouches
  <2>3. ASSUME NEW d \in Calls
        PROVE  (res[d] # None => Vouches(d, res[d]))'
    BY DEF Vouches
  <2>4. ASSUME NEW d \in Calls
        PROVE  (pc[d] = "read" => Vouches(d, body[d]))'
    BY DEF Vouches
  <2>5. ASSUME NEW d \in Calls
        PROVE  (pc[d] = "ok" /\ cmd[d] # "overview"
                => Vouches(d, body[d]) /\ runs[d] = 1)'
    BY DEF Vouches
  <2>6. QED BY <2>2, <2>3, <2>4, <2>5
<1>15. CASE WriteAnswer
  BY <1>15 DEF WriteAnswer, Vouches, EndedBefore
<1>16. CASE PublishAnswer
  BY <1>16 DEF PublishAnswer, AtScan, Vouches, EndedBefore
<1>17. CASE Cleanup
  BY <1>17 DEF Cleanup, Vouches, EndedBefore
<1>18. CASE ShellStop
  BY <1>18 DEF ShellStop, Down, Vouches, EndedBefore
<1>19. CASE ShellStart
  BY <1>19 DEF ShellStart, AtScan, Vouches, EndedBefore
<1>20. CASE UNCHANGED vars
  BY <1>20 DEF vars, Vouches, EndedBefore
<1>21. QED
  BY <1>1, <1>2, <1>3, <1>4, <1>5, <1>6, <1>7, <1>8, <1>9, <1>10,
     <1>11, <1>12, <1>13, <1>14, <1>15, <1>16, <1>17, <1>18, <1>19, <1>20
  DEF Next, Begin, AppStep, ShellStep

LEMMA OrderStep == IInv /\ [Next]_vars => OrderInv'
<1> SUFFICES ASSUME IInv, [Next]_vars PROVE OrderInv'
  OBVIOUS
<1>0. TypeOK /\ PlaceInv /\ OrderInv
  BY DEF IInv
<1> USE <1>0, NoneIsNoCall
    DEF TypeOK, PlaceInv, OrderInv, CacheOutlivesNoAction, EndedBefore, ShellHolds,
        AppSteps, Returned, InFlight, Snapshot
<1>1. ASSUME NEW c \in Calls, NEW k \in Commands, WriteRequest(c, k)
     PROVE  OrderInv'
  BY <1>1 DEF WriteRequest
<1>2. ASSUME NEW c \in Calls, NEW k \in Commands, Refuse(c, k)
     PROVE  OrderInv'
  BY <1>2 DEF Refuse, Finish
<1>3. ASSUME NEW c \in Calls, ServeCached(c)
     PROVE  OrderInv'
  BY <1>3 DEF ServeCached
<1>4. ASSUME NEW c \in Calls, PublishRequest(c)
     PROVE  OrderInv'
  BY <1>4 DEF PublishRequest, Finish
<1>5. ASSUME NEW c \in Calls, ReadAnswer(c)
     PROVE  OrderInv'
  BY <1>5 DEF ReadAnswer
<1>6. ASSUME NEW c \in Calls, TakeAnswer(c)
     PROVE  OrderInv'
  BY <1>6 DEF TakeAnswer, Finish
<1>7. ASSUME NEW c \in Calls, Expire(c)
     PROVE  OrderInv'
  BY <1>7 DEF Expire
<1>8. ASSUME NEW c \in Calls, Withdraw(c)
     PROVE  OrderInv'
  BY <1>8 DEF Withdraw, Finish
<1>9. CASE AppRestart
  BY <1>9 DEF AppRestart
<1>10. CASE Scan
  BY <1>10 DEF Scan
<1>11. ASSUME NEW c \in Calls, Pick(c)
     PROVE  OrderInv'
  BY <1>11 DEF Pick
<1>12. CASE ReadLine
  BY <1>12 DEF ReadLine
<1>13. CASE RemoveRequest
  BY <1>13 DEF RemoveRequest
<1>14. CASE Run
  BY <1>14 DEF Run
<1>15. CASE WriteAnswer
  BY <1>15 DEF WriteAnswer
<1>16. CASE PublishAnswer
  BY <1>16 DEF PublishAnswer, AtScan
<1>17. CASE Cleanup
  BY <1>17 DEF Cleanup
<1>18. CASE ShellStop
  BY <1>18 DEF ShellStop, Down
<1>19. CASE ShellStart
  BY <1>19 DEF ShellStart, AtScan
<1>20. CASE UNCHANGED vars
  BY <1>20 DEF vars
<1>21. QED
  BY <1>1, <1>2, <1>3, <1>4, <1>5, <1>6, <1>7, <1>8, <1>9, <1>10,
     <1>11, <1>12, <1>13, <1>14, <1>15, <1>16, <1>17, <1>18, <1>19, <1>20
  DEF Next, Begin, AppStep, ShellStep

LEMMA Inductive == Spec => []IInv
<1>1. Init => IInv
  <2> SUFFICES ASSUME Init PROVE IInv
    OBVIOUS
  <2>1. TypeOK
    BY InitType
  <2>2. PlaceInv
    BY NoneIsNoCall DEF Init, PlaceInv, AtScan
  <2>3. AnswerInv
    BY DEF Init, AnswerInv, AtScan
  <2>4. OrderInv
    BY DEF Init, OrderInv, AtScan, CacheOutlivesNoAction, EndedBefore
  <2>5. QED BY <2>1, <2>2, <2>3, <2>4 DEF IInv
<1>2. IInv /\ [Next]_vars => IInv'
  BY TypeStep, PlaceStep, AnswerStep, OrderStep DEF IInv
<1>3. QED
  BY <1>1, <1>2, PTL DEF Spec

-----------------------------------------------------------------------------
(* The theorems.                                                            *)

\* Every variable keeps its type, for any set of calls.
THEOREM TypeCorrect == Spec => []TypeOK
<1>1. IInv => TypeOK
  BY DEF IInv
<1>2. QED
  BY <1>1, Inductive, PTL

\* No command is run twice and none is confirmed that was not run, however
\* often the container and the app stop; a refused call has no effect.
THEOREM CommandsRunOnce == Spec => []RunsMatchOutcomes
<1>1. IInv => RunsMatchOutcomes
  BY DEF IInv, PlaceInv, AnswerInv, RunsMatchOutcomes
<1>2. QED
  BY <1>1, Inductive, PTL

\* The queue page shows the effect of every action confirmed before it was
\* asked for.
THEOREM PagesAreFresh == Spec => []PageIsFresh
<1>1. IInv => PageIsFresh
  BY DEF IInv, AnswerInv, Vouches, PageIsFresh
<1>2. QED
  BY <1>1, Inductive, PTL

\* The cached snapshot is never older than the last confirmed action, unless
\* it was being taken while that action was confirmed.
THEOREM CacheIsDropped == Spec => []CacheOutlivesNoAction
<1>1. IInv => CacheOutlivesNoAction
  BY DEF IInv, OrderInv
<1>2. QED
  BY <1>1, Inductive, PTL

\* Once a caller knows how its call ended, timeouts included, that command
\* does not take effect after one asked for later.
THEOREM RunsInOrder == Spec => NoOvertaking
<1>1. IInv /\ [Next]_vars =>
        [\A a, b \in Calls :
           EndedBefore(a, b) /\ runs[b] > 0 => runs'[a] = runs[a]]_vars
  <2> SUFFICES ASSUME IInv, Next, NEW a \in Calls, NEW b \in Calls,
                      EndedBefore(a, b), runs[b] > 0
               PROVE  runs'[a] = runs[a]
    BY DEF vars
  <2>1. TypeOK /\ ~ShellHolds(a)
    BY DEF IInv, OrderInv, TypeOK
  <2>2. CASE Run
    BY <2>1, <2>2 DEF Run, ShellHolds, TypeOK
  <2>3. CASE ~Run
    BY <2>3 DEF Next, Begin, AppStep, ShellStep, WriteRequest, Refuse, ServeCached,
       PublishRequest, ReadAnswer, TakeAnswer, Expire, Withdraw, AppRestart, Scan,
       Pick, ReadLine, RemoveRequest, WriteAnswer, PublishAnswer, Cleanup,
       ShellStop, ShellStart
  <2>4. QED BY <2>2, <2>3
<1>2. QED
  BY <1>1, Inductive, PTL DEF Spec, NoOvertaking

-----------------------------------------------------------------------------
(* The channel implements the serial command service.                       *)

\* A step that tells nobody anything, and changes no stage except from pending
\* or taken to dropped, is a loss or a stutter.
Loses == /\ Told' = Told
         /\ \A c \in Calls : \/ Stage'[c] = Stage[c]
                             \/ Stage[c] \in {"pending", "taken"} /\ Stage'[c] = "dropped"

LEMMA LosesIsStep == ASSUME Loses PROVE Service!ANext
<1> DEFINE S == {c \in Calls : Stage'[c] # Stage[c]}
<1>1. S \subseteq Service!Pending \cup Service!Taken
  BY DEF Loses, Service!Pending, Service!Taken
<1>2. Stage' = [c \in Calls |-> IF c \in S THEN "dropped" ELSE Stage[c]]
  <2>1. \A c \in Calls : Stage'[c] = IF c \in S THEN "dropped" ELSE Stage[c]
    BY DEF Loses
  <2> HIDE DEF S
  <2>2. QED BY <2>1 DEF Stage
<1> HIDE DEF S
<1>3. S \in SUBSET Calls
  BY DEF S
<1>4. Service!Lose(S)
  BY <1>1, <1>2 DEF Loses, Service!Lose
<1>5. QED BY <1>3, <1>4 DEF Service!ANext

\* The stage of one command, or what one caller was told, becomes v.
Moves(c, v) == \A d \in Calls : Stage'[d] = IF d = c THEN v ELSE Stage[d]
Tells(c, v) == \A d \in Calls : Told'[d] = IF d = c THEN v ELSE Told[d]

LEMMA MovesIsExcept ==
  ASSUME NEW c \in Calls, NEW v
  PROVE  /\ Moves(c, v) => Stage' = [Stage EXCEPT ![c] = v]
         /\ Tells(c, v) => Told' = [Told EXCEPT ![c] = v]
BY DEF Moves, Tells, Stage, Told

LEMMA StepImplements ==
  IInv /\ [Next]_vars => [Service!ANext]_(Service!abstractVars)
<1> SUFFICES ASSUME IInv, [Next]_vars
             PROVE  Service!ANext \/ UNCHANGED <<Stage, Told>>
  BY DEF Service!abstractVars
<1>0. TypeOK /\ PlaceInv
  BY DEF IInv
<1>a. sh.at \notin {"scan", "down"} => sh.id \in Calls
  BY <1>0, NoneIsNoCall DEF TypeOK, PlaceInv, Shell
<1> USE <1>0, <1>a
    DEF TypeOK, PlaceInv, AppSteps, Returned, InFlight
<1>1. ASSUME NEW c \in Calls, NEW k \in Commands, WriteRequest(c, k)
     PROVE  Service!ANext \/ UNCHANGED <<Stage, Told>>
  <2>1. Stage[c] = "new" /\ Moves(c, "pending") /\ Told' = Told
    BY <1>1 DEF WriteRequest, Moves, Tells, Stage, Told, ShellHolds, Awaits
  <2>2. Service!Submit(c)
    BY <2>1, MovesIsExcept DEF Service!Submit, Service!Taken
  <2>3. QED BY <2>2 DEF Service!ANext
<1>2. ASSUME NEW c \in Calls, NEW k \in Commands, Refuse(c, k)
     PROVE  Service!ANext \/ UNCHANGED <<Stage, Told>>
  <2>1. Stage[c] = "new" /\ Moves(c, "dropped") /\ Told[c] = "nothing" /\ Tells(c, "ended")
    BY <1>2 DEF Refuse, Finish, Moves, Tells, Stage, Told, ShellHolds, Awaits
  <2>2. Service!End(c)
    BY <2>1, MovesIsExcept DEF Service!End, Service!Taken
  <2>3. QED BY <2>2 DEF Service!ANext
<1>3. ASSUME NEW c \in Calls, ServeCached(c)
     PROVE  Service!ANext \/ UNCHANGED <<Stage, Told>>
  <2>1. Stage[c] = "new" /\ Moves(c, "dropped") /\ Told[c] = "nothing" /\ Tells(c, "ended")
    BY <1>3 DEF ServeCached, Moves, Tells, Stage, Told, ShellHolds, Awaits
  <2>2. Service!End(c)
    BY <2>1, MovesIsExcept DEF Service!End, Service!Taken
  <2>3. QED BY <2>2 DEF Service!ANext
<1>4. ASSUME NEW c \in Calls, PublishRequest(c)
     PROVE  Service!ANext \/ UNCHANGED <<Stage, Told>>
  <2>1. CASE tmp[c] = "request"
    <3>1. Loses
      BY <1>4, <2>1 DEF PublishRequest, Loses, Stage, Told, ShellHolds, Awaits
    <3>2. QED BY <3>1, LosesIsStep
  <2>2. CASE tmp[c] # "request"
    <3>1. Stage[c] \notin {"new", "pending"} /\ Stage' = Stage /\ Told[c] = "nothing" /\ Tells(c, "ended")
      BY <1>4, <2>2 DEF PublishRequest, Finish, Moves, Tells, Stage, Told, ShellHolds, Awaits
    <3>2. Service!End(c)
      BY <3>1, MovesIsExcept DEF Service!End, Service!Taken
    <3>3. QED BY <3>2 DEF Service!ANext
  <2>3. QED BY <2>1, <2>2
<1>5. ASSUME NEW c \in Calls, ReadAnswer(c)
     PROVE  Service!ANext \/ UNCHANGED <<Stage, Told>>
  <2>1. Loses
    BY <1>5 DEF ReadAnswer, Loses, Stage, Told, ShellHolds, Awaits
  <2>2. QED BY <2>1, LosesIsStep
<1>6. ASSUME NEW c \in Calls, TakeAnswer(c)
     PROVE  Service!ANext \/ UNCHANGED <<Stage, Told>>
  <2>0. body[c].status \in {"ok", "error"} /\ (body[c].status = "ok" => runs[c] = 1)
    BY <1>6 DEF IInv, AnswerInv, Vouches, Answer, TakeAnswer
  <2>1. CASE body[c].status = "ok" /\ cmd[c] # "overview"
    <3>1. Stage[c] = "executed" /\ Stage' = Stage /\ Told[c] = "nothing" /\ Tells(c, "confirmed")
      BY <1>6, <2>0, <2>1 DEF TakeAnswer, Finish, Moves, Tells, Stage, Told, ShellHolds, Awaits
    <3>2. Service!Confirm(c)
      BY <3>1, MovesIsExcept DEF Service!Confirm, Service!Taken
    <3>3. QED BY <3>2 DEF Service!ANext
  <2>2. CASE ~(body[c].status = "ok" /\ cmd[c] # "overview")
    <3>1. Stage[c] \notin {"new", "pending"} /\ Stage' = Stage /\ Told[c] = "nothing" /\ Tells(c, "ended")
      BY <1>6, <2>0, <2>2 DEF TakeAnswer, Finish, Moves, Tells, Stage, Told, ShellHolds, Awaits
    <3>2. Service!End(c)
      BY <3>1, MovesIsExcept DEF Service!End, Service!Taken
    <3>3. QED BY <3>2 DEF Service!ANext
  <2>3. QED BY <2>1, <2>2
<1>7. ASSUME NEW c \in Calls, Expire(c)
     PROVE  Service!ANext \/ UNCHANGED <<Stage, Told>>
  <2>1. Loses
    BY <1>7 DEF Expire, Loses, Stage, Told, ShellHolds, Awaits
  <2>2. QED BY <2>1, LosesIsStep
<1>8. ASSUME NEW c \in Calls, Withdraw(c)
     PROVE  Service!ANext \/ UNCHANGED <<Stage, Told>>
  <2>1. CASE Stage[c] = "pending"
    <3>1. Moves(c, "dropped") /\ Told[c] = "nothing" /\ Tells(c, "ended")
      BY <1>8, <2>1 DEF Withdraw, Finish, Moves, Tells, Stage, Told, ShellHolds, Awaits
    <3>2. Service!End(c)
      BY <2>1, <3>1, MovesIsExcept DEF Service!End, Service!Taken
    <3>3. QED BY <3>2 DEF Service!ANext
  <2>2. CASE Stage[c] # "pending"
    <3>1. Stage[c] \notin {"new", "pending"} /\ Stage' = Stage /\ Told[c] = "nothing" /\ Tells(c, "ended")
      BY <1>8, <2>2 DEF Withdraw, Finish, Moves, Tells, Stage, Told, ShellHolds, Awaits
    <3>2. Service!End(c)
      BY <3>1, MovesIsExcept DEF Service!End, Service!Taken
    <3>3. QED BY <3>2 DEF Service!ANext
  <2>3. QED BY <2>1, <2>2
<1>9. CASE AppRestart
  <2>1. Loses
    BY <1>9 DEF AppRestart, Loses, Stage, Told, ShellHolds, Awaits
  <2>2. QED BY <2>1, LosesIsStep
<1>10. CASE Scan
  <2>1. Loses
    BY <1>10 DEF Scan, Loses, Stage, Told, ShellHolds, Awaits
  <2>2. QED BY <2>1, LosesIsStep
<1>11. ASSUME NEW c \in Calls, Pick(c)
     PROVE  Service!ANext \/ UNCHANGED <<Stage, Told>>
  <2>1. Loses
    BY <1>11 DEF Pick, Loses, Stage, Told, ShellHolds, Awaits
  <2>2. QED BY <2>1, LosesIsStep
<1>12. CASE ReadLine
  <2>0. sh.id \in Calls
    BY <1>12 DEF ReadLine
  <2>1. CASE sh.id \in req
    <3>1. Stage[sh.id] = "pending" /\ Moves(sh.id, "taken") /\ Told' = Told
          /\ \A d \in Calls : Stage[d] # "taken"
      BY <1>12, <2>0, <2>1 DEF ReadLine, Shell, Moves, Tells, Stage, Told, ShellHolds, Awaits
    <3>2. Service!Take(sh.id)
      BY <2>0, <3>1, MovesIsExcept DEF Service!Take, Service!Taken
    <3>3. QED BY <2>0, <3>2 DEF Service!ANext
  <2>2. CASE sh.id \notin req
    <3>1. Loses
      BY <1>12, <2>2 DEF ReadLine, Shell, Loses, Stage, Told, ShellHolds, Awaits
    <3>2. QED BY <3>1, LosesIsStep
  <2>3. QED BY <2>1, <2>2
<1>13. CASE RemoveRequest
  <2>1. Loses
    BY <1>13 DEF RemoveRequest, Loses, Stage, Told, ShellHolds, Awaits
  <2>2. QED BY <2>1, LosesIsStep
<1>14. CASE Run
  <2>0. sh.id \in Calls
    BY <1>14 DEF Run
  <2>1. CASE sh.line = "command"
    <3>1. Stage[sh.id] = "taken" /\ Moves(sh.id, "executed") /\ Told' = Told
      BY <1>14, <2>0, <2>1 DEF Run, Shell, Moves, Tells, Stage, Told, ShellHolds, Awaits
    <3>2. Service!Execute(sh.id)
      BY <2>0, <3>1, MovesIsExcept DEF Service!Execute, Service!Taken
    <3>3. QED BY <2>0, <3>2 DEF Service!ANext
  <2>2. CASE sh.line # "command"
    <3>1. Loses
      BY <1>14, <2>2 DEF Run, Shell, Loses, Stage, Told, ShellHolds, Awaits
    <3>2. QED BY <3>1, LosesIsStep
  <2>3. QED BY <2>1, <2>2
<1>15. CASE WriteAnswer
  <2>1. Loses
    BY <1>15 DEF WriteAnswer, Loses, Stage, Told, ShellHolds, Awaits
  <2>2. QED BY <2>1, LosesIsStep
<1>16. CASE PublishAnswer
  <2>1. Loses
    BY <1>16 DEF PublishAnswer, AtScan, Loses, Stage, Told, ShellHolds, Awaits
  <2>2. QED BY <2>1, LosesIsStep
<1>17. CASE Cleanup
  <2>1. Loses
    BY <1>17 DEF Cleanup, Loses, Stage, Told, ShellHolds, Awaits
  <2>2. QED BY <2>1, LosesIsStep
<1>18. CASE ShellStop
  <2>1. Loses
    BY <1>18 DEF ShellStop, Down, Loses, Stage, Told, ShellHolds, Awaits
  <2>2. QED BY <2>1, LosesIsStep
<1>19. CASE ShellStart
  <2>1. Loses
    BY <1>19 DEF ShellStart, AtScan, Loses, Stage, Told, ShellHolds, Awaits
  <2>2. QED BY <2>1, LosesIsStep
<1>20. CASE UNCHANGED vars
  BY <1>20 DEF vars, Stage, Told, ShellHolds, Awaits
<1>21. QED
  BY <1>1, <1>2, <1>3, <1>4, <1>5, <1>6, <1>7, <1>8, <1>9, <1>10,
     <1>11, <1>12, <1>13, <1>14, <1>15, <1>16, <1>17, <1>18, <1>19, <1>20
  DEF Next, Begin, AppStep, ShellStep

\* The channel is a serial server that takes each command at most once, drops
\* it or executes it, and tells its caller no more than what happened.
THEOREM ChannelImplementsService == Spec => ImplementsService
<1>1. Init => Service!AInit
  BY DEF Init, Service!AInit, Stage, Told, Returned
<1>2. IInv /\ [Next]_vars => [Service!ANext]_(Service!abstractVars)
  BY StepImplements
<1>3. QED
  BY <1>1, <1>2, Inductive, PTL DEF Spec, ImplementsService, Service!ASpec

-----------------------------------------------------------------------------
(* The reader of the log.                                                   *)

\* Lines handled, and not for a reason that may repeat them.
Once == {l \in Lines : handled[l] > 0 /\ l \notin again}
Covered == Handled \cup gaps \cup cutOff
End(i) == file[i].base + file[i].len
Known(i) == i \in Inodes /\ file[i] # Nil

\* The variables' types, as the arithmetic below needs them.
Plain ==
  /\ \A i \in Inodes : file[i] # Nil => file[i].base \in Nat /\ file[i].len \in Nat
  /\ log \in Inodes /\ torn \in {0, 1} /\ count \in Nat
  /\ path \in Inodes \cup {Nil}
  /\ saved # Nil => saved.ino \in Inodes /\ saved.pos \in Nat
  /\ savedPos \in Nat \cup {Nil}
  /\ at \in {"off", "idle", "stat", "open", "read", "process", "close", "save"}
  /\ fh \in Inodes \cup {Nil, Closed} /\ ino \in Inodes \cup {Nil}
  /\ pos \in Nat /\ part \in {0, 1} /\ part <= pos
  /\ st \in Inodes \cup {Nil} /\ resume \in Nat /\ goal \in {"save", "switch"}
  /\ next \in Nat /\ last \in Nat /\ broken \in BOOLEAN
  /\ stopping \in {"no", "saved", "closed"} /\ clean \in BOOLEAN
  /\ base \in Nat /\ savedBase \in Nat
  /\ \A l \in Lines : handled[l] \in Nat

\* The log is the newest file: it ends with the last line written, and the others end
\* where it begins or before.
FilesInv ==
  /\ Known(log) /\ count = End(log) /\ count <= MaxLines
  /\ torn = 1 => file[log].len > 0
  /\ \A i \in Inodes : Known(i) /\ i # log => End(i) <= file[log].base

\* What the reader remembers are files that exist.
KnownInv ==
  /\ path # Nil => path = log
  /\ saved # Nil => Known(saved.ino)
  /\ ino # Nil => Known(ino)
  /\ st # Nil => Known(st)
  /\ fh \in Inodes => Known(fh)
  /\ fh # Nil => ino # Nil
  /\ at \notin {"off", "idle", "stat"} => st # Nil

\* At which step of a tick the file is open, and what is left to resume at.
PhaseInv ==
  /\ fh = Closed => at \in {"idle", "stat", "read", "open"}
  /\ fh \in Inodes => at # "open" /\ at # "off"
  /\ at = "off" => fh = Nil /\ stopping = "no"
  /\ fh = Nil /\ stopping = "no" => at \in {"off", "idle", "stat", "open"}
  /\ at = "close" => goal = "switch"
  /\ goal = "switch" => resume = 0
  /\ at = "open" /\ resume > 0 => fh = Nil /\ saved # Nil /\ saved.ino = st /\ saved.pos = resume

\* A clean stop found no tick in progress, and has what was read on record.
CleanInv ==
  /\ clean => stopping # "no" /\ at = "idle"
  /\ clean /\ fh # Nil => saved # Nil /\ saved.ino = ino /\ saved.pos = Done
  /\ clean /\ stopping = "closed" => fh = Nil

\* A file that is to be left, or was opened under another's number, is not the log;
\* positions on record were measured in contents that are not newer than the log's.
OldInv ==
  /\ base <= file[log].base /\ savedBase <= file[log].base
  /\ fh = Closed => ino # log
  /\ goal = "switch" /\ at \in {"read", "process", "close"} => ino # log
  /\ fh \in Inodes /\ fh # ino => ino # log /\ End(ino) <= base /\ End(ino) <= file[fh].base

\* The lines in hand were written.
HandInv == at = "process" => 1 <= next /\ next <= last /\ last <= count /\ ino # Nil

StepInv == KnownInv /\ PhaseInv /\ CleanInv /\ OldInv /\ HandInv

\* Lines handled before an unclean end may be repeated.
TwiceInv ==
  /\ NoRepeat
  /\ \A l \in Lines : handled[l] > 0 => l <= count
  /\ stopping # "no" /\ ~clean => Once = {}

\* How far the lines handled reach, while the file is open ...
OpenFront ==
  /\ fh \in Inodes /\ fh # ino => \A l \in Once : l <= file[fh].base
  /\ fh \in Inodes /\ at # "process" =>
       \A l \in Once : l <= file[fh].base \/ (pos <= Size(fh) /\ l <= file[fh].base + Done \div 2)
HandFront ==
  /\ fh \in Inodes /\ at = "process" => \A l \in Once : l < next
  /\ fh \in Inodes /\ fh = ino /\ at = "process" =>
       last <= file[fh].base \/ (pos <= Size(fh) /\ last = file[fh].base + pos \div 2)
\* ... and while it is not: no further than where the next one to open is resumed.
ShutFront ==
  /\ fh = Closed => \A l \in Once : l <= file[log].base
  /\ fh = Nil /\ at # "open" =>
       \A l \in Once : \/ l <= file[log].base
                       \/ /\ saved # Nil /\ saved.ino = log /\ saved.pos <= Size(log)
                          /\ l <= file[log].base + saved.pos \div 2
  /\ at = "open" =>
       \A l \in Once : \/ l <= file[log].base
                       \/ /\ log = st /\ resume <= Size(log)
                          /\ l <= file[log].base + resume \div 2

\* A position measured in the log's present contents is within them.
WithinInv ==
  /\ saved # Nil /\ saved.ino = log /\ savedBase = file[log].base => saved.pos <= Size(log)
  /\ ino # Nil /\ ino = log /\ base = file[log].base => pos <= Size(log)

\* What was read before the position of the reader is covered, or in hand.
CoverInv ==
  ino # Nil /\ base = file[ino].base /\ at # "process" => Before(ino, Done) \subseteq Covered
HandCover ==
  at = "process" /\ base = file[ino].base =>
    /\ \A l \in LinesOf(ino) : l < next \/ (l = next /\ broken) => l \in Covered
    /\ (ino # log /\ LinesOf(ino) = {}) \/ last = base + pos \div 2

Shapes ==
  /\ file \in [Inodes -> File \cup {Nil}] /\ file[log] # Nil
  /\ handled \in [Lines -> Nat] /\ saved \in Place \cup {Nil}
Marks ==
  /\ gaps \in SUBSET Lines /\ cutOff \in SUBSET Lines /\ again \in SUBSET Lines
  /\ {rotations, cuts, ends} \subseteq Nat

TailInv == /\ Shapes /\ Marks /\ Plain /\ FilesInv /\ StepInv
           /\ TwiceInv /\ OpenFront /\ HandFront /\ ShutFront
           /\ SavedBehind /\ WithinInv /\ CoverInv /\ HandCover

-----------------------------------------------------------------------------
\* The markers are neither inodes nor what is stored under one.
LEMMA MarkersApart ==
  /\ Nil \notin File \cup Place /\ Nil \notin Inodes /\ Closed \notin Inodes /\ Nil # Closed
  /\ MaxLines \in Nat
BY NoInode, NoRecord, TailBounds DEF File, Place

USE MarkersApart DEF files, handle, record, tail, chunk, plan, ending, lineHistory, limits, Lines, Size, End, Done, Known

\* Postfix writes to the newest file, past every position.
LEMMA WriteHalfKeeps ==
  ASSUME TailInv, Shapes', Marks', Plain', WriteHalf
  PROVE  TailInv'
<1>1. /\ torn = 0 /\ torn' = 1 /\ count < MaxLines /\ log' = log /\ count' = count + 1
      /\ file \in [Inodes -> File \cup {Nil}] /\ file' = [file EXCEPT ![log].len = @ + 1]
  BY DEF TailInv, Shapes, WriteHalf
<1>2. /\ \A i \in Inodes : i # log => file'[i] = file[i]
      /\ Known(log)' /\ file'[log].base = file[log].base /\ file'[log].len = file[log].len + 1
  <2>1. Known(log) /\ file[log] \in File /\ file[log].len \in Nat
    BY <1>1 DEF TailInv, Plain, FilesInv, File
  <2>2. file'[log] = [file[log] EXCEPT !.len = @ + 1] /\ \A i \in Inodes : i # log => file'[i] = file[i]
    BY <1>1, <2>1
  <2>3. file'[log] \in File
    BY <2>1, <2>2 DEF File
  <2>4. Nil \notin File
    BY DEF TailInv, Plain
  <2> QED BY <1>1, <2>1, <2>2, <2>3, <2>4 DEF File
<1>3. /\ \A i \in Inodes : Known(i) => file'[i].base = file[i].base /\ (i # log => Size(i)' = Size(i))
      /\ Size(log) = 2 * file[log].len /\ Size(log)' = 2 * file[log].len + 1
  BY <1>1, <1>2 DEF TailInv, Plain, FilesInv
<1>4. gaps \subseteq gaps' /\ UNCHANGED <<path, at, tail, plan, chunk, ending, handled, cutOff, again>>
  BY DEF WriteHalf
<1>5. FilesInv'
  BY <1>1, <1>2 DEF TailInv, Plain, FilesInv
<1>15. KnownInv' /\ PhaseInv' /\ CleanInv'
  BY <1>1, <1>2, <1>4 DEF TailInv, Plain, StepInv, KnownInv, PhaseInv, CleanInv
<1>6. OldInv' /\ HandInv' /\ TwiceInv'
  BY <1>1, <1>2, <1>4 DEF TailInv, Plain, FilesInv, StepInv, KnownInv, OldInv, HandInv, TwiceInv, NoRepeat, Once
<1>7. OpenFront' /\ HandFront'
  BY <1>1, <1>2, <1>3, <1>4 DEF TailInv, Plain, FilesInv, StepInv, KnownInv, OpenFront, HandFront, Once
<1>8. ShutFront' /\ WithinInv'
  BY <1>1, <1>2, <1>3, <1>4 DEF TailInv, Plain, FilesInv, StepInv, KnownInv, ShutFront, Once, WithinInv
<1>9. Covered \subseteq Covered'
  BY <1>4 DEF Covered, Handled
<1>10. \A i \in Inodes : Known(i) =>
         \A l \in LinesOf(i)' : l \in LinesOf(i) \/ (i = log /\ l = count + 1 /\ l = file[log].base + file[log].len + 1)
  BY <1>1, <1>2 DEF TailInv, Plain, FilesInv, LinesOf
<1>11. \A i \in Inodes, p \in Nat : Known(i) /\ (i = log => p <= Size(log)) => Before(i, p)' \subseteq Before(i, p)
  BY <1>1, <1>2, <1>3, <1>10 DEF TailInv, Plain, FilesInv, Before
<1>12. SavedBehind'
  <2>1. saved' = saved /\ savedBase' = savedBase /\ (saved # Nil => file'[saved.ino].base = file[saved.ino].base)
    BY <1>3, <1>4 DEF TailInv, StepInv, KnownInv
  <2>2. CASE saved # Nil /\ file[saved.ino].base = savedBase
    <3>1. Before(saved.ino, saved.pos)' \subseteq Before(saved.ino, saved.pos)
      BY <1>11, <2>2, <2>1 DEF TailInv, Plain, StepInv, KnownInv, WithinInv
    <3> QED BY <1>9, <2>1, <2>2, <3>1 DEF TailInv, SavedBehind, OnRecord, Covered
  <2> QED BY <2>1, <2>2 DEF SavedBehind, OnRecord
<1>13. CoverInv'
  <2>1. CASE ino # Nil /\ base = file[ino].base /\ at # "process"
    <3>1. Before(ino, Done)' \subseteq Before(ino, Done)
      BY <1>11, <1>4, <2>1 DEF TailInv, Plain, StepInv, KnownInv, WithinInv
    <3> QED BY <1>9, <2>1, <3>1 DEF TailInv, CoverInv
  <2> QED BY <1>3, <1>4, <2>1 DEF TailInv, StepInv, KnownInv, CoverInv
<1>14. HandCover'
  <2> SUFFICES ASSUME at = "process", base = file[ino].base
               PROVE  HandCover'
    BY <1>3, <1>4 DEF HandCover, TailInv, StepInv, HandInv, KnownInv
  <2>1. /\ ino' = ino /\ Known(ino) /\ next <= count /\ ino \in Inodes
        /\ \A l \in LinesOf(ino) : l < next \/ (l = next /\ broken) => l \in Covered
    BY <1>4 DEF TailInv, StepInv, HandInv, KnownInv, HandCover, Plain
  <2>2. \A l \in LinesOf(ino)' : l < next \/ (l = next /\ broken) => l \in Covered'
    BY <1>9, <1>10, <2>1 DEF TailInv, Plain
  <2>3. ((ino # log /\ LinesOf(ino) = {}) \/ last = base + pos \div 2)'
    BY <1>1, <1>4, <1>10, <2>1 DEF TailInv, HandCover
  <2> QED BY <1>4, <2>2, <2>3 DEF HandCover
<1> QED BY <1>5, <1>15, <1>6, <1>7, <1>8, <1>12, <1>13, <1>14 DEF TailInv, StepInv

\* The new file begins where the log ended, so every other file ends before it.
LEMMA RecreateKeeps ==
  ASSUME TailInv, Shapes', Marks', Plain', Recreate
  PROVE  TailInv'
<1>1. /\ torn = 0 /\ torn' = 0 /\ count' = count /\ log' \in Inodes /\ file[log'] = Nil /\ path = Nil /\ path' = log'
      /\ file \in [Inodes -> File \cup {Nil}] /\ file' = [file EXCEPT ![log'] = [base |-> count, len |-> 0]]
  BY DEF TailInv, Shapes, Recreate
<1>2. /\ Known(log) /\ log # log' /\ \A i \in Inodes : i # log' => file'[i] = file[i]
      /\ Known(log)' /\ file'[log'].base = count /\ file'[log'].len = 0
  <2>1. Known(log) /\ log # log' /\ count \in Nat
    BY <1>1 DEF TailInv, Plain, FilesInv
  <2>2. /\ file'[log'] = [base |-> count, len |-> 0] /\ \A i \in Inodes : i # log' => file'[i] = file[i]
    BY <1>1
  <2>3. [base |-> count, len |-> 0] \in File /\ Nil \notin File
    BY <2>1 DEF File, TailInv, Plain
  <2> QED BY <1>1, <2>1, <2>2, <2>3
<1>3. \A i \in Inodes : Known(i) => i # log' /\ file'[i] = file[i] /\ Size(i)' = Size(i)
  BY <1>1, <1>2
<1>4. UNCHANGED <<torn, count, at, tail, plan, chunk, ending, lineHistory>>
  BY DEF Recreate
<1>5. /\ file[log].base <= count /\ file[log].base \in Nat /\ End(log) = count
      /\ \A i \in Inodes : Known(i) => End(i) <= count /\ file[i].base <= count
  <2>1. file[log].base <= count /\ file[log].base \in Nat /\ End(log) = count /\ count \in Nat
    BY <1>2 DEF TailInv, Plain, FilesInv
  <2>2. ASSUME NEW i \in Inodes, Known(i)
        PROVE  End(i) <= count /\ file[i].base <= count
    <3>1. file[i].base \in Nat /\ file[i].len \in Nat
      BY <2>2 DEF TailInv, Plain
    <3>2. i = log \/ End(i) <= file[log].base
      BY <2>2 DEF TailInv, FilesInv
    <3> QED BY <2>1, <3>1, <3>2
  <2> QED BY <2>1, <2>2
<1>6. FilesInv'
  BY <1>1, <1>2, <1>3, <1>4, <1>5 DEF TailInv, Plain, FilesInv
<1>7. KnownInv' /\ PhaseInv' /\ CleanInv'
  BY <1>1, <1>2, <1>3, <1>4 DEF TailInv, Plain, StepInv, KnownInv, PhaseInv, CleanInv
<1>8. OldInv' /\ HandInv'
  BY <1>1, <1>2, <1>3, <1>4, <1>5 DEF TailInv, Plain, StepInv, KnownInv, OldInv, HandInv
<1>9. Once' = Once /\ TwiceInv'
  BY <1>4 DEF TailInv, TwiceInv, NoRepeat, Once
<1>10. OpenFront' /\ HandFront'
  BY <1>3, <1>4, <1>9 DEF TailInv, StepInv, KnownInv, OpenFront, HandFront
<1>11. ShutFront'
  <2>1. \A l \in Once : l <= count /\ l \in Nat
    BY DEF TailInv, TwiceInv, Once
  <2> QED BY <1>2, <1>9, <2>1 DEF ShutFront
<1>12. WithinInv'
  BY <1>3, <1>4 DEF TailInv, StepInv, KnownInv, WithinInv
<1>13. /\ \A i \in Inodes : Known(i) => /\ LinesOf(i)' = LinesOf(i) /\ Before(i, saved.pos)' = Before(i, saved.pos)
                                        /\ Before(i, Done)' = Before(i, Done)
       /\ Covered' = Covered
  BY <1>3, <1>4 DEF LinesOf, Before, Covered, Handled
<1>14. SavedBehind'
  BY <1>3, <1>4, <1>13 DEF TailInv, StepInv, KnownInv, SavedBehind, OnRecord, Covered
<1>15. CoverInv' /\ HandCover'
  BY <1>3, <1>4, <1>13 DEF TailInv, StepInv, KnownInv, HandInv, CoverInv, HandCover
<1> QED BY <1>6, <1>7, <1>8, <1>9, <1>10, <1>11, <1>12, <1>14, <1>15 DEF TailInv, StepInv

\* The emptied log begins anew, so no older position was measured in its contents.
LEMMA TruncateKeeps ==
  ASSUME TailInv, Shapes', Marks', Plain', Truncate
  PROVE  TailInv'
<1>1. /\ torn = 0 /\ torn' = 0 /\ count' = count /\ log' = log /\ path = log /\ path' = path /\ file[log].len > 0
      /\ file \in [Inodes -> File \cup {Nil}] /\ file' = [file EXCEPT ![log] = [base |-> count, len |-> 0]]
  BY DEF TailInv, StepInv, KnownInv, Shapes, Truncate
<1>2. /\ Known(log) /\ \A i \in Inodes : i # log => file'[i] = file[i]
      /\ Known(log)' /\ file'[log].base = count /\ file'[log].len = 0
  <2>1. Known(log) /\ count \in Nat
    BY <1>1 DEF TailInv, Plain, FilesInv
  <2>2. /\ file'[log] = [base |-> count, len |-> 0] /\ \A i \in Inodes : i # log => file'[i] = file[i]
    BY <1>1, <2>1
  <2>3. [base |-> count, len |-> 0] \in File /\ Nil \notin File
    BY <2>1 DEF File, TailInv, Plain
  <2> QED BY <1>1, <2>1, <2>2, <2>3
<1>3. \A i \in Inodes : i # log => file'[i] = file[i] /\ Size(i)' = Size(i)
  BY <1>1, <1>2
<1>4. gaps \subseteq gaps' /\ UNCHANGED <<at, tail, plan, chunk, ending, handled, cutOff, again>>
  BY DEF Truncate
<1>5. /\ file[log].base < count /\ file[log].base \in Nat /\ base < count /\ savedBase < count
      /\ \A i \in Inodes : Known(i) => End(i) <= count /\ file[i].base <= count
  BY <1>1, <1>2 DEF TailInv, Plain, FilesInv, StepInv, OldInv
<1>6. FilesInv'
  BY <1>1, <1>2, <1>5 DEF TailInv, Plain, FilesInv
<1>7. KnownInv' /\ PhaseInv' /\ CleanInv'
  BY <1>1, <1>2, <1>4 DEF TailInv, Plain, StepInv, KnownInv, PhaseInv, CleanInv
<1>8. OldInv' /\ HandInv'
  BY <1>1, <1>2, <1>4, <1>5 DEF TailInv, Plain, StepInv, KnownInv, OldInv, HandInv
<1>9. /\ Once' = Once /\ TwiceInv' /\ \A l \in Once : l <= count /\ l \in Nat
  BY <1>1, <1>4 DEF TailInv, TwiceInv, NoRepeat, Once
<1>10. OpenFront' /\ HandFront'
  BY <1>1, <1>2, <1>3, <1>4, <1>9 DEF TailInv, Plain, StepInv, KnownInv, HandInv, OpenFront, HandFront
<1>11. ShutFront'
  BY <1>1, <1>2, <1>9 DEF ShutFront
<1>12. WithinInv'
  BY <1>1, <1>2, <1>4, <1>5 DEF TailInv, Plain, WithinInv
<1>13. /\ \A i \in Inodes : i # log => /\ LinesOf(i)' = LinesOf(i) /\ Before(i, saved.pos)' = Before(i, saved.pos)
                                       /\ Before(i, Done)' = Before(i, Done)
       /\ Covered \subseteq Covered'
  BY <1>3, <1>4 DEF LinesOf, Before, Covered, Handled
<1>14. SavedBehind'
  <2>1. CASE saved # Nil /\ saved.ino = log
    BY <1>1, <1>2, <1>4, <1>5, <2>1 DEF TailInv, Plain, SavedBehind, OnRecord
  <2>2. CASE ~(saved # Nil /\ saved.ino = log)
    BY <1>3, <1>4, <1>13, <2>2 DEF TailInv, Plain, SavedBehind, OnRecord, Covered
  <2> QED BY <2>1, <2>2
<1>15. CoverInv' /\ HandCover'
  <2>1. CASE ino = log
    BY <1>1, <1>2, <1>4, <1>5, <2>1 DEF TailInv, Plain, CoverInv, HandCover
  <2>2. CASE ino # log
    BY <1>1, <1>3, <1>4, <1>13, <2>2 DEF TailInv, Plain, StepInv, HandInv, KnownInv, CoverInv, HandCover
  <2> QED BY <2>1, <2>2
<1> QED BY <1>6, <1>7, <1>8, <1>9, <1>10, <1>11, <1>12, <1>14, <1>15 DEF TailInv, StepInv

\* A line handled was in hand, and is passed before the position is.
LEMMA ProcessKeeps ==
  ASSUME TailInv, Shapes', Marks', Plain', Process
  PROVE  TailInv'
<1>1. /\ at = "process" /\ next' = next + 1 /\ broken' = FALSE /\ gaps \subseteq gaps'
      /\ UNCHANGED <<files, handle, pos, record, plan, last, cutOff, ending>>
  BY DEF Process, Go
<1>2. next \in Lines /\ next <= last /\ last <= count /\ count <= MaxLines /\ handled \in [Lines -> Nat]
  BY <1>1 DEF TailInv, Plain, Shapes, FilesInv, StepInv, HandInv
<1>3. IF next = last THEN at' = "read" /\ part' = pos % 2 ELSE at' = "process" /\ part' = part
  BY DEF Process, Go, Rest
<1>4. /\ \A l \in Lines : l # next => handled'[l] = handled[l]
      /\ handled'[next] >= handled[next] /\ again \subseteq again'
      /\ next \in Handled' \cup gaps' \/ broken
      /\ handled'[next] = handled[next] \/ next \in again' \/ (handled'[next] = handled[next] + 1 /\ ~Misread)
  <2>1. CASE /\ handled' = [handled EXCEPT ![next] = @ + 1] /\ ~broken
             /\ again' = IF Misread THEN again \cup {next} ELSE again
    BY <1>2, <2>1 DEF Handled
  <2>2. CASE handled' = handled /\ again' = again /\ (broken \/ next \in gaps')
    BY <1>2, <2>2
  <2> QED BY <2>1, <2>2 DEF Process
<1>5. Once' \subseteq Once \cup {next} /\ (next \in Once' => next \in Once \/ ~Misread)
  BY <1>2, <1>4 DEF Once
<1>6. FilesInv' /\ KnownInv' /\ PhaseInv' /\ CleanInv'
  BY <1>1, <1>3 DEF TailInv, FilesInv, StepInv, KnownInv, PhaseInv, CleanInv
<1>7. OldInv' /\ HandInv'
  BY <1>1, <1>2, <1>3 DEF TailInv, Plain, StepInv, OldInv, HandInv
<1>8. TwiceInv'
  <2>1. NoRepeat'
    <3> SUFFICES ASSUME NEW l \in Lines, handled'[l] > 1, l \notin again'
                 PROVE  FALSE
      BY DEF NoRepeat
    <3>1. l = next /\ handled[l] = 1 /\ l \notin again /\ ~Misread
      BY <1>2, <1>4 DEF TailInv, TwiceInv, NoRepeat
    <3>2. l \in Once /\ fh = ino /\ ino # Nil
      BY <1>1, <3>1 DEF Once, Misread, TailInv, StepInv, HandInv, KnownInv
    <3>3. fh \in Inodes
      BY <3>2 DEF TailInv, Plain
    <3> QED BY <1>1, <3>1, <3>2, <3>3 DEF TailInv, Plain, HandFront
  <2>2. (\A l \in Lines : handled[l] > 0 => l <= count)'
    <3> SUFFICES ASSUME NEW l \in Lines, handled'[l] > 0
                 PROVE  l <= count
      BY <1>1
    <3>1. CASE l = next
      BY <1>2, <3>1 DEF TailInv, Plain
    <3>2. CASE l # next
      BY <1>4, <3>2 DEF TailInv, TwiceInv
    <3> QED BY <3>1, <3>2
  <2>3. (stopping # "no" /\ ~clean => Once = {})'
    BY <1>1, <1>5 DEF TailInv, TwiceInv, Misread, StepInv, CleanInv
  <2> QED BY <2>1, <2>2, <2>3 DEF TwiceInv
<1>9. fh \in Inodes => \A l \in Once' : l < next'
  <2> SUFFICES ASSUME fh \in Inodes, NEW l \in Once'
               PROVE  l < next'
    OBVIOUS
  <2>1. l = next \/ (l \in Once /\ l < next)
    BY <1>1, <1>5 DEF TailInv, HandFront
  <2>2. l \in Nat /\ next \in Nat
    BY <2>1 DEF Once, TailInv, Plain
  <2> QED BY <1>1, <2>1, <2>2
<1>10. fh \in Inodes /\ fh # ino => \A l \in Once' : l <= file[fh].base
  BY <1>5, <1>1 DEF TailInv, OpenFront, Misread
<1>11. HandFront'
  BY <1>1, <1>2, <1>3, <1>9 DEF TailInv, HandFront
<1>12. OpenFront'
  <2>1. CASE next = last /\ fh \in Inodes /\ fh = ino
    <3>1. last <= file[fh].base \/ (pos <= Size(fh) /\ last = file[fh].base + pos \div 2)
      BY <1>1, <2>1 DEF TailInv, HandFront
    <3>2. (pos - part') \div 2 = pos \div 2
      BY <1>3, <2>1 DEF TailInv, Plain
    <3>3. \A l \in Once' : l \in Nat /\ l <= last
      <4>1. last \in Nat /\ next' = last + 1 /\ \A l \in Once' : l < next'
        BY <1>1, <1>9, <2>1 DEF TailInv, Plain
      <4>2. \A l \in Once' : l \in Nat
        BY DEF Once
      <4> QED BY <4>1, <4>2
    <3>4. file[fh].base \in Nat /\ last \in Nat /\ pos \div 2 \in Nat
      BY <2>1 DEF TailInv, Plain, StepInv, KnownInv
    <3> QED BY <1>1, <2>1, <3>1, <3>2, <3>3, <3>4 DEF OpenFront
  <2>2. CASE ~(next = last /\ fh \in Inodes /\ fh = ino)
    BY <1>1, <1>3, <1>10, <2>2 DEF OpenFront
  <2> QED BY <2>1, <2>2
<1>13. ShutFront'
  <2>1. fh # Closed /\ (fh = Nil => stopping # "no" /\ ~clean)
    BY <1>1 DEF TailInv, StepInv, PhaseInv, CleanInv
  <2> QED BY <1>1, <1>3, <1>8, <2>1 DEF ShutFront, TwiceInv
<1>14. WithinInv'
  BY <1>1 DEF TailInv, WithinInv
<1>15. Covered \subseteq Covered' /\ (next \in Covered' \/ broken)
  BY <1>1, <1>2, <1>4 DEF Covered, Handled, TailInv, Plain
<1>16. SavedBehind'
  BY <1>1, <1>15 DEF TailInv, SavedBehind, OnRecord, Before, LinesOf, Covered
<1>17. base = file[ino].base => \A l \in LinesOf(ino) : l < next' => l \in Covered'
  BY <1>1, <1>2, <1>15 DEF TailInv, Plain, HandCover, LinesOf
<1>18. LinesOf(ino)' = LinesOf(ino)
  BY <1>1 DEF LinesOf
<1>19. HandCover'
  BY <1>1, <1>17, <1>18 DEF TailInv, HandCover
<1>20. CoverInv'
  <2> SUFFICES ASSUME next = last, base = file[ino].base, NEW l \in Before(ino, Done)'
               PROVE  l \in Covered'
    BY <1>1, <1>3 DEF CoverInv
  <2>1. /\ l \in LinesOf(ino) /\ 2 * (l - file[ino].base) - 1 <= pos - part' /\ part' = pos % 2
    BY <1>1, <1>3, <1>18 DEF Before
  <2>2. last = base + pos \div 2 /\ l \in Nat /\ base \in Nat /\ last \in Nat
    BY <1>1, <2>1 DEF TailInv, Plain, HandCover, LinesOf
  <2>3. l <= last
    BY <2>1, <2>2 DEF TailInv, Plain
  <2> QED BY <1>1, <1>17, <2>1, <2>2, <2>3
<1> QED BY <1>6, <1>7, <1>8, <1>11, <1>12, <1>13, <1>14, <1>16, <1>19, <1>20 DEF TailInv, StepInv

\* The rest of a line moves no position.
LEMMA WriteRestKeeps ==
  ASSUME TailInv, Shapes', Marks', Plain', WriteRest
  PROVE  TailInv'
<1>1. FilesInv' /\ KnownInv'
  BY DEF TailInv, FilesInv, StepInv, KnownInv, WriteRest
<1>2. PhaseInv' /\ CleanInv'
  BY DEF TailInv, StepInv, PhaseInv, CleanInv, WriteRest
<1>3. OldInv' /\ HandInv'
  BY DEF TailInv, StepInv, OldInv, HandInv, WriteRest
<1>4. TwiceInv'
  BY DEF TailInv, TwiceInv, NoRepeat, Once, WriteRest
<1>5. OpenFront' /\ HandFront'
  BY DEF TailInv, Plain, FilesInv, StepInv, KnownInv, OpenFront, HandFront, Once, WriteRest
<1>6. ShutFront'
  BY DEF TailInv, Plain, FilesInv, StepInv, KnownInv, ShutFront, Once, WriteRest
<1>7. SavedBehind'
  BY DEF TailInv, Handled, SavedBehind, OnRecord, Before, LinesOf, Covered, WriteRest
<1>8. WithinInv'
  BY DEF TailInv, Plain, FilesInv, StepInv, KnownInv, WithinInv, WriteRest
<1>9. CoverInv' /\ HandCover'
  BY DEF TailInv, Handled, CoverInv, HandCover, Before, LinesOf, Covered, WriteRest
<1> QED BY <1>1, <1>2, <1>3, <1>4, <1>5, <1>6, <1>7, <1>8, <1>9 DEF TailInv, StepInv

\* A renamed file stays the newest until the log is created anew.
LEMMA RenameKeeps ==
  ASSUME TailInv, Shapes', Marks', Plain', Rename
  PROVE  TailInv'
<1>1. FilesInv' /\ KnownInv'
  BY DEF TailInv, FilesInv, StepInv, KnownInv, Rename
<1>2. PhaseInv' /\ CleanInv'
  BY DEF TailInv, StepInv, PhaseInv, CleanInv, Rename
<1>3. OldInv' /\ HandInv'
  BY DEF TailInv, StepInv, OldInv, HandInv, Rename
<1>4. TwiceInv'
  BY DEF TailInv, TwiceInv, NoRepeat, Once, Rename
<1>5. OpenFront' /\ HandFront'
  BY DEF TailInv, OpenFront, HandFront, Once, Rename
<1>6. ShutFront'
  BY DEF TailInv, ShutFront, Once, Rename
<1>7. SavedBehind'
  BY DEF TailInv, Handled, SavedBehind, OnRecord, Before, LinesOf, Covered, Rename
<1>8. WithinInv'
  BY DEF TailInv, WithinInv, Rename
<1>9. CoverInv' /\ HandCover'
  BY DEF TailInv, Handled, CoverInv, HandCover, Before, LinesOf, Covered, Rename
<1> QED BY <1>1, <1>2, <1>3, <1>4, <1>5, <1>6, <1>7, <1>8, <1>9 DEF TailInv, StepInv

LEMMA StartKeeps ==
  ASSUME TailInv, Shapes', Marks', Plain', Start
  PROVE  TailInv'
<1>1. FilesInv' /\ KnownInv'
  BY DEF TailInv, FilesInv, StepInv, KnownInv, Start, Go
<1>2. PhaseInv' /\ CleanInv'
  BY DEF TailInv, StepInv, PhaseInv, CleanInv, Start, Go
<1>3. OldInv' /\ HandInv'
  BY DEF TailInv, StepInv, OldInv, HandInv, Start, Go
<1>4. TwiceInv'
  BY DEF TailInv, TwiceInv, NoRepeat, Once, Start, Go
<1>5. OpenFront' /\ HandFront'
  BY DEF TailInv, OpenFront, HandFront, Once, Start, Go
<1>6. ShutFront'
  BY DEF TailInv, ShutFront, Once, Start, Go
<1>7. SavedBehind'
  BY DEF TailInv, Handled, SavedBehind, OnRecord, Before, LinesOf, Covered, Start, Go
<1>8. WithinInv'
  BY DEF TailInv, WithinInv, Start, Go
<1>9. CoverInv' /\ HandCover'
  BY DEF TailInv, Handled, CoverInv, HandCover, Before, LinesOf, Covered, Start, Go
<1> QED BY <1>1, <1>2, <1>3, <1>4, <1>5, <1>6, <1>7, <1>8, <1>9 DEF TailInv, StepInv

LEMMA TickKeeps ==
  ASSUME TailInv, Shapes', Marks', Plain', Tick
  PROVE  TailInv'
<1>1. FilesInv' /\ KnownInv'
  BY DEF TailInv, FilesInv, StepInv, KnownInv, Tick, Go
<1>2. PhaseInv' /\ CleanInv'
  BY DEF TailInv, StepInv, PhaseInv, CleanInv, Tick, Go
<1>3. OldInv' /\ HandInv'
  BY DEF TailInv, StepInv, OldInv, HandInv, Tick, Go
<1>4. TwiceInv'
  BY DEF TailInv, TwiceInv, NoRepeat, Once, Tick, Go
<1>5. OpenFront' /\ HandFront'
  BY DEF TailInv, OpenFront, HandFront, Once, Tick, Go
<1>6. ShutFront'
  BY DEF TailInv, ShutFront, Once, Tick, Go
<1>7. SavedBehind'
  BY DEF TailInv, Handled, SavedBehind, OnRecord, Before, LinesOf, Covered, Tick, Go
<1>8. WithinInv'
  BY DEF TailInv, WithinInv, Tick, Go
<1>9. CoverInv' /\ HandCover'
  BY DEF TailInv, Handled, CoverInv, HandCover, Before, LinesOf, Covered, Tick, Go
<1> QED BY <1>1, <1>2, <1>3, <1>4, <1>5, <1>6, <1>7, <1>8, <1>9 DEF TailInv, StepInv

\* What stat saw is opened where the record, if it is of the same file, says.
LEMMA StatDoneKeeps ==
  ASSUME TailInv, Shapes', Marks', Plain', StatDone
  PROVE  TailInv'
<1>a. Once' \subseteq Once /\ \A l \in Lines : l \notin again' => l \notin again
  BY DEF StatDone, LoadFails, Go, Abandon, Once
<1>1. FilesInv' /\ KnownInv'
  BY DEF TailInv, FilesInv, StepInv, KnownInv, StatDone, Go, Abandon, Resume, Truncated
<1>2. PhaseInv' /\ CleanInv'
  BY DEF TailInv, Plain, FilesInv, StepInv, KnownInv, PhaseInv, CleanInv, StatDone, LoadFails, Go, Abandon, Resume, Truncated
<1>3. OldInv' /\ HandInv'
  BY DEF TailInv, Plain, FilesInv, StepInv, KnownInv, OldInv, HandInv, StatDone, Go, Abandon, Truncated
<1>4. TwiceInv'
  <2>1. UNCHANGED <<handled, count, stopping, clean>>
    BY DEF StatDone, Go, Abandon
  <2> QED BY <1>a, <2>1 DEF TailInv, TwiceInv, NoRepeat
<1>5. OpenFront' /\ HandFront'
  BY <1>a DEF TailInv, Plain, FilesInv, StepInv, KnownInv, OpenFront, HandFront, StatDone, Go, Abandon, Truncated
<1>6. ShutFront'
  <2>1. CASE path # Nil /\ LoadFails
    <3>1. at' = "open" /\ fh' = Nil /\ path = log /\ UNCHANGED <<file, log, count, handled>>
      BY <2>1 DEF TailInv, StepInv, KnownInv, StatDone, LoadFails, Go
    <3>2. ASSUME NEW l \in Once' PROVE l <= file[log].base
      <4>1. l \in Lines /\ l \in Handled /\ l <= count /\ l \notin LinesOf(log)
        BY <2>1, <3>1, <3>2 DEF LoadFails, Once, Handled, TailInv, TwiceInv
      <4> QED BY <4>1 DEF TailInv, Plain, FilesInv, LinesOf
    <3> QED BY <3>1, <3>2 DEF ShutFront
  <2>2. CASE path # Nil /\ ~LoadFails
    BY <1>a, <2>2 DEF TailInv, StepInv, KnownInv, ShutFront, StatDone, Go, Resume, Truncated
  <2>3. CASE path = Nil
    BY <1>a, <2>3 DEF TailInv, StepInv, KnownInv, ShutFront, StatDone, Go, Abandon
  <2> QED BY <2>1, <2>2, <2>3
<1>7. SavedBehind'
  BY DEF TailInv, Handled, SavedBehind, OnRecord, Before, LinesOf, Covered, StatDone, Go, Abandon
<1>8. WithinInv'
  BY DEF TailInv, Plain, FilesInv, StepInv, KnownInv, WithinInv, StatDone, Go, Abandon, Truncated
<1>9. CoverInv'
  BY DEF TailInv, Plain, FilesInv, StepInv, KnownInv, Handled, CoverInv, Before, LinesOf, Covered, StatDone, Go, Abandon, Truncated
<1>10. HandCover'
  BY DEF TailInv, Handled, HandCover, LinesOf, Covered, StatDone, Go, Abandon, Truncated
<1> QED BY <1>1, <1>2, <1>3, <1>4, <1>5, <1>6, <1>7, <1>8, <1>9, <1>10 DEF TailInv, StepInv

\* Opened under its own number or not, a file is read from no later than it was left.
LEMMA OpenKeeps ==
  ASSUME TailInv, Shapes', Marks', Plain', Open
  PROVE  TailInv'
<1>1. FilesInv' /\ KnownInv'
  BY DEF TailInv, FilesInv, StepInv, KnownInv, Open, Go, Abandon
<1>2. PhaseInv' /\ CleanInv'
  BY DEF TailInv, StepInv, PhaseInv, CleanInv, Open, Go, Abandon
<1>3. OldInv' /\ HandInv'
  BY DEF TailInv, Plain, FilesInv, StepInv, KnownInv, OldInv, HandInv, Open, Go, Abandon
<1>4. TwiceInv'
  BY DEF TailInv, TwiceInv, NoRepeat, Once, Open, Go, Abandon
<1>5. OpenFront' /\ HandFront'
  BY DEF TailInv, Plain, FilesInv, StepInv, KnownInv, PhaseInv, CleanInv, OldInv, HandInv, TwiceInv, OpenFront, HandFront, ShutFront, Once, Handled, Open, Go, Abandon
<1>6. ShutFront'
  BY DEF TailInv, Plain, FilesInv, StepInv, KnownInv, PhaseInv, OldInv, HandInv, ShutFront, Once, Open, Go, Abandon
<1>7. SavedBehind'
  BY DEF TailInv, Handled, SavedBehind, OnRecord, Before, LinesOf, Covered, Open, Go, Abandon
<1>8. WithinInv'
  BY DEF TailInv, Plain, FilesInv, StepInv, KnownInv, PhaseInv, OldInv, HandInv, WithinInv, Open, Go, Abandon
<1>9. CoverInv'
  BY DEF TailInv, Plain, FilesInv, StepInv, KnownInv, PhaseInv, CleanInv, OldInv, HandInv, SavedBehind, CoverInv, HandCover, OnRecord, Before, LinesOf, Handled, Covered, Open, Go, Abandon
<1>10. HandCover'
  BY DEF TailInv, Handled, HandCover, LinesOf, Covered, Open, Go, Abandon
<1> QED BY <1>1, <1>2, <1>3, <1>4, <1>5, <1>6, <1>7, <1>8, <1>9, <1>10 DEF TailInv, StepInv

\* The halves of a number.
LEMMA Halves ==
  ASSUME NEW n \in Nat
  PROVE  n = 2 * (n \div 2) + (n % 2) /\ n % 2 \in {0, 1}
OBVIOUS

\* A line up to the last one read whole begins before the position.
LEMMA HalfBefore ==
  ASSUME NEW d \in Nat, NEW b \in Nat, NEW l \in Nat,
         l < b + d \div 2 + 1 \/ (l = b + d \div 2 + 1 /\ d % 2 = 1)
  PROVE  2 * (l - b) - 1 <= d
OBVIOUS

\* The position moves past the lines in hand; those passed over are gaps.
LEMMA ReadKeeps ==
  ASSUME TailInv, Shapes', Marks', Plain', Read
  PROVE  TailInv'
<1>1. FilesInv' /\ KnownInv'
  BY DEF TailInv, FilesInv, StepInv, KnownInv, Read, Go, Abandon, PassOver, ReadTo, Rest
<1>2. PhaseInv' /\ CleanInv'
  BY DEF TailInv, StepInv, PhaseInv, CleanInv, Read, Go, Abandon, PassOver, ReadTo, Rest
<1>3. OldInv' /\ HandInv'
  BY DEF TailInv, Plain, FilesInv, StepInv, KnownInv, OldInv, HandInv, Read, Go, Abandon, PassOver, ReadTo, Rest
<1>4. TwiceInv'
  BY DEF TailInv, TwiceInv, NoRepeat, Once, Read, Go, Abandon, PassOver, ReadTo, Rest
<1>5. OpenFront' /\ HandFront'
  BY DEF TailInv, Plain, FilesInv, StepInv, KnownInv, OpenFront, HandFront, Once, Read, Go, Abandon, PassOver, ReadTo, Rest
<1>6. ShutFront'
  BY DEF TailInv, ShutFront, Once, Read, Go, Abandon, PassOver, ReadTo, Rest
<1>7. SavedBehind'
  BY DEF TailInv, Handled, SavedBehind, OnRecord, Before, LinesOf, Covered, Read, Go, Abandon, PassOver, ReadTo, Rest
<1>8. WithinInv'
  BY DEF TailInv, Plain, FilesInv, StepInv, KnownInv, PhaseInv, OldInv, HandInv, WithinInv, Read, Go, Abandon, PassOver, ReadTo, Rest
<1>9. CoverInv' /\ HandCover'
  <2>1. CASE Abandon
    BY <2>1 DEF TailInv, Read, Go, Abandon, CoverInv, HandCover, Covered, Handled, Before, LinesOf
  <2>2. CASE fh \notin {Nil, Closed}
    <3>1. /\ at = "read" /\ fh \in Inodes /\ ino \in Inodes /\ file[fh].base \in Nat /\ pos \in Nat /\ Done \in Nat /\ Done <= pos
          /\ PassOver /\ file' = file /\ log' = log /\ ino' = ino /\ handled' = handled /\ cutOff' = cutOff
      BY <2>2 DEF Read, Go, ReadTo, TailInv, Plain, StepInv, KnownInv
    <3>2. /\ LinesOf(ino)' = LinesOf(ino)
          /\ Covered \subseteq Covered' /\ \A p : Before(ino, p) = {l \in LinesOf(ino) : 2 * (l - file[ino].base) - 1 <= p}
      BY <3>1 DEF LinesOf, Before, PassOver, Covered, Handled
    <3>3. fh # ino => ino # log /\ (base' = file[ino].base => LinesOf(ino) = {})
      <4> SUFFICES ASSUME fh # ino, base' = file[ino].base
                   PROVE  LinesOf(ino) = {}
        BY <3>1 DEF TailInv, StepInv, OldInv
      <4>1. End(ino) <= file[ino].base /\ file[ino].base \in Nat /\ file[ino].len \in Nat
        BY <3>1 DEF TailInv, Plain, StepInv, KnownInv, OldInv, PassOver
      <4> QED BY <4>1 DEF LinesOf
    <3>4. fh = ino /\ base' = file[ino].base => Before(ino, Done) \subseteq Covered'
      <4>1. CASE base' = base
        <5>1. ino # Nil /\ at # "process"
          BY <3>1 DEF TailInv, Plain
        <5>2. base = file[ino].base => Before(ino, Done) \subseteq Covered
          BY <5>1 DEF TailInv, CoverInv
        <5> QED BY <3>2, <4>1, <5>2
      <4>2. CASE gaps' = gaps \cup (Before(fh, pos) \ Handled)
        <5>1. fh = ino => Before(ino, Done) \subseteq Before(fh, pos)
          BY <3>1 DEF Before, LinesOf, TailInv, Plain
        <5> QED BY <3>1, <4>2, <5>1 DEF Covered, Handled
      <4> QED BY <3>1, <4>1, <4>2 DEF PassOver
    <3>5. CASE UNCHANGED <<pos, part>> /\ at' # "process"
      <4>1. Before(ino, Done)' = Before(ino, Done)
        BY <3>1, <3>5 DEF Before, LinesOf
      <4>2. LinesOf(ino) = {} => Before(ino, Done) = {}
        BY DEF Before
      <4> QED BY <3>1, <3>3, <3>4, <3>5, <4>1, <4>2 DEF CoverInv, HandCover
    <3>6. ASSUME NEW to \in pos + 1 .. Size(fh), ReadTo(to)
          PROVE  CoverInv' /\ HandCover'
      <4>1. /\ to \in Nat /\ pos < to /\ pos' = to /\ Done \div 2 \in Nat /\ to \div 2 \in Nat
            /\ next' = file[fh].base + Done \div 2 + 1 /\ last' = file[fh].base + to \div 2 /\ broken' = (Done % 2 = 1)
            /\ IF next' > last' THEN at' = "read" /\ part' = to % 2 ELSE at' = "process"
        BY <3>1, <3>6 DEF ReadTo, Go, Rest, TailInv, Plain
      <4>2. fh = ino => \A l \in LinesOf(ino) : l < next' \/ (l = next' /\ broken') => l \in Before(ino, Done)
        <5> SUFFICES ASSUME fh = ino, NEW l \in LinesOf(ino), l < next' \/ (l = next' /\ broken')
                     PROVE  2 * (l - file[ino].base) - 1 <= Done
          BY <3>2
        <5>1. l \in Nat /\ Done = 2 * (Done \div 2) + (Done % 2) /\ Done % 2 \in {0, 1}
          BY <3>1 DEF LinesOf, TailInv, Plain
        <5>2. CASE l < next'
          BY <3>1, <4>1, <5>1, <5>2, HalfBefore
        <5>3. CASE l = next' /\ broken'
          BY <3>1, <4>1, <5>1, <5>3, HalfBefore
        <5> QED BY <5>2, <5>3
      <4>3. CASE at' = "process"
        <5>1. CoverInv'
          BY <4>3 DEF CoverInv
        <5>2. base' = file[ino].base => \A l \in LinesOf(ino) : l < next' \/ (l = next' /\ broken') => l \in Covered'
          BY <3>3, <3>4, <4>2
        <5>3. base' = file[ino].base => (ino # log /\ LinesOf(ino) = {}) \/ last' = base' + pos' \div 2
          BY <3>3, <4>1
        <5> QED BY <3>1, <3>2, <4>3, <5>1, <5>2, <5>3 DEF HandCover
      <4>4. CASE at' = "read" /\ next' > last' /\ part' = to % 2
        <5>1. Done' <= Done
          <6>1. Done = 2 * (Done \div 2) + (Done % 2) /\ Done % 2 \in {0, 1}
            BY <3>1, Halves
          <6>2. to = 2 * (to \div 2) + (to % 2) /\ to % 2 \in {0, 1}
            BY <4>1, Halves
          <6> QED BY <3>1, <4>1, <4>4, <6>1, <6>2
        <5>2. Before(ino, Done)' \subseteq Before(ino, Done)
          <6>1. Before(ino, Done)' = {l \in LinesOf(ino) : 2 * (l - file[ino].base) - 1 <= Done'}
            BY <3>1, <3>2 DEF Before
          <6>2. Done' \in Nat /\ Done \in Nat /\ file[ino].base \in Nat /\ \A l \in LinesOf(ino) : l \in Nat
            BY <3>1, <4>1, <4>4 DEF LinesOf, TailInv, Plain, StepInv, KnownInv
          <6> QED BY <3>2, <5>1, <6>1, <6>2
        <5>3. LinesOf(ino) = {} => Before(ino, Done) = {}
          BY DEF Before
        <5> QED BY <3>1, <3>3, <3>4, <4>4, <5>2, <5>3 DEF CoverInv, HandCover
      <4> QED BY <4>1, <4>3, <4>4
    <3>7. CASE Size(fh) <= pos /\ Go(IF goal = "switch" THEN "close" ELSE "save") /\ UNCHANGED <<pos, part, chunk>>
      BY <3>5, <3>7 DEF Go
    <3> QED BY <2>2, <3>6, <3>7 DEF Read
  <2> QED BY <2>1, <2>2 DEF Read
<1> QED BY <1>1, <1>2, <1>3, <1>4, <1>5, <1>6, <1>7, <1>8, <1>9 DEF TailInv, StepInv

\* Only a file that is not the log any more is left.
LEMMA CloseKeeps ==
  ASSUME TailInv, Shapes', Marks', Plain', Close
  PROVE  TailInv'
<1>1. FilesInv' /\ KnownInv'
  BY DEF TailInv, Plain, FilesInv, StepInv, KnownInv, Close, Go, Abandon
<1>2. PhaseInv' /\ CleanInv'
  BY DEF TailInv, Plain, FilesInv, StepInv, KnownInv, PhaseInv, CleanInv, Close, Go, Abandon
<1>3. OldInv' /\ HandInv'
  BY DEF TailInv, Plain, FilesInv, StepInv, KnownInv, PhaseInv, OldInv, HandInv, Close, Go, Abandon
<1>4. TwiceInv'
  BY DEF TailInv, TwiceInv, NoRepeat, Once, Close, Go, Abandon
<1>5. OpenFront' /\ HandFront'
  BY DEF TailInv, Plain, FilesInv, StepInv, KnownInv, OpenFront, HandFront, Once, Close, Go, Abandon
<1>6. ShutFront'
  BY DEF TailInv, Plain, FilesInv, StepInv, KnownInv, PhaseInv, CleanInv, OldInv, HandInv, TwiceInv, OpenFront, HandFront, ShutFront, Once, Handled, Close, Go, Abandon
<1>7. SavedBehind'
  BY DEF TailInv, Handled, SavedBehind, OnRecord, Before, LinesOf, Covered, Close, Go, Abandon
<1>8. WithinInv'
  BY DEF TailInv, WithinInv, Close, Go, Abandon
<1>9. CoverInv' /\ HandCover'
  BY DEF TailInv, Handled, CoverInv, HandCover, Before, LinesOf, Covered, Close, Go, Abandon
<1> QED BY <1>1, <1>2, <1>3, <1>4, <1>5, <1>6, <1>7, <1>8, <1>9 DEF TailInv, StepInv

\* What is put on record is where the lines handled end.
LEMMA SaveKeeps ==
  ASSUME TailInv, Shapes', Marks', Plain', Save
  PROVE  TailInv'
<1>1. FilesInv' /\ KnownInv'
  BY DEF TailInv, FilesInv, StepInv, KnownInv, Save, Go, SavePosition
<1>2. PhaseInv' /\ CleanInv'
  BY DEF TailInv, StepInv, PhaseInv, CleanInv, Save, Go, SavePosition
<1>3. OldInv' /\ HandInv'
  BY DEF TailInv, StepInv, OldInv, HandInv, Save, Go, SavePosition
<1>4. TwiceInv'
  BY DEF TailInv, TwiceInv, NoRepeat, Once, Save, Go, SavePosition
<1>5. OpenFront' /\ HandFront'
  BY DEF TailInv, OpenFront, HandFront, Once, Save, Go, SavePosition
<1>6. ShutFront'
  BY DEF TailInv, ShutFront, Once, Save, Go, SavePosition
<1>7. SavedBehind'
  BY DEF TailInv, Plain, FilesInv, StepInv, KnownInv, PhaseInv, CleanInv, OldInv, HandInv, SavedBehind, CoverInv, HandCover, OnRecord, Before, LinesOf, Handled, Covered, Save, Go, SavePosition
<1>8. WithinInv'
  BY DEF TailInv, Plain, FilesInv, StepInv, KnownInv, WithinInv, Save, Go, SavePosition
<1>9. CoverInv' /\ HandCover'
  BY DEF TailInv, Handled, CoverInv, HandCover, Before, LinesOf, Covered, Save, Go, SavePosition
<1> QED BY <1>1, <1>2, <1>3, <1>4, <1>5, <1>6, <1>7, <1>8, <1>9 DEF TailInv, StepInv

\* stop() may save while lines are in hand; those are cut off.
LEMMA StopSaveKeeps ==
  ASSUME TailInv, Shapes', Marks', Plain', StopSave
  PROVE  TailInv'
<1>1. FilesInv' /\ KnownInv'
  BY DEF TailInv, FilesInv, StepInv, KnownInv, StopSave, SavePosition, OnlyHeld
<1>2. PhaseInv'
  BY DEF TailInv, StepInv, PhaseInv, StopSave, SavePosition, OnlyHeld
<1>3. CleanInv'
  <2>1. /\ stopping' = "saved" /\ UNCHANGED <<at, fh, ino, pos, part>>
        /\ clean' = (at = "idle" /\ (fh = Nil \/ saved' = [ino |-> ino, pos |-> Done]))
    BY DEF StopSave
  <2>2. fh # Nil => [ino |-> ino, pos |-> Done] \in Place
    BY DEF TailInv, Plain, StepInv, KnownInv, Place
  <2>3. Nil \notin Place
    BY DEF TailInv, Plain
  <2>4. clean' => stopping' # "no" /\ at' = "idle" /\ stopping' # "closed"
    BY <2>1
  <2>5. clean' /\ fh' # Nil => saved' # Nil /\ saved'.ino = ino' /\ saved'.pos = pos' - part'
    <3> SUFFICES ASSUME clean', fh' # Nil
                 PROVE  saved' # Nil /\ saved'.ino = ino' /\ saved'.pos = pos' - part'
      OBVIOUS
    <3>1. saved' = [ino |-> ino, pos |-> pos - part]
      BY <2>1
    <3>2. saved' # Nil
      BY <2>1, <2>2, <2>3, <3>1
    <3> QED BY <2>1, <3>1, <3>2
  <2> QED BY <2>4, <2>5 DEF CleanInv
<1>4. OldInv' /\ HandInv'
  BY DEF TailInv, StepInv, OldInv, HandInv, StopSave, SavePosition, OnlyHeld
<1>5. TwiceInv'
  BY DEF TailInv, Plain, FilesInv, StepInv, KnownInv, PhaseInv, CleanInv, OldInv, HandInv, TwiceInv, NoRepeat, OpenFront, HandFront, Handled, Once, StopSave, SavePosition, OnlyHeld
<1>6. OpenFront' /\ HandFront'
  BY DEF TailInv, OpenFront, HandFront, Once, StopSave, SavePosition, OnlyHeld
<1>7. ShutFront'
  BY DEF TailInv, ShutFront, Once, StopSave, SavePosition, OnlyHeld
<1>8. SavedBehind'
  BY DEF TailInv, Plain, FilesInv, StepInv, KnownInv, PhaseInv, CleanInv, OldInv, HandInv, SavedBehind, CoverInv, HandCover, OnRecord, Before, LinesOf, Handled, Covered, StopSave, SavePosition, OnlyHeld
<1>9. WithinInv'
  BY DEF TailInv, Plain, FilesInv, StepInv, KnownInv, WithinInv, StopSave, SavePosition, OnlyHeld
<1>10. CoverInv' /\ HandCover'
  BY DEF TailInv, Handled, CoverInv, HandCover, Before, LinesOf, Covered, StopSave, SavePosition, OnlyHeld
<1> QED BY <1>1, <1>2, <1>3, <1>4, <1>5, <1>6, <1>7, <1>8, <1>9, <1>10 DEF TailInv, StepInv

LEMMA StopCloseKeeps ==
  ASSUME TailInv, Shapes', Marks', Plain', StopClose
  PROVE  TailInv'
<1>1. FilesInv' /\ KnownInv'
  BY DEF TailInv, Plain, FilesInv, StepInv, KnownInv, StopClose
<1>2. PhaseInv' /\ CleanInv'
  BY DEF TailInv, Plain, FilesInv, StepInv, KnownInv, PhaseInv, CleanInv, StopClose
<1>3. OldInv' /\ HandInv'
  BY DEF TailInv, Plain, FilesInv, StepInv, KnownInv, OldInv, HandInv, StopClose
<1>4. TwiceInv'
  BY DEF TailInv, TwiceInv, NoRepeat, Once, StopClose
<1>5. OpenFront' /\ HandFront'
  BY DEF TailInv, Plain, FilesInv, StepInv, KnownInv, OpenFront, HandFront, Once, StopClose
<1>6. ShutFront'
  BY DEF TailInv, Plain, FilesInv, StepInv, KnownInv, PhaseInv, CleanInv, OldInv, HandInv, TwiceInv, OpenFront, HandFront, ShutFront, Once, Handled, StopClose
<1>7. SavedBehind'
  BY DEF TailInv, Handled, SavedBehind, OnRecord, Before, LinesOf, Covered, StopClose
<1>8. WithinInv'
  BY DEF TailInv, WithinInv, StopClose
<1>9. CoverInv' /\ HandCover'
  BY DEF TailInv, Handled, CoverInv, HandCover, Before, LinesOf, Covered, StopClose
<1> QED BY <1>1, <1>2, <1>3, <1>4, <1>5, <1>6, <1>7, <1>8, <1>9 DEF TailInv, StepInv

LEMMA ExitKeeps ==
  ASSUME TailInv, Shapes', Marks', Plain', Exit
  PROVE  TailInv'
<1>1. FilesInv' /\ KnownInv'
  BY DEF TailInv, Plain, FilesInv, StepInv, KnownInv, Exit, Off
<1>2. PhaseInv' /\ CleanInv'
  BY DEF TailInv, Plain, FilesInv, StepInv, KnownInv, PhaseInv, CleanInv, Exit, Off
<1>3. OldInv' /\ HandInv'
  BY DEF TailInv, Plain, FilesInv, StepInv, KnownInv, OldInv, HandInv, Exit, Off
<1>4. TwiceInv'
  BY DEF TailInv, TwiceInv, NoRepeat, Once, Exit, Off
<1>5. OpenFront' /\ HandFront'
  BY DEF TailInv, Plain, FilesInv, StepInv, KnownInv, OpenFront, HandFront, Once, Exit, Off
<1>6. ShutFront'
  BY DEF TailInv, Plain, FilesInv, StepInv, KnownInv, PhaseInv, CleanInv, OldInv, HandInv, TwiceInv, ShutFront, Once, Exit, Off
<1>7. SavedBehind'
  BY DEF TailInv, Handled, SavedBehind, OnRecord, Before, LinesOf, Covered, Exit, Off
<1>8. WithinInv'
  BY DEF TailInv, WithinInv, Exit, Off
<1>9. CoverInv' /\ HandCover'
  BY DEF TailInv, Handled, CoverInv, HandCover, Before, LinesOf, Covered, Exit, Off
<1> QED BY <1>1, <1>2, <1>3, <1>4, <1>5, <1>6, <1>7, <1>8, <1>9 DEF TailInv, StepInv

\* What a crash forgets, the record still covers.
LEMMA CrashKeeps ==
  ASSUME TailInv, Shapes', Marks', Plain', Crash
  PROVE  TailInv'
<1>1. FilesInv' /\ KnownInv'
  BY DEF TailInv, Plain, FilesInv, StepInv, KnownInv, Crash, Off, OnlyHeld
<1>2. PhaseInv' /\ CleanInv'
  BY DEF TailInv, Plain, FilesInv, StepInv, KnownInv, PhaseInv, CleanInv, Crash, Off, OnlyHeld
<1>3. OldInv' /\ HandInv'
  BY DEF TailInv, Plain, FilesInv, StepInv, KnownInv, OldInv, HandInv, Crash, Off, OnlyHeld
<1>4. TwiceInv'
  BY DEF TailInv, TwiceInv, NoRepeat, Once, Crash, Off, OnlyHeld
<1>5. OpenFront' /\ HandFront'
  BY DEF TailInv, Plain, FilesInv, StepInv, KnownInv, OpenFront, HandFront, Once, Crash, Off, OnlyHeld
<1>6. ShutFront'
  BY DEF TailInv, Plain, FilesInv, StepInv, KnownInv, PhaseInv, CleanInv, OldInv, HandInv, TwiceInv, OpenFront, HandFront, ShutFront, Once, Handled, Crash, Off, OnlyHeld
<1>7. SavedBehind'
  BY DEF TailInv, Handled, SavedBehind, OnRecord, Before, LinesOf, Covered, Crash, Off, OnlyHeld
<1>8. WithinInv'
  BY DEF TailInv, WithinInv, Crash, Off, OnlyHeld
<1>9. CoverInv' /\ HandCover'
  BY DEF TailInv, Handled, CoverInv, HandCover, Before, LinesOf, Covered, Crash, Off, OnlyHeld
<1> QED BY <1>1, <1>2, <1>3, <1>4, <1>5, <1>6, <1>7, <1>8, <1>9 DEF TailInv, StepInv

\* A step of a tick changes neither the files nor how the app ends.
LEMMA GoesOn ==
  ASSUME Start \/ TailStep
  PROVE  UNCHANGED <<files, ending, limits>>
<1>1. CASE Start \/ Tick \/ Save
  BY <1>1 DEF Start, Tick, Save, Go
<1>2. CASE StatDone
  BY <1>2 DEF StatDone, Abandon, Go
<1>3. CASE Open
  BY <1>3 DEF Open, Abandon, Go
<1>4. CASE Read
  BY <1>4 DEF Read, ReadTo, Abandon, Go
<1>5. CASE Process
  BY <1>5 DEF Process, Go
<1>6. CASE Close
  BY <1>6 DEF Close, Abandon, Go
<1> QED BY <1>1, <1>2, <1>3, <1>4, <1>5, <1>6 DEF TailStep

\* The three parts of the type invariant.
LEMMA ShapesKept ==
  ASSUME TailInv, TailNext
  PROVE  Shapes'
<1>1. CASE WriteHalf
  <2>1. Known(log) /\ file[log] \in File /\ log \in Inodes
    BY DEF TailInv, Plain, FilesInv, Shapes
  <2>2. [file[log] EXCEPT !.len = @ + 1] \in File
    BY <2>1 DEF File
  <2>3. file' = [file EXCEPT ![log] = [file[log] EXCEPT !.len = @ + 1]]
    BY <1>1 DEF WriteHalf
  <2> QED BY <1>1, <2>1, <2>2, <2>3 DEF TailInv, Plain, Shapes, WriteHalf
<1>2. CASE Recreate \/ Truncate
  <2>1. [base |-> count, len |-> 0] \in File
    BY DEF TailInv, Plain, File
  <2>2. PICK i \in Inodes : file' = [file EXCEPT ![i] = [base |-> count, len |-> 0]] /\ log' = i
    BY <1>2 DEF Recreate, Truncate, TailInv, StepInv, KnownInv, Plain
  <2> QED BY <1>2, <2>1, <2>2 DEF TailInv, Plain, Shapes, Recreate, Truncate
<1>3. CASE Process
  <2>1. next \in Lines
    BY <1>3 DEF Process, TailInv, Plain, FilesInv, StepInv, HandInv
  <2>2. handled' \in [Lines -> Nat]
    <3>1. handled' = handled \/ handled' = [handled EXCEPT ![next] = @ + 1]
      BY <1>3 DEF Process
    <3> QED BY <2>1, <3>1 DEF TailInv, Shapes
  <2> QED BY <1>3, <2>2 DEF TailInv, Shapes, Process, Go
<1>4. CASE Save \/ StopSave
  <2>1. saved' \in Place \cup {Nil}
    <3>1. saved' = saved \/ (fh # Nil /\ saved' = [ino |-> ino, pos |-> Done])
      BY <1>4 DEF Save, StopSave, SavePosition
    <3>2. fh # Nil => ino \in Inodes
      BY DEF TailInv, Plain, StepInv, KnownInv
    <3>3. Done \in Nat
      BY DEF TailInv, Plain
    <3>4. fh # Nil => [ino |-> ino, pos |-> Done] \in Place
      BY <3>2, <3>3 DEF Place
    <3> QED BY <3>1, <3>4 DEF TailInv, Shapes
  <2> QED BY <1>4, <2>1 DEF TailInv, Shapes, Save, StopSave, Go
<1>5. UNCHANGED <<file, handled, saved, log>> => Shapes'
  BY DEF TailInv, Shapes
<1>6. CASE WriteRest
  BY <1>5, <1>6 DEF WriteRest
<1>7. CASE Rename
  BY <1>5, <1>7 DEF Rename
<1>8. CASE Start
  BY <1>5, <1>8 DEF Start, Go
<1>9. CASE Tick
  BY <1>5, <1>9 DEF Tick, Go
<1>10. CASE StatDone
  BY <1>5, <1>10 DEF StatDone, Go, Abandon
<1>11. CASE Open
  BY <1>5, <1>11 DEF Open, Go, Abandon
<1>12. CASE Read
  BY <1>5, <1>12 DEF Read, Go, Abandon, ReadTo
<1>13. CASE Close
  BY <1>5, <1>13 DEF Close, Go, Abandon
<1>14. CASE StopClose
  BY <1>5, <1>14 DEF StopClose
<1>15. CASE Exit
  BY <1>5, <1>15 DEF Exit, Off
<1>16. CASE Crash
  BY <1>5, <1>16 DEF Crash, Off
<1> QED BY <1>1, <1>2, <1>3, <1>4, <1>6, <1>7, <1>8, <1>9, <1>10, <1>11, <1>12, <1>13, <1>14, <1>15, <1>16 DEF TailNext, Around, TailStep, StopStep

LEMMA MarksKept ==
  ASSUME TailInv, TailNext
  PROVE  Marks'
<1>1. \A i : LinesOf(i) \subseteq Lines /\ Unread(i) \subseteq Lines /\ \A p : Before(i, p) \subseteq Lines
  BY DEF LinesOf, Unread, Before
<1>2. Handled \subseteq Lines /\ OnlyHeld \subseteq Lines
  BY <1>1 DEF Handled, OnlyHeld
<1>3. gaps' \subseteq Lines
  <2>1. CASE WriteHalf
    <3>1. count + 1 \in Lines
      BY <2>1 DEF WriteHalf, TailInv, Plain
    <3> QED BY <2>1, <3>1 DEF WriteHalf, TailInv, Marks
  <2>2. CASE Process
    <3>1. next \in Lines
      BY <2>2 DEF Process, TailInv, Plain, FilesInv, StepInv, HandInv
    <3> QED BY <2>2, <3>1 DEF Process, TailInv, Marks
  <2>3. CASE Rename \/ Truncate \/ StopSave \/ Crash
    BY <1>1, <1>2, <2>3 DEF Rename, Truncate, StopSave, Crash, TailInv, Marks
  <2>4. CASE Read
    BY <1>1, <2>4 DEF Read, Abandon, PassOver, TailInv, Marks
  <2>5. CASE WriteRest \/ Recreate \/ Start \/ Tick \/ StatDone \/ Open \/ Close \/ Save \/ StopClose \/ Exit
    BY <2>5 DEF TailInv, Marks, WriteRest, Recreate, Start, Tick, StatDone, Open, Close, Save, StopClose, Exit, Abandon
  <2> QED BY <2>1, <2>2, <2>3, <2>4, <2>5 DEF TailNext, Around, TailStep, StopStep
<1>4. again' \subseteq Lines
  <2>1. CASE Process
    <3>1. next \in Lines
      BY <2>1 DEF Process, TailInv, Plain, FilesInv, StepInv, HandInv
    <3> QED BY <2>1, <3>1 DEF Process, TailInv, Marks
  <2>2. CASE StopSave \/ Crash
    BY <1>2, <2>2 DEF StopSave, Crash, TailInv, Marks
  <2>3. CASE StatDone
    BY <1>2, <2>3 DEF StatDone, LoadFails, Abandon, TailInv, Marks
  <2>4. CASE ~Process /\ ~StopSave /\ ~Crash /\ ~StatDone
    BY <2>4 DEF TailInv, Marks, TailNext, Around, TailStep, StopStep, WriteHalf, WriteRest, Rename, Recreate, Truncate,
                Start, Tick, Open, Read, Close, Save, StopClose, Exit, Abandon
  <2> QED BY <2>1, <2>2, <2>3, <2>4
<1>5. cutOff' \subseteq Lines
  <2>1. CASE StopSave
    <3>1. at = "process" => next .. last \subseteq Lines
      BY DEF TailInv, Plain, FilesInv, StepInv, HandInv
    <3> QED BY <1>1, <2>1, <3>1 DEF StopSave, TailInv, Marks
  <2>2. CASE ~StopSave
    BY <2>2 DEF TailInv, Marks, TailNext, Around, TailStep, StopStep, WriteHalf, WriteRest, Rename, Recreate, Truncate,
                Start, Tick, StatDone, Open, Read, Process, Close, Save, StopClose, Exit, Crash, Abandon, Off
  <2> QED BY <2>1, <2>2
<1>6. {rotations, cuts, ends}' \subseteq Nat
  <2>1. CASE Around
    BY <2>1 DEF TailInv, Marks, Around, WriteHalf, WriteRest, Rename, Recreate, Truncate
  <2>2. CASE StopSave \/ StopStep \/ Crash
    BY <2>2 DEF TailInv, Marks, StopStep, StopSave, StopClose, Exit, Crash, Off
  <2>3. CASE Start \/ TailStep
    <3>1. UNCHANGED <<rotations, cuts, ends>>
      BY <2>3, GoesOn
    <3> QED BY <3>1 DEF TailInv, Marks
  <2> QED BY <2>1, <2>2, <2>3 DEF TailNext
<1> QED BY <1>3, <1>4, <1>5, <1>6 DEF Marks

LEMMA PlainKept ==
  ASSUME TailInv, TailNext, Shapes'
  PROVE  Plain'
<1>1. /\ (\A i \in Inodes : file[i] # Nil => file[i].base \in Nat /\ file[i].len \in Nat)'
      /\ (saved # Nil => saved.ino \in Inodes /\ saved.pos \in Nat)'
      /\ (\A l \in Lines : handled[l] \in Nat)'
  BY DEF Shapes, File, Place
<1>2. (log \in Inodes /\ torn \in {0, 1} /\ count \in Nat /\ path \in Inodes \cup {Nil})'
  <2>1. CASE Around
    BY <2>1 DEF TailInv, Plain, Around, WriteHalf, WriteRest, Rename, Recreate, Truncate
  <2>2. CASE Start \/ TailStep
    BY <2>2, GoesOn DEF TailInv, Plain
  <2>3. CASE StopSave \/ StopStep \/ Crash
    BY <2>3 DEF TailInv, Plain, StopStep, StopSave, StopClose, Exit, Crash, Off
  <2> QED BY <2>1, <2>2, <2>3 DEF TailNext
<1>3. (\A i \in Inodes : Known(i) => Size(i) \in Nat)
  BY DEF TailInv, Plain, FilesInv
<1>4. CASE ~TailStep
  <2>1. ((saved # Nil => saved.ino \in Inodes /\ saved.pos \in Nat) /\ savedPos \in Nat \cup {Nil})'
    BY <1>1, <1>4 DEF TailInv, Plain, TailNext, Around, StopStep, WriteHalf, WriteRest, Rename, Recreate, Truncate,
         Start, StopSave, StopClose, Exit, Crash, Go, Off, SavePosition
  <2>2. (at \in {"off", "idle", "stat", "open", "read", "process", "close", "save"})'
    BY <1>4 DEF TailInv, Plain, TailNext, Around, StopStep, WriteHalf, WriteRest, Rename, Recreate, Truncate,
         Start, StopSave, StopClose, Exit, Crash, Go, Off
  <2>3. (fh \in Inodes \cup {Nil, Closed} /\ ino \in Inodes \cup {Nil} /\ st \in Inodes \cup {Nil})'
    BY <1>4 DEF TailInv, Plain, TailNext, Around, StopStep, WriteHalf, WriteRest, Rename, Recreate, Truncate,
         Start, StopSave, StopClose, Exit, Crash, Go, Off
  <2>4. CASE Around \/ Start
    <3>1. UNCHANGED <<tail, plan, chunk, ending>>
      BY <2>4 DEF Around, WriteHalf, WriteRest, Rename, Recreate, Truncate, Start, Go
    <3> QED BY <1>1, <1>2, <2>2, <2>3, <3>1 DEF TailInv, Plain
  <2>5. CASE StopSave
    BY <1>1, <1>2, <2>1, <2>2, <2>3, <2>5 DEF TailInv, Plain, StopSave, SavePosition
  <2>6. CASE StopClose
    BY <1>1, <1>2, <2>1, <2>2, <2>3, <2>6 DEF TailInv, Plain, StopClose
  <2>7. CASE Exit \/ Crash
    <3>1. /\ pos' = 0 /\ part' = 0 /\ resume' = 0 /\ goal' = "save" /\ next' = 1 /\ last' = 0 /\ broken' = FALSE
          /\ stopping' = "no" /\ clean' = FALSE /\ base' = 0 /\ savedBase' = savedBase
      BY <2>7 DEF Exit, Crash, Off
    <3>2. base' \in Nat /\ savedBase' \in Nat /\ clean' \in BOOLEAN /\ broken' \in BOOLEAN
      BY <3>1 DEF TailInv, Plain
    <3> QED BY <1>1, <1>2, <2>1, <2>2, <2>3, <3>1, <3>2 DEF TailInv, Plain
  <2> QED BY <1>4, <2>4, <2>5, <2>6, <2>7 DEF TailNext, StopStep
<1>5. CASE TailStep
  <2>1. stopping' = stopping /\ clean' = clean
    BY <1>5, GoesOn
  <2>2. CASE Tick \/ Close \/ Save
    BY <1>1, <1>2, <2>1, <2>2 DEF TailInv, Plain, Tick, Close, Save, Go, Abandon, SavePosition
  <2>3. CASE StatDone
    <3>1. Resume \in Nat /\ (path # Nil => file[path].base \in Nat)
      BY DEF TailInv, Plain, Resume, StepInv, KnownInv, FilesInv
    <3> QED BY <1>1, <1>2, <2>1, <2>3, <3>1 DEF TailInv, Plain, StatDone, LoadFails, Go, Abandon
  <2>4. CASE Open
    <3>1. path # Nil => file[path].base \in Nat
      BY DEF TailInv, Plain, StepInv, KnownInv, FilesInv
    <3> QED BY <1>1, <1>2, <2>1, <2>4, <3>1 DEF TailInv, Plain, Open, Go, Abandon
  <2>5. CASE Read
    <3>1. CASE Abandon
      BY <1>1, <1>2, <2>1, <3>1 DEF TailInv, Plain, Go, Abandon
    <3>2. CASE fh \notin {Nil, Closed}
      <4>1. fh \in Inodes /\ file[fh].base \in Nat /\ Size(fh) \in Nat
        BY <1>3, <3>2 DEF TailInv, Plain, StepInv, KnownInv
      <4>2. base' \in Nat /\ UNCHANGED <<fh, ino, record, plan>>
        BY <2>5, <3>2, <4>1 DEF Read, PassOver, TailInv, Plain
      <4>3. CASE /\ Size(fh) <= pos
                 /\ Go(IF goal = "switch" THEN "close" ELSE "save")
                 /\ UNCHANGED <<pos, part, chunk>>
        BY <1>1, <1>2, <2>1, <4>2, <4>3 DEF TailInv, Plain, Go
      <4>4. ASSUME NEW to \in pos + 1 .. Size(fh), ReadTo(to)
            PROVE  Plain'
        <5>1. to \in Nat /\ pos \in Nat /\ pos < to /\ Done \in Nat /\ to \div 2 \in Nat /\ to % 2 \in {0, 1} /\ Done \div 2 \in Nat
          BY <4>1 DEF TailInv, Plain
        <5>2. (pos \in Nat /\ part \in {0, 1} /\ part <= pos /\ next \in Nat /\ last \in Nat /\ broken \in BOOLEAN)'
          BY <4>1, <4>4, <5>1 DEF ReadTo, Rest, TailInv, Plain
        <5>3. (at \in {"read", "process"})'
          BY <4>4 DEF ReadTo, Go
        <5> QED BY <1>1, <1>2, <2>1, <4>2, <5>2, <5>3 DEF TailInv, Plain
      <4> QED BY <2>5, <3>2, <4>3, <4>4 DEF Read
    <3> QED BY <2>5, <3>1, <3>2 DEF Read
  <2>6. CASE Process
    <3>1. pos' = pos /\ part' \in {0, 1} /\ part' <= pos' /\ next' \in Nat /\ broken' = FALSE /\ at' \in {"read", "process"}
      BY <2>6 DEF Process, Rest, TailInv, Plain, Go
    <3>2. UNCHANGED <<handle, record, plan, last>>
      BY <2>6 DEF Process
    <3> QED BY <1>1, <1>2, <2>1, <3>1, <3>2 DEF TailInv, Plain
  <2> QED BY <1>5, <2>2, <2>3, <2>4, <2>5, <2>6 DEF TailStep
<1> QED BY <1>4, <1>5

LEMMA TailStarts ==
  ASSUME TailInit
  PROVE  TailInv
<1>1. PICK i \in Inodes : path = i /\ log = i /\ file = [j \in Inodes |-> IF j = i THEN [base |-> 0, len |-> 0] ELSE Nil]
  <2>1. FirstInode \in Inodes
    BY SomeInode DEF FirstInode
  <2> QED BY <2>1 DEF TailInit
<1>2. file[log] = [base |-> 0, len |-> 0] /\ file[log] \in File /\ file[log] # Nil /\ \A j \in Inodes : j # log => file[j] = Nil
  BY <1>1 DEF File
<1>3. Shapes /\ Marks
  BY <1>1, <1>2 DEF TailInit, Shapes, Marks, File
<1>4. Plain
  <2>2. /\ \A j \in Inodes : file[j] # Nil => file[j].base \in Nat /\ file[j].len \in Nat
        /\ log \in Inodes /\ path \in Inodes \cup {Nil} /\ saved = Nil
    BY <1>1, <1>2 DEF TailInit
  <2>3. \A l \in Lines : handled[l] \in Nat
    BY DEF TailInit
  <2>4. /\ torn = 0 /\ count = 0 /\ savedBase = 0
        /\ at = "off" /\ fh = Nil /\ ino = Nil /\ base = 0
        /\ pos = 0 /\ part = 0 /\ savedPos = Nil
        /\ st = Nil /\ resume = 0 /\ goal = "save" /\ next = 1 /\ last = 0 /\ broken = FALSE
        /\ stopping = "no" /\ clean = FALSE
    BY DEF TailInit
  <2>5. saved # Nil => saved.ino \in Inodes /\ saved.pos \in Nat
    BY <2>2
  <2>6. clean \in BOOLEAN /\ broken \in BOOLEAN
    BY <2>4
  <2>7. part <= pos /\ 0 \in {0, 1}
    BY <2>4
  <2> QED BY <2>2, <2>3, <2>4, <2>5, <2>6, <2>7 DEF Plain
<1>5. FilesInv /\ StepInv
  BY <1>1, <1>2, <1>4 DEF TailInit, FilesInv, StepInv, KnownInv, PhaseInv, CleanInv, OldInv, HandInv
<1>6. Once = {} /\ TwiceInv
  BY DEF TailInit, Once, TwiceInv, NoRepeat
<1>7. OpenFront /\ HandFront /\ ShutFront
  BY <1>6 DEF TailInit, OpenFront, HandFront, ShutFront
<1>8. SavedBehind /\ WithinInv /\ CoverInv /\ HandCover
  BY DEF TailInit, SavedBehind, OnRecord, WithinInv, CoverInv, HandCover
<1> QED BY <1>3, <1>4, <1>5, <1>6, <1>7, <1>8 DEF TailInv

LEMMA StutterKeeps ==
  ASSUME TailInv, UNCHANGED tailVars
  PROVE  TailInv'
<1>1. Shapes' /\ Marks'
  BY DEF tailVars, TailInv, Shapes, Marks
<1>2. Plain'
  BY DEF tailVars, TailInv, Plain
<1>3. FilesInv' /\ StepInv'
  BY DEF tailVars, TailInv, FilesInv, StepInv, KnownInv, PhaseInv, CleanInv, OldInv, HandInv
<1>4. Once' = Once /\ Covered' = Covered
  BY DEF tailVars, Once, Covered, Handled
<1>5. \A i, p : LinesOf(i)' = LinesOf(i) /\ Before(i, p)' = Before(i, p)
  BY DEF tailVars, LinesOf, Before
<1>6. TwiceInv'
  BY <1>4 DEF tailVars, TailInv, TwiceInv, NoRepeat
<1>7. OpenFront' /\ HandFront' /\ ShutFront' /\ WithinInv'
  BY <1>4 DEF tailVars, TailInv, OpenFront, HandFront, ShutFront, WithinInv
<1>8. OnRecord' = OnRecord
  BY <1>5 DEF tailVars, OnRecord, Before, LinesOf
<1>9. SavedBehind'
  BY <1>4, <1>8 DEF TailInv, SavedBehind, Covered
<1>10. CoverInv' /\ HandCover'
  BY <1>4, <1>5 DEF tailVars, TailInv, CoverInv, HandCover, Before, LinesOf
<1> QED BY <1>1, <1>2, <1>3, <1>6, <1>7, <1>9, <1>10 DEF TailInv

LEMMA TailGoesOn ==
  ASSUME TailInv, [TailNext]_tailVars
  PROVE  TailInv'
<1>1. CASE UNCHANGED tailVars
  BY <1>1, StutterKeeps
<1>2. CASE TailNext
  <2>1. Shapes' /\ Marks' /\ Plain'
    BY <1>2, ShapesKept, MarksKept, PlainKept
  <2> QED BY <1>2, <2>1, WriteHalfKeeps, WriteRestKeeps, RenameKeeps, RecreateKeeps, TruncateKeeps, StartKeeps, TickKeeps,
          StatDoneKeeps, OpenKeeps, ReadKeeps, ProcessKeeps, CloseKeeps, SaveKeeps, StopSaveKeeps, StopCloseKeeps,
          ExitKeeps, CrashKeeps
      DEF TailNext, Around, TailStep, StopStep
<1> QED BY <1>1, <1>2

\* What the reader keeps in memory, what is on record, and what is in the log agree at
\* every step of the app, of Postfix and of the container (TailInv).
THEOREM TailInductive == TailSpec => []TailInv
<1>1. TailInit => TailInv
  BY TailStarts
<1>2. TailInv /\ [TailNext]_tailVars => TailInv'
  BY TailGoesOn
<1> QED BY <1>1, <1>2, PTL DEF TailSpec

\* The position on record never runs ahead of the lines handled: whatever the app is
\* doing when it dies, the next run skips no line that was not handled, or lost to the
\* log itself, or in hand when stop() saved (log-tail.ts, save, drain).
THEOREM NothingSkipped == TailSpec => []SavedBehind
<1>1. TailInv => SavedBehind
  BY DEF TailInv
<1> QED BY <1>1, TailInductive, PTL

\* A line goes through onLine twice only after an unclean end of the app or when the
\* file opened was not the one stat saw: rotation, truncation, chunk borders and
\* half-written lines repeat none (log-tail.ts, tick, drain).
THEOREM NothingRepeated == TailSpec => []NoRepeat
<1>1. TailInv => NoRepeat
  BY DEF TailInv, TwiceInv
<1> QED BY <1>1, TailInductive, PTL

\* The variables have their types; so a position is never before the half line that
\* save subtracts from it.
THEOREM TailTypeCorrect == TailSpec => []TailTypeOK
<1>1. TailInv => TailTypeOK
  BY DEF TailInv, Shapes, Marks, Plain, FilesInv, StepInv, KnownInv, TailTypeOK
<1> QED BY <1>1, TailInductive, PTL
=============================================================================
