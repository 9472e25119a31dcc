--------------------------- MODULE CommandService ---------------------------
(***************************************************************************)
(* What the control channel promises, without files, polling or restarts:  *)
(* a serial server of commands.  A command is pending, then taken by the   *)
(* server or dropped, and a taken command is executed once or dropped.     *)
(* A caller is told how its command ended; from then on the command is no  *)
(* longer pending, and "confirmed" is said only of a command executed.     *)
(* PostfixCtl implements it.                                               *)
(***************************************************************************)
CONSTANTS Calls

VARIABLES stage,  \* stage[c]: of the command
          told    \* told[c]: of its caller

abstractVars == <<stage, told>>

Stages == {"new", "pending", "taken", "executed", "dropped"}
Answers == {"nothing", "confirmed", "ended"}

Pending == {c \in Calls : stage[c] = "pending"}
Taken == {c \in Calls : stage[c] = "taken"}

AInit == /\ stage = [c \in Calls |-> "new"]
         /\ told = [c \in Calls |-> "nothing"]

Submit(c) ==
  /\ stage[c] = "new"
  /\ stage' = [stage EXCEPT ![c] = "pending"]
  /\ UNCHANGED told

\* The server works on one command at a time.
Take(c) ==
  /\ stage[c] = "pending" /\ Taken = {}
  /\ stage' = [stage EXCEPT ![c] = "taken"]
  /\ UNCHANGED told

Execute(c) ==
  /\ stage[c] = "taken"
  /\ stage' = [stage EXCEPT ![c] = "executed"]
  /\ UNCHANGED told

\* Commands are lost: the server or the caller stops.
Lose(S) ==
  /\ S \subseteq Pending \cup Taken
  /\ stage' = [c \in Calls |-> IF c \in S THEN "dropped" ELSE stage[c]]
  /\ UNCHANGED told

Confirm(c) ==
  /\ stage[c] = "executed" /\ told[c] = "nothing"
  /\ told' = [told EXCEPT ![c] = "confirmed"]
  /\ UNCHANGED stage

\* The caller is told something else: refused, failed, timed out.
End(c) ==
  /\ told[c] = "nothing"
  /\ told' = [told EXCEPT ![c] = "ended"]
  /\ stage' = IF stage[c] \in {"new", "pending"}
              THEN [stage EXCEPT ![c] = "dropped"] ELSE stage

ANext == \/ \E c \in Calls : \/ Submit(c) \/ Take(c) \/ Execute(c)
                             \/ Confirm(c) \/ End(c)
         \/ \E S \in SUBSET Calls : Lose(S)

ASpec == AInit /\ [][ANext]_abstractVars
=============================================================================
