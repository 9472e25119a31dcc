---------------------------- MODULE InstallProofs ----------------------------
(***************************************************************************)
(* Proofs about Install, for any domains, requests and browsers and any    *)
(* number of starts and faults.  FoundedInv follows who could have made a  *)
(* domain; KeysInv and MapInv say what is owed to the DKIM files while     *)
(* requests are still at work on them.                                     *)
(***************************************************************************)
EXTENDS Install, TLAPS

Row == [active : BOOLEAN, admin : BOOLEAN]
ReqRow == [op : {None, "verify", "create", "finish", "add", "switch", "delete"},
           at : {None, "gate", "token", "commit", "mark", "save", "count", "destroy",
                 "key", "rm", "select", "open", "put"},
           d : Domains \cup {None}, own : BOOLEAN, on : BOOLEAN, token : Nat,
           lists : SUBSET Domains, older : SUBSET Requests]
WizardRow == [step : {"away", "token", "form", "steps"}, token : Nat, known : BOOLEAN,
              waits : Requests \cup {None}]

\* The shapes of the variables, as far as the proofs need them.
TypeInv ==
  /\ up \in BOOLEAN /\ completed \in BOOLEAN /\ behind \in BOOLEAN /\ founded \in BOOLEAN
  /\ domain \in [Domains -> Row \cup {None}]
  /\ req \in [Requests -> ReqRow] /\ wizard \in [Wizards -> WizardRow]
  /\ boots \in Nat /\ hash \in Nat /\ faults \in Nat

\* The first domain is the wizard's, and comes with an administrator; only an administrator makes,
\* switches and deletes others, and only with a domain there does the wizard get behind its form.
FoundedInv ==
  completed \/ Present # {}
  \/ (\E w \in Wizards : wizard[w].step = "steps" \/ wizard[w].known)
  \/ (\E r \in Requests : \/ req[r].op \in {"add", "switch", "delete", "finish"}
                          \/ req[r].op = "create" /\ req[r].at \notin {"gate", "token", "commit"})
  => founded

\* A request that has not lost the row it is about still finds it, and one that is about to make a domain
\* has its name.
OwnInv ==
  \A r \in Requests :
    /\ req[r].own => req[r].d \in Present
    /\ req[r].op = "create" /\ req[r].at \in {"gate", "token"} => req[r].d \in Domains
    /\ req[r].at = "commit" => req[r].d \in Domains

\* A domain whose key file does not hold its key has a request that is about to write it.
KeysInv ==
  \A d \in Present : \/ d \in astray \cup keyed
                     \/ \E r \in Requests : req[r].at = "key" /\ req[r].d = d /\ req[r].own

\* Requests that have changed a row and have not read the domains since.
Owes(s) == req[s].at \in {"key", "rm", "select"}

\* A request that holds a list and is not late holds the right one, or somebody will write the map after
\* it; while it writes, the map is as it emptied it. With nothing owed the map is right.
MapInv ==
  /\ \A r \in Holding \ late :
       /\ \/ req[r].lists = Active
          \/ \E s \in Requests : Owes(s) \/ (s \in Holding /\ r \in req[s].older)
       /\ req[r].at = "put" => map = {}
  /\ \A r \in Requests : r \notin req[r].older
  /\ \A r \in Requests : req[r].at = "rm" => ~req[r].own
  /\ up => behind \/ map = Active \/ Owing # {}
  /\ ~up => \A r \in Requests : req[r] = Idle

\* A wizard waits for a request of the wizard.
WaitsInv ==
  \A w \in Wizards, r \in Requests : wizard[w].waits = r => req[r].op \in Setup

IInv == TypeInv /\ WaitsInv /\ OwnInv /\ FoundedInv /\ KeysInv /\ MapInv

-----------------------------------------------------------------------------
(* What the operators of a step do.                                         *)

LEMMA IdleIsRow == Idle \in ReqRow /\ Away \in WizardRow
BY DEF Idle, ReqRow, Away, WizardRow

\* The changes steps make to the record of a request keep its type.
LEMMA RowUpdates ==
  ASSUME NEW c \in ReqRow
  PROVE  /\ \A s : [c EXCEPT !.older = @ \ {s}] \in ReqRow
         /\ \A P : [c EXCEPT !.own = @ /\ P] \in ReqRow
         /\ \A at \in {"commit", "mark"} : [c EXCEPT !.at = at, !.token = 0] \in ReqRow
         /\ [c EXCEPT !.at = "key", !.own = TRUE] \in ReqRow
         /\ [c EXCEPT !.at = "rm", !.own = FALSE] \in ReqRow
         /\ \A at \in {"token", "select", "destroy", "rm", "put"} : [c EXCEPT !.at = at] \in ReqRow
<1>1. \A s : [c EXCEPT !.older = @ \ {s}] \in ReqRow
  BY DEF ReqRow
<1>2. \A P : [c EXCEPT !.own = @ /\ P] \in ReqRow
  BY DEF ReqRow
<1>3. \A at \in {"commit", "mark"} : [c EXCEPT !.at = at, !.token = 0] \in ReqRow
  BY DEF ReqRow
<1>4. [c EXCEPT !.at = "key", !.own = TRUE] \in ReqRow
  BY DEF ReqRow
<1>5. [c EXCEPT !.at = "rm", !.own = FALSE] \in ReqRow
  BY DEF ReqRow
<1>6. \A at \in {"token", "select", "destroy", "rm", "put"} : [c EXCEPT !.at = at] \in ReqRow
  BY DEF ReqRow
<1> QED BY <1>1, <1>2, <1>3, <1>4, <1>5, <1>6

\* A request that ends is idle, and the others lose it from what they know to be older.
LEMMA EndsReq ==
  ASSUME TypeInv, NEW r \in Requests, NEW ok \in BOOLEAN, Ends(r, ok)
  PROVE  /\ req' \in [Requests -> ReqRow]
         /\ req'[r] = Idle
         /\ \A s \in Requests \ {r} :
              /\ req'[s].op = req[s].op /\ req'[s].at = req[s].at /\ req'[s].d = req[s].d
              /\ req'[s].own = req[s].own /\ req'[s].lists = req[s].lists
              /\ req'[s].older = req[s].older \ {r}
              /\ req[s] = Idle => req'[s] = Idle
<1>1. \A s \in Requests \ {r} : req'[s] = [req[s] EXCEPT !.older = @ \ {r}]
  BY DEF Ends
<1>2. ASSUME NEW s \in Requests \ {r} PROVE req[s] \in ReqRow /\ req'[s] \in ReqRow
  <2>1. req[s] \in ReqRow
    BY DEF TypeInv
  <2>2. [req[s] EXCEPT !.older = @ \ {r}] \in ReqRow
    BY <2>1, RowUpdates
  <2> QED BY <1>1, <2>1, <2>2
<1>3. req' = [s \in Requests |-> req'[s]] /\ req'[r] = Idle
  BY DEF Ends
<1>4. req' \in [Requests -> ReqRow]
  BY <1>2, <1>3, IdleIsRow
<1>5. ASSUME NEW s \in Requests \ {r}
      PROVE  /\ req'[s].op = req[s].op /\ req'[s].at = req[s].at /\ req'[s].d = req[s].d
             /\ req'[s].own = req[s].own /\ req'[s].lists = req[s].lists
             /\ req'[s].older = req[s].older \ {r}
  BY <1>1, <1>2 DEF ReqRow
<1>6. ASSUME NEW s \in Requests \ {r}, req[s] = Idle PROVE req'[s] = Idle
  <2>1. req'[s] = [Idle EXCEPT !.older = @ \ {r}]
    BY <1>1, <1>6
  <2> QED BY <2>1 DEF Idle
<1> QED BY <1>3, <1>4, <1>5, <1>6

\* The wizards that waited for it go on, if the answer was good.
LEMMA EndsWizard ==
  ASSUME TypeInv, WaitsInv, NEW r \in Requests, NEW ok \in BOOLEAN, Ends(r, ok)
  PROVE  /\ wizard' \in [Wizards -> WizardRow]
         /\ \A w \in Wizards :
              /\ wizard'[w].known = wizard[w].known
              /\ wizard'[w].waits = IF wizard[w].waits = r THEN None ELSE wizard[w].waits
              /\ wizard'[w].step \in {wizard[w].step} \cup
                   IF wizard[w].waits = r /\ ok THEN {NextStep(w, req[r].op)} ELSE {}
<1> USE DEF TypeInv, WizardRow
<1>1. ASSUME NEW w \in Wizards, wizard[w].waits = r
      PROVE  NextStep(w, req[r].op) \in {"away", "form", "steps"}
  BY <1>1 DEF WaitsInv, NextStep, Setup
<1>2. ASSUME NEW w \in Wizards
      PROVE  /\ wizard'[w] \in WizardRow
             /\ wizard'[w].known = wizard[w].known
             /\ wizard'[w].waits = IF wizard[w].waits = r THEN None ELSE wizard[w].waits
             /\ wizard'[w].step \in {wizard[w].step} \cup
                  IF wizard[w].waits = r /\ ok THEN {NextStep(w, req[r].op)} ELSE {}
  BY <1>1 DEF Ends
<1>3. wizard' = [w \in Wizards |-> wizard'[w]]
  BY DEF Ends
<1> HIDE DEF WizardRow
<1> QED BY <1>2, <1>3

-----------------------------------------------------------------------------
(* Types, and what wizards wait for.                                        *)

LEMMA InitInv == Init => IInv
<1> SUFFICES ASSUME Init PROVE IInv
  OBVIOUS
<1> USE DEF Init
<1>1. TypeInv
  BY IdleIsRow DEF TypeInv
<1>2. WaitsInv
  BY InstallAssumption DEF WaitsInv, Away
<1>3. Present = {} /\ \A r \in Requests : req[r] = Idle
  BY DEF Present
<1>4. FoundedInv
  <2>1. \A r \in Requests : req[r].op = None
    BY <1>3 DEF Idle
  <2>2. \A w \in Wizards : wizard[w].step = "away" /\ wizard[w].known = FALSE
    BY DEF Away
  <2> QED BY <1>3, <2>1, <2>2, NoneIsNoName DEF FoundedInv, Setup
<1>5. KeysInv
  BY <1>3 DEF KeysInv
<1>7. OwnInv
  BY <1>3, NoneIsNoName DEF OwnInv, Idle
<1>6. MapInv
  <2>1. \A r \in Requests : req[r].at = None /\ req[r].older = {} /\ req[r].own = FALSE
    BY <1>3 DEF Idle
  <2>2. Holding = {}
    BY <2>1, NoneIsNoName DEF Holding
  <2> QED BY <1>3, <2>1, <2>2 DEF MapInv
<1> QED BY <1>1, <1>2, <1>4, <1>5, <1>6, <1>7 DEF IInv

\* A request that goes on, or begins, keeps the types when its record has its type.
LEMMA RecordType ==
  ASSUME TypeInv, NEW r \in Requests, NEW c \in ReqRow, req' = [req EXCEPT ![r] = c]
  PROVE  req' \in [Requests -> ReqRow]
BY DEF TypeInv

LEMMA GoesType ==
  ASSUME TypeInv, NEW r \in Requests,
         NEW to \in {"token", "select", "destroy", "rm", "put"}, Goes(r, to)
  PROVE  req' \in [Requests -> ReqRow] /\ wizard' = wizard
<1>1. [req[r] EXCEPT !.at = to] \in ReqRow
  BY RowUpdates DEF TypeInv
<1> QED BY <1>1, RecordType DEF Goes

LEMMA StepType ==
  ASSUME TypeInv, WaitsInv, OwnInv, NEW r \in Requests, Step(r)
  PROVE  TypeInv'
<1> USE DEF settings, files, blame
<1>0. ASSUME NEW ok \in BOOLEAN, Ends(r, ok)
      PROVE  req' \in [Requests -> ReqRow] /\ wizard' \in [Wizards -> WizardRow]
  BY <1>0, EndsReq, EndsWizard
<1>1. CASE Gate(r)
  BY <1>1, <1>0, GoesType DEF Gate, TypeInv
<1>2. CASE VerifySetupToken(r)
  <2>1. \A to \in {"commit", "mark"} : [req[r] EXCEPT !.at = to, !.token = 0] \in ReqRow
    BY RowUpdates DEF TypeInv
  <2>2. CASE hash = 0 \/ req[r].token # hash
    BY <1>2, <2>2, <1>0 DEF VerifySetupToken, TypeInv
  <2>3. CASE ~(hash = 0 \/ req[r].token # hash) /\ req[r].op = "verify"
    BY <1>2, <2>3, <1>0 DEF VerifySetupToken, TypeInv
  <2>4. CASE ~(hash = 0 \/ req[r].token # hash) /\ req[r].op # "verify"
    <3>1. PICK to \in {"commit", "mark"} :
            req' = [req EXCEPT ![r] = [req[r] EXCEPT !.at = to, !.token = 0]] /\ wizard' = wizard
      BY <1>2, <2>4 DEF VerifySetupToken
    <3>2. req' \in [Requests -> ReqRow]
      BY <2>1, <3>1, RecordType
    <3> QED BY <1>2, <3>1, <3>2 DEF VerifySetupToken, TypeInv
  <2> QED BY <2>2, <2>3, <2>4
<1>3. CASE MarkSetupCompleted(r)
  BY <1>3, <1>0 DEF MarkSetupCompleted, TypeInv
<1>4. CASE CreateDomain(r)
  <2>1. CASE req[r].d \in Present
    BY <1>4, <2>1, <1>0 DEF CreateDomain, TypeInv
  <2>2. CASE req[r].d \notin Present
    <3>1. [req[r] EXCEPT !.at = "key", !.own = TRUE] \in ReqRow
      BY RowUpdates DEF TypeInv
    <3>2. /\ req' = [req EXCEPT ![r] = [req[r] EXCEPT !.at = "key", !.own = TRUE]]
          /\ wizard' = wizard
          /\ domain' = [domain EXCEPT ![req[r].d] =
                          [active |-> TRUE, admin |-> req[r].op = "create"]]
          /\ founded' = (founded \/ req[r].op = "create")
      BY <1>4, <2>2 DEF CreateDomain
    <3>3. [active |-> TRUE, admin |-> req[r].op = "create"] \in Row
      BY DEF Row
    <3>4. domain' \in [Domains -> Row \cup {None}] /\ founded' \in BOOLEAN
      BY <3>2, <3>3 DEF TypeInv
    <3>5. req' \in [Requests -> ReqRow]
      BY <3>1, <3>2, RecordType
    <3> QED BY <1>4, <3>2, <3>4, <3>5 DEF CreateDomain, TypeInv
  <2> QED BY <2>1, <2>2
<1>5. CASE Save(r)
  <2>1. domain' \in [Domains -> Row \cup {None}]
    <3>1. domain' = IF req[r].own THEN [domain EXCEPT ![req[r].d].active = req[r].on] ELSE domain
      BY <1>5 DEF Save
    <3>2. CASE req[r].own
      <4>1. req[r].d \in Domains /\ domain[req[r].d] \in Row /\ req[r].on \in BOOLEAN
        BY <3>2 DEF OwnInv, Present, TypeInv, ReqRow
      <4>2. [domain[req[r].d] EXCEPT !.active = req[r].on] \in Row
        BY <4>1 DEF Row
      <4>3. domain' = [domain EXCEPT ![req[r].d] = [domain[req[r].d] EXCEPT !.active = req[r].on]]
        BY <3>1, <3>2
      <4> QED BY <4>2, <4>3 DEF TypeInv
    <3>3. CASE ~req[r].own
      BY <3>1, <3>3 DEF TypeInv
    <3> QED BY <3>2, <3>3
  <2> QED BY <1>5, <2>1, GoesType DEF Save, TypeInv
<1>6. CASE Count(r)
  BY <1>6, <1>0, GoesType DEF Count, TypeInv
<1>7. CASE Destroy(r)
  <2>1. CASE ~req[r].own
    BY <1>7, <2>1, GoesType DEF Destroy, TypeInv
  <2>2. CASE req[r].own
    <3>1. [req[r] EXCEPT !.at = "rm", !.own = FALSE] \in ReqRow
      BY RowUpdates DEF TypeInv
    <3>2. \A s \in Requests : [req[s] EXCEPT !.own = @ /\ req[s].d # req[r].d] \in ReqRow
      BY RowUpdates DEF TypeInv
    <3>3. req' \in [Requests -> ReqRow]
      BY <1>7, <2>2, <3>1, <3>2 DEF Destroy
    <3>4. domain' = [domain EXCEPT ![req[r].d] = None]
      BY <1>7, <2>2 DEF Destroy
    <3>5. domain' \in [Domains -> Row \cup {None}]
      BY <3>4 DEF TypeInv
    <3> QED BY <1>7, <2>2, <3>3, <3>5 DEF Destroy, TypeInv
  <2> QED BY <2>1, <2>2
<1>8. CASE MaterializeDomainKey(r) \/ RemoveDomainKey(r)
  BY <1>8, GoesType DEF MaterializeDomainKey, RemoveDomainKey, TypeInv
<1>9. CASE SelectActive(r)
  <2> DEFINE c == [Idle EXCEPT !.op = IF req[r].op = "create" THEN "create" ELSE "add",
                               !.at = "open", !.lists = Active, !.older = Holding]
  <2>1. Active \in SUBSET Domains /\ Holding \in SUBSET Requests
    BY DEF Active, Present, Holding
  <2>2. c \in ReqRow
    BY <2>1 DEF ReqRow, Idle
  <2> QED BY <1>9, <2>2, RecordType DEF SelectActive, TypeInv
<1>10. CASE OpenMap(r)
  BY <1>10, GoesType DEF OpenMap, TypeInv
<1>11. CASE WriteMap(r)
  <2>1. behind' \in BOOLEAN
    BY <1>11 DEF WriteMap
  <2> QED BY <1>11, <2>1, <1>0 DEF WriteMap, TypeInv
<1>12. CASE Fail(r)
  <2>1. behind' \in BOOLEAN /\ faults' \in Nat
    BY <1>12 DEF Fail, TypeInv
  <2> QED BY <1>12, <2>1, <1>0 DEF Fail, TypeInv
<1> QED
  BY <1>1, <1>2, <1>3, <1>4, <1>5, <1>6, <1>7, <1>8, <1>9, <1>10, <1>11, <1>12 DEF Step

\* What a wizard sends has its type.
LEMMA SubmitType ==
  ASSUME TypeInv, NEW w \in Wizards, Submit(w)
  PROVE  req' \in [Requests -> ReqRow] /\ wizard' \in [Wizards -> WizardRow]
<1>1. PICK r \in Requests :
        /\ req[r] = Idle
        /\ \/ \E t \in 1..boots :
                /\ wizard' = [wizard EXCEPT ![w].waits = r, ![w].token = t]
                /\ req' = [req EXCEPT ![r] = [Idle EXCEPT !.op = "verify", !.at = "gate", !.token = t]]
           \/ \E d \in Domains :
                /\ wizard' = [wizard EXCEPT ![w].waits = r]
                /\ req' = [req EXCEPT ![r] = [Idle EXCEPT !.op = "create", !.at = "gate", !.d = d,
                                                         !.token = wizard[w].token]]
           \/ /\ wizard' = [wizard EXCEPT ![w].waits = r]
              /\ req' = [req EXCEPT ![r] = [Idle EXCEPT !.op = "finish", !.at = "gate",
                                                       !.token = wizard[w].token]]
  BY DEF Submit
<1>2. wizard[w].token \in Nat
  BY DEF TypeInv, WizardRow
<1>3. wizard' \in [Wizards -> WizardRow]
  <2>1. wizard[w] \in WizardRow /\ boots \in Nat
    BY DEF TypeInv
  <2>2. [wizard[w] EXCEPT !.waits = r] \in WizardRow
    BY <2>1 DEF WizardRow
  <2>3. \A t \in Nat : [wizard[w] EXCEPT !.waits = r, !.token = t] \in WizardRow
    BY <2>1 DEF WizardRow
  <2>4. CASE \E t \in 1..boots : wizard' = [wizard EXCEPT ![w].waits = r, ![w].token = t]
    <3>1. PICK t \in 1..boots : wizard' = [wizard EXCEPT ![w].waits = r, ![w].token = t]
      BY <2>4
    <3>3. t \in Nat
      BY <2>1
    <3>2. wizard' = [wizard EXCEPT ![w] = [wizard[w] EXCEPT !.waits = r, !.token = t]]
      BY <3>1 DEF TypeInv
    <3> QED BY <3>2, <3>3, <2>3 DEF TypeInv
  <2>5. CASE wizard' = [wizard EXCEPT ![w].waits = r]
    BY <2>5, <2>2 DEF TypeInv
  <2> QED BY <1>1, <2>4, <2>5
<1>4. \A t \in Nat : [Idle EXCEPT !.op = "verify", !.at = "gate", !.token = t] \in ReqRow
  BY DEF ReqRow, Idle
<1>5. \A d \in Domains : [Idle EXCEPT !.op = "create", !.at = "gate", !.d = d,
                                     !.token = wizard[w].token] \in ReqRow
  BY <1>2 DEF ReqRow, Idle
<1>6. [Idle EXCEPT !.op = "finish", !.at = "gate", !.token = wizard[w].token] \in ReqRow
  BY <1>2 DEF ReqRow, Idle
<1>7. \A t \in 1..boots : t \in Nat
  BY DEF TypeInv
<1>8. \E c \in ReqRow : req' = [req EXCEPT ![r] = c]
  BY <1>1, <1>4, <1>5, <1>6, <1>7
<1> QED BY <1>3, <1>8, RecordType

\* So has what an administrator sends.
LEMMA AdministrateType ==
  ASSUME TypeInv, Administrate
  PROVE  req' \in [Requests -> ReqRow]
<1>1. PICK r \in Requests, d \in Domains :
        \/ req' = [req EXCEPT ![r] = [Idle EXCEPT !.op = "add", !.at = "commit", !.d = d]]
        \/ Load(r, d)
  BY DEF Administrate
<1>2. [Idle EXCEPT !.op = "add", !.at = "commit", !.d = d] \in ReqRow
  BY DEF ReqRow, Idle
<1>3. \A on \in BOOLEAN, at \in {"select", "save"} :
        [Idle EXCEPT !.op = "switch", !.d = d, !.own = TRUE, !.on = on, !.at = at] \in ReqRow
  BY DEF ReqRow, Idle
<1>4. [Idle EXCEPT !.op = "delete", !.d = d, !.own = TRUE, !.at = "count"] \in ReqRow
  BY DEF ReqRow, Idle
<1>5. ASSUME Load(r, d) PROVE \E c \in ReqRow : req' = [req EXCEPT ![r] = c]
  <2>1. CASE \E on \in BOOLEAN : req' = [req EXCEPT ![r] =
           [Idle EXCEPT !.op = "switch", !.d = d, !.own = TRUE, !.on = on,
                        !.at = IF domain[d].active = on THEN "select" ELSE "save"]]
    BY <2>1, <1>3
  <2> QED BY <1>5, <2>1, <1>4 DEF Load
<1> QED BY <1>1, <1>2, <1>5, RecordType

LEMMA NextType ==
  ASSUME TypeInv, WaitsInv, OwnInv, [Do]_vars
  PROVE  TypeInv'
<1> USE DEF settings, files, blame
<1>1. CASE UNCHANGED vars
  BY <1>1 DEF vars, TypeInv
<1>2. ASSUME NEW w \in Wizards, OpenWizard(w) \/ Back(w) \/ Lose(w) PROVE TypeInv'
  <2>1. [step |-> "token", token |-> 0, known |-> Present # {}, waits |-> None] \in WizardRow
    BY DEF WizardRow
  <2>2. wizard' \in [Wizards -> WizardRow]
    BY <1>2, <2>1, IdleIsRow DEF OpenWizard, Back, Lose, TypeInv, WizardRow
  <2> QED BY <1>2, <2>2 DEF OpenWizard, Back, Lose, TypeInv
<1>3. ASSUME NEW w \in Wizards, Submit(w) PROVE TypeInv'
  <2>1. UNCHANGED <<up, boots, settings, domain, files, blame, founded, faults>>
    BY <1>3 DEF Submit
  <2> QED BY <1>3, <2>1, SubmitType DEF TypeInv
<1>4. CASE Administrate
  <2>1. UNCHANGED <<up, boots, settings, domain, files, wizard, blame, founded, faults>>
    BY <1>4 DEF Administrate
  <2> QED BY <1>4, <2>1, AdministrateType DEF TypeInv
<1>5. CASE Stop
  <2>1. wizard' \in [Wizards -> WizardRow]
    BY <1>5 DEF Stop, TypeInv, WizardRow
  <2>2. req' \in [Requests -> ReqRow]
    BY <1>5, IdleIsRow DEF Stop
  <2> QED BY <1>5, <2>1, <2>2 DEF Stop, TypeInv
<1>6. CASE Boot
  <2>1. PICK fresh \in BOOLEAN, whole \in BOOLEAN, written \in SUBSET Present :
          /\ behind' \in {TRUE, FALSE}
          /\ faults' = faults + IF fresh \/ ~whole THEN 1 ELSE 0
    BY <1>6 DEF Boot, MaterializeAllKeys
  <2>3. faults' \in Nat
    BY <2>1 DEF TypeInv
  <2>2. completed' \in BOOLEAN /\ hash' \in Nat /\ boots' \in Nat /\ up' \in BOOLEAN
    BY <1>6 DEF Boot, InitSetupToken, TypeInv
  <2> QED BY <1>6, <2>1, <2>2, <2>3 DEF Boot, TypeInv
<1> QED BY <1>1, <1>2, <1>3, <1>4, <1>5, <1>6, StepType DEF Do

-----------------------------------------------------------------------------
(* What the steps of r leave of the other requests, and make of r.          *)

\* The others keep what they are at and about; r may become older than none of them, and a domain that
\* goes takes the row from them.
OthersStay(r) ==
  \A s \in Requests \ {r} :
    /\ req'[s].op = req[s].op /\ req'[s].at = req[s].at /\ req'[s].d = req[s].d
    /\ req'[s].lists = req[s].lists
    /\ req'[s].older \in {req[s].older, req[s].older \ {r}}
    /\ req'[s].own => req[s].own

\* A record replaces that of r.
LEMMA OnlyOwnRecord ==
  ASSUME TypeInv, NEW r \in Requests, NEW c, req' = [req EXCEPT ![r] = c]
  PROVE  /\ OthersStay(r) /\ req'[r] = c
         /\ \A s \in Requests \ {r} : req'[s] = req[s]
<1>1. \A s \in Requests \ {r} : req'[s] = req[s]
  BY DEF TypeInv
<1>2. req'[r] = c
  BY DEF TypeInv
<1> QED BY <1>1, <1>2 DEF OthersStay

LEMMA EndsOthers ==
  ASSUME TypeInv, NEW r \in Requests, NEW ok \in BOOLEAN, Ends(r, ok)
  PROVE  /\ OthersStay(r) /\ req'[r] = Idle
         /\ \A s \in Requests \ {r} : req'[s].own = req[s].own
BY EndsReq DEF OthersStay

LEMMA GoesOthers ==
  ASSUME TypeInv, NEW r \in Requests, NEW to, Goes(r, to)
  PROVE  /\ OthersStay(r) /\ wizard' = wizard
         /\ \A s \in Requests \ {r} : req'[s] = req[s]
         /\ req'[r].at = to
         /\ req'[r].op = req[r].op /\ req'[r].d = req[r].d /\ req'[r].own = req[r].own
         /\ req'[r].lists = req[r].lists /\ req'[r].older = req[r].older
<1>1. req' = [req EXCEPT ![r] = [req[r] EXCEPT !.at = to]] /\ wizard' = wizard
  BY DEF Goes
<1>2. OthersStay(r) /\ req'[r] = [req[r] EXCEPT !.at = to] /\ \A s \in Requests \ {r} : req'[s] = req[s]
  BY <1>1, OnlyOwnRecord
<1>3. req[r] \in ReqRow
  BY DEF TypeInv
<1> QED BY <1>1, <1>2, <1>3 DEF ReqRow

\* The token is right: the wizard's request goes on.
LEMMA PassesOthers ==
  ASSUME TypeInv, NEW r \in Requests, VerifySetupToken(r)
  PROVE  \/ Ends(r, FALSE)
         \/ (req[r].op = "verify" /\ Ends(r, TRUE))
         \/ /\ OthersStay(r) /\ wizard' = wizard
            /\ \A s \in Requests \ {r} : req'[s] = req[s]
            /\ \/ req[r].op = "create" /\ req'[r].at = "commit"
               \/ req[r].op = "finish" /\ req'[r].at = "mark"
            /\ req'[r].op = req[r].op /\ req'[r].d = req[r].d /\ req'[r].own = req[r].own
            /\ req'[r].lists = req[r].lists /\ req'[r].older = req[r].older
<1>1. CASE hash = 0 \/ req[r].token # hash
  BY <1>1 DEF VerifySetupToken
<1>2. CASE ~(hash = 0 \/ req[r].token # hash) /\ req[r].op = "verify"
  BY <1>2 DEF VerifySetupToken
<1>3. CASE ~(hash = 0 \/ req[r].token # hash) /\ req[r].op # "verify"
  <2> DEFINE to == IF req[r].op = "create" THEN "commit" ELSE "mark"
             c == [req[r] EXCEPT !.at = to, !.token = 0]
  <2>1. req' = [req EXCEPT ![r] = c] /\ wizard' = wizard
    BY <1>3 DEF VerifySetupToken
  <2>2. req[r].op \in {"create", "finish"}
    BY <1>3 DEF VerifySetupToken, At, Setup
  <2>3. req[r] \in ReqRow
    BY DEF TypeInv
  <2>5. \/ req[r].op = "create" /\ to = "commit"
        \/ req[r].op = "finish" /\ to = "mark"
    BY <2>2
  <2> HIDE DEF to
  <2>4. /\ c.at = to /\ c.op = req[r].op /\ c.d = req[r].d /\ c.own = req[r].own
        /\ c.lists = req[r].lists /\ c.older = req[r].older
    BY <2>3 DEF ReqRow
  <2> HIDE DEF c
  <2>6. OthersStay(r) /\ req'[r] = c /\ \A s \in Requests \ {r} : req'[s] = req[s]
    BY <2>1, OnlyOwnRecord
  <2> QED BY <2>1, <2>4, <2>5, <2>6
<1> QED BY <1>1, <1>2, <1>3

\* A domain is made: its request has a key to write.
LEMMA CreatesOthers ==
  ASSUME TypeInv, NEW r \in Requests, CreateDomain(r), req[r].d \notin Present
  PROVE  /\ OthersStay(r) /\ wizard' = wizard
         /\ \A s \in Requests \ {r} : req'[s] = req[s]
         /\ req'[r].at = "key" /\ req'[r].own = TRUE
         /\ req'[r].op = req[r].op /\ req'[r].d = req[r].d /\ req'[r].older = req[r].older
<1> DEFINE c == [req[r] EXCEPT !.at = "key", !.own = TRUE]
<1>1. req' = [req EXCEPT ![r] = c] /\ wizard' = wizard
  BY DEF CreateDomain
<1>2. req[r] \in ReqRow
  BY DEF TypeInv
<1>3. /\ c.at = "key" /\ c.own = TRUE
      /\ c.op = req[r].op /\ c.d = req[r].d /\ c.older = req[r].older
  BY <1>2 DEF ReqRow
<1> HIDE DEF c
<1>4. OthersStay(r) /\ req'[r] = c /\ \A s \in Requests \ {r} : req'[s] = req[s]
  BY <1>1, OnlyOwnRecord
<1> QED BY <1>1, <1>3, <1>4

\* A domain goes: whoever else is about its row has lost it.
LEMMA DestroysOthers ==
  ASSUME TypeInv, NEW r \in Requests, Destroy(r), req[r].own
  PROVE  /\ OthersStay(r) /\ wizard' = wizard
         /\ req'[r].at = "rm" /\ req'[r].own = FALSE
         /\ req'[r].op = req[r].op /\ req'[r].d = req[r].d /\ req'[r].older = req[r].older
         /\ \A s \in Requests \ {r} : req'[s].own <=> req[s].own /\ req[s].d # req[r].d
<1>1. /\ req' = [s \in Requests |-> IF s = r THEN [req[s] EXCEPT !.at = "rm", !.own = FALSE]
                                   ELSE [req[s] EXCEPT !.own = @ /\ req[s].d # req[r].d]]
      /\ wizard' = wizard
  BY DEF Destroy
<1>2. req'[r] = [req[r] EXCEPT !.at = "rm", !.own = FALSE]
  BY <1>1
<1>3. ASSUME NEW s \in Requests \ {r}
      PROVE  req'[s] = [req[s] EXCEPT !.own = @ /\ req[s].d # req[r].d]
  BY <1>1
<1>4. \A s \in Requests : req[s] \in ReqRow
  BY DEF TypeInv
<1>5. ASSUME NEW s \in Requests \ {r}
      PROVE  /\ req'[s].op = req[s].op /\ req'[s].at = req[s].at /\ req'[s].d = req[s].d
             /\ req'[s].lists = req[s].lists /\ req'[s].older = req[s].older
             /\ req'[s].own <=> req[s].own /\ req[s].d # req[r].d
  <2>1. req[s] \in ReqRow
    BY <1>4
  <2>2. \A P : LET c == [req[s] EXCEPT !.own = @ /\ P]
               IN  /\ c.op = req[s].op /\ c.at = req[s].at /\ c.d = req[s].d
                   /\ c.lists = req[s].lists /\ c.older = req[s].older
    BY <2>1 DEF ReqRow
  <2>3. req'[s].own = (req[s].own /\ req[s].d # req[r].d)
    BY <1>3, <2>1 DEF ReqRow
  <2> QED BY <1>3, <2>2, <2>3
<1>6. /\ req'[r].at = "rm" /\ req'[r].own = FALSE
      /\ req'[r].op = req[r].op /\ req'[r].d = req[r].d /\ req'[r].older = req[r].older
  BY <1>2, <1>4 DEF ReqRow
<1> QED BY <1>1, <1>5, <1>6 DEF OthersStay

\* A request reads the domains: its list is that of the active ones.
LEMMA SelectsOthers ==
  ASSUME TypeInv, NEW r \in Requests, SelectActive(r)
  PROVE  /\ OthersStay(r) /\ wizard' = wizard
         /\ \A s \in Requests \ {r} : req'[s] = req[s]
         /\ req'[r].at = "open" /\ req'[r].own = FALSE
         /\ req'[r].op = IF req[r].op = "create" THEN "create" ELSE "add"
         /\ req'[r].lists = Active /\ req'[r].older = Holding
<1> DEFINE c == [Idle EXCEPT !.op = IF req[r].op = "create" THEN "create" ELSE "add",
                             !.at = "open", !.lists = Active, !.older = Holding]
<1>1. req' = [req EXCEPT ![r] = c] /\ wizard' = wizard
  BY DEF SelectActive
<1>2. /\ c.at = "open" /\ c.own = FALSE /\ c.op = IF req[r].op = "create" THEN "create" ELSE "add"
      /\ c.lists = Active /\ c.older = Holding
  BY DEF Idle
<1> HIDE DEF c
<1>3. OthersStay(r) /\ req'[r] = c /\ \A s \in Requests \ {r} : req'[s] = req[s]
  BY <1>1, OnlyOwnRecord
<1> QED BY <1>1, <1>2, <1>3

\* What a wizard asks for starts at the gate, of no domain's row.
LEMMA SubmitsOthers ==
  ASSUME TypeInv, NEW w \in Wizards, Submit(w)
  PROVE  \E r \in Requests :
           /\ OthersStay(r) /\ req[r] = Idle /\ \A s \in Requests \ {r} : req'[s] = req[s]
           /\ req'[r].at = "gate" /\ req'[r].own = FALSE /\ req'[r].older = {}
           /\ \/ req'[r].op = "verify" \/ (req'[r].op = "create" /\ req'[r].d \in Domains)
              \/ req'[r].op = "finish" /\ wizard[w].step = "steps"
           /\ wizard[w].waits = None /\ wizard'[w].waits = r
           /\ wizard'[w].step = wizard[w].step /\ wizard'[w].known = wizard[w].known
           /\ \A v \in Wizards \ {w} : wizard'[v] = wizard[v]
<1>1. PICK r \in Requests :
        /\ req[r] = Idle /\ wizard[w].waits = None
        /\ \/ \E t \in 1..boots :
                /\ wizard' = [wizard EXCEPT ![w].waits = r, ![w].token = t]
                /\ req' = [req EXCEPT ![r] = [Idle EXCEPT !.op = "verify", !.at = "gate", !.token = t]]
           \/ \E d \in Domains :
                /\ wizard' = [wizard EXCEPT ![w].waits = r]
                /\ req' = [req EXCEPT ![r] = [Idle EXCEPT !.op = "create", !.at = "gate", !.d = d,
                                                         !.token = wizard[w].token]]
           \/ /\ wizard[w].step = "steps"
              /\ wizard' = [wizard EXCEPT ![w].waits = r]
              /\ req' = [req EXCEPT ![r] = [Idle EXCEPT !.op = "finish", !.at = "gate",
                                                       !.token = wizard[w].token]]
  BY DEF Submit
<1>2. /\ wizard'[w].waits = r
      /\ wizard'[w].step = wizard[w].step /\ wizard'[w].known = wizard[w].known
      /\ \A v \in Wizards \ {w} : wizard'[v] = wizard[v]
  <2>1. wizard \in [Wizards -> WizardRow]
    BY DEF TypeInv
  <2>2. CASE \E t \in 1..boots : wizard' = [wizard EXCEPT ![w].waits = r, ![w].token = t]
    BY <2>1, <2>2 DEF WizardRow
  <2>3. CASE wizard' = [wizard EXCEPT ![w].waits = r]
    BY <2>1, <2>3 DEF WizardRow
  <2> QED BY <1>1, <2>2, <2>3
<1>3. ASSUME NEW c, req' = [req EXCEPT ![r] = c]
      PROVE  OthersStay(r) /\ req'[r] = c /\ \A s \in Requests \ {r} : req'[s] = req[s]
  BY <1>3, OnlyOwnRecord
<1>4. \A t : /\ [Idle EXCEPT !.op = "verify", !.at = "gate", !.token = t].at = "gate"
             /\ [Idle EXCEPT !.op = "verify", !.at = "gate", !.token = t].own = FALSE
             /\ [Idle EXCEPT !.op = "verify", !.at = "gate", !.token = t].older = {}
             /\ [Idle EXCEPT !.op = "verify", !.at = "gate", !.token = t].op = "verify"
  BY DEF Idle
<1>5. \A d, t : /\ [Idle EXCEPT !.op = "create", !.at = "gate", !.d = d, !.token = t].at = "gate"
                /\ [Idle EXCEPT !.op = "create", !.at = "gate", !.d = d, !.token = t].own = FALSE
                /\ [Idle EXCEPT !.op = "create", !.at = "gate", !.d = d, !.token = t].older = {}
                /\ [Idle EXCEPT !.op = "create", !.at = "gate", !.d = d, !.token = t].op = "create"
                /\ [Idle EXCEPT !.op = "create", !.at = "gate", !.d = d, !.token = t].d = d
  BY DEF Idle
<1>6. \A t : /\ [Idle EXCEPT !.op = "finish", !.at = "gate", !.token = t].at = "gate"
             /\ [Idle EXCEPT !.op = "finish", !.at = "gate", !.token = t].own = FALSE
             /\ [Idle EXCEPT !.op = "finish", !.at = "gate", !.token = t].older = {}
             /\ [Idle EXCEPT !.op = "finish", !.at = "gate", !.token = t].op = "finish"
  BY DEF Idle
<1>7. /\ OthersStay(r) /\ \A s \in Requests \ {r} : req'[s] = req[s]
      /\ req'[r].at = "gate" /\ req'[r].own = FALSE /\ req'[r].older = {}
      /\ \/ req'[r].op = "verify" \/ (req'[r].op = "create" /\ req'[r].d \in Domains)
         \/ req'[r].op = "finish" /\ wizard[w].step = "steps"
  <2>1. CASE \E t \in 1..boots :
               req' = [req EXCEPT ![r] = [Idle EXCEPT !.op = "verify", !.at = "gate", !.token = t]]
    <3>1. PICK t \in 1..boots :
            req' = [req EXCEPT ![r] = [Idle EXCEPT !.op = "verify", !.at = "gate", !.token = t]]
      BY <2>1
    <3> DEFINE c == [Idle EXCEPT !.op = "verify", !.at = "gate", !.token = t]
    <3>2. c.at = "gate" /\ c.own = FALSE /\ c.older = {} /\ c.op = "verify"
      BY <1>4
    <3>3. req' = [req EXCEPT ![r] = c]
      BY <3>1
    <3> HIDE DEF c
    <3> QED BY <1>3, <3>2, <3>3
  <2>2. CASE \E d \in Domains :
               req' = [req EXCEPT ![r] = [Idle EXCEPT !.op = "create", !.at = "gate", !.d = d,
                                                     !.token = wizard[w].token]]
    <3>1. PICK d \in Domains :
            req' = [req EXCEPT ![r] = [Idle EXCEPT !.op = "create", !.at = "gate", !.d = d,
                                                  !.token = wizard[w].token]]
      BY <2>2
    <3> DEFINE c == [Idle EXCEPT !.op = "create", !.at = "gate", !.d = d, !.token = wizard[w].token]
    <3>2. c.at = "gate" /\ c.own = FALSE /\ c.older = {} /\ c.op = "create" /\ c.d = d
      BY <1>5
    <3>3. req' = [req EXCEPT ![r] = c]
      BY <3>1
    <3> HIDE DEF c
    <3> QED BY <1>3, <3>2, <3>3
  <2>3. CASE /\ wizard[w].step = "steps"
             /\ req' = [req EXCEPT ![r] = [Idle EXCEPT !.op = "finish", !.at = "gate",
                                                      !.token = wizard[w].token]]
    BY <2>3, <1>3, <1>6
  <2> QED BY <1>1, <2>1, <2>2, <2>3
<1> QED BY <1>1, <1>2, <1>7

\* What an administrator asks for is about a row that is there, or about none yet.
LEMMA AdministratesOthers ==
  ASSUME TypeInv, Administrate
  PROVE  \E r \in Requests :
           /\ OthersStay(r) /\ req[r] = Idle /\ \A s \in Requests \ {r} : req'[s] = req[s]
           /\ req'[r].op \in {"add", "switch", "delete"} /\ req'[r].older = {}
           /\ \/ req'[r].at = "commit" /\ req'[r].own = FALSE /\ req'[r].d \in Domains
              \/ req'[r].at \in {"select", "save", "count"} /\ req'[r].own = TRUE /\ req'[r].d \in Present
<1>1. PICK r \in Requests, d \in Domains :
        /\ req[r] = Idle
        /\ \/ req' = [req EXCEPT ![r] = [Idle EXCEPT !.op = "add", !.at = "commit", !.d = d]]
           \/ Load(r, d)
  BY DEF Administrate
<1>2. ASSUME NEW c, req' = [req EXCEPT ![r] = c]
      PROVE  OthersStay(r) /\ req'[r] = c /\ \A s \in Requests \ {r} : req'[s] = req[s]
  BY <1>2, OnlyOwnRecord
<1>3. CASE req' = [req EXCEPT ![r] = [Idle EXCEPT !.op = "add", !.at = "commit", !.d = d]]
  <2> DEFINE c == [Idle EXCEPT !.op = "add", !.at = "commit", !.d = d]
  <2>1. c.op = "add" /\ c.older = {} /\ c.at = "commit" /\ c.own = FALSE /\ c.d = d
    BY DEF Idle
  <2>2. OthersStay(r) /\ req'[r] = c /\ \A s \in Requests \ {r} : req'[s] = req[s]
    BY <1>3, <1>2
  <2> HIDE DEF c
  <2> QED BY <1>1, <2>1, <2>2
<1>4. CASE Load(r, d)
  <2>1. d \in Present
    BY <1>4 DEF Load
  <2>2. ASSUME NEW on \in BOOLEAN,
               req' = [req EXCEPT ![r] = [Idle EXCEPT !.op = "switch", !.d = d, !.own = TRUE, !.on = on,
                                        !.at = IF domain[d].active = on THEN "select" ELSE "save"]]
        PROVE  /\ OthersStay(r) /\ \A s \in Requests \ {r} : req'[s] = req[s]
               /\ req'[r].op = "switch" /\ req'[r].older = {} /\ req'[r].own = TRUE /\ req'[r].d = d
               /\ req'[r].at \in {"select", "save"}
    <3> DEFINE c == [Idle EXCEPT !.op = "switch", !.d = d, !.own = TRUE, !.on = on,
                                 !.at = IF domain[d].active = on THEN "select" ELSE "save"]
    <3>1. /\ c.op = "switch" /\ c.older = {} /\ c.own = TRUE /\ c.d = d
          /\ c.at = IF domain[d].active = on THEN "select" ELSE "save"
      BY DEF Idle
    <3>2. OthersStay(r) /\ req'[r] = c /\ \A s \in Requests \ {r} : req'[s] = req[s]
      BY <2>2, <1>2
    <3> HIDE DEF c
    <3> QED BY <3>1, <3>2
  <2>3. CASE req' = [req EXCEPT ![r] = [Idle EXCEPT !.op = "delete", !.d = d, !.own = TRUE, !.at = "count"]]
    <3> DEFINE c == [Idle EXCEPT !.op = "delete", !.d = d, !.own = TRUE, !.at = "count"]
    <3>1. c.op = "delete" /\ c.older = {} /\ c.own = TRUE /\ c.d = d /\ c.at = "count"
      BY DEF Idle
    <3>2. OthersStay(r) /\ req'[r] = c /\ \A s \in Requests \ {r} : req'[s] = req[s]
      BY <2>3, <1>2
    <3> HIDE DEF c
    <3> QED BY <1>1, <2>1, <3>1, <3>2
  <2>4. \/ \E on \in BOOLEAN :
             req' = [req EXCEPT ![r] = [Idle EXCEPT !.op = "switch", !.d = d, !.own = TRUE, !.on = on,
                                        !.at = IF domain[d].active = on THEN "select" ELSE "save"]]
        \/ req' = [req EXCEPT ![r] = [Idle EXCEPT !.op = "delete", !.d = d, !.own = TRUE, !.at = "count"]]
    BY <1>4 DEF Load
  <2> QED BY <1>1, <2>1, <2>2, <2>3, <2>4
<1> QED BY <1>1, <1>3, <1>4

-----------------------------------------------------------------------------
(* The wizards, the rows and the requests about them.                       *)

\* Rows that are not None.
LEMMA RowIsNotNone ==
  /\ \A b \in BOOLEAN : [active |-> TRUE, admin |-> b] # None
  /\ \A c \in Row : c # None
<1>1. None \notin Row
  BY NoneIsNoName DEF Row
<1>2. \A b \in BOOLEAN : [active |-> TRUE, admin |-> b] \in Row
  BY DEF Row
<1> QED BY <1>1, <1>2

\* Only a domain that is made adds to those there are, only one that is destroyed takes from them.
LEMMA StepPresent ==
  ASSUME TypeInv, OwnInv, NEW r \in Requests, Step(r)
  PROVE  \/ Present' = Present
         \/ /\ CreateDomain(r) /\ req[r].d \notin Present /\ req[r].d \in Domains
            /\ Present' = Present \cup {req[r].d}
         \/ (Destroy(r) /\ req[r].own /\ Present' = Present \ {req[r].d})
<1>1. CASE domain' = domain
  BY <1>1 DEF Present
<1>2. ASSUME CreateDomain(r), req[r].d \notin Present
      PROVE  req[r].d \in Domains /\ Present' = Present \cup {req[r].d}
  <2> DEFINE c == [active |-> TRUE, admin |-> req[r].op = "create"]
  <2>1. domain' = [domain EXCEPT ![req[r].d] = c]
    BY <1>2 DEF CreateDomain
  <2>2. req[r].d \in Domains
    BY <1>2 DEF CreateDomain, At, OwnInv
  <2>3. c # None
    BY RowIsNotNone
  <2> HIDE DEF c
  <2> QED BY <2>1, <2>2, <2>3 DEF Present, TypeInv
<1>3. ASSUME Destroy(r), req[r].own
      PROVE  Present' = Present \ {req[r].d}
  BY <1>3 DEF Destroy, Present, TypeInv
<1>4. ASSUME Save(r)
      PROVE  Present' = Present
  <2>1. domain' = IF req[r].own THEN [domain EXCEPT ![req[r].d].active = req[r].on] ELSE domain
    BY <1>4 DEF Save
  <2>2. CASE req[r].own
    <3>1. /\ req[r].d \in Domains /\ domain[req[r].d] \in Row /\ req[r].on \in BOOLEAN
          /\ domain[req[r].d] # None
      BY <2>2 DEF OwnInv, Present, TypeInv, ReqRow
    <3> DEFINE c == [domain[req[r].d] EXCEPT !.active = req[r].on]
    <3>2. c \in Row
      BY <3>1 DEF Row
    <3>3. domain' = [domain EXCEPT ![req[r].d] = c]
      BY <2>1, <2>2
    <3> HIDE DEF c
    <3>4. c # None
      BY <3>2, RowIsNotNone
    <3> QED BY <3>1, <3>3, <3>4 DEF Present, TypeInv
  <2>3. CASE ~req[r].own
    BY <2>1, <2>3 DEF Present
  <2> QED BY <2>2, <2>3
<1>5. CASE Gate(r) \/ VerifySetupToken(r) \/ MarkSetupCompleted(r) \/ Count(r)
  BY <1>1, <1>5 DEF Gate, VerifySetupToken, MarkSetupCompleted, Count
<1>6. CASE MaterializeDomainKey(r) \/ RemoveDomainKey(r) \/ SelectActive(r) \/ OpenMap(r)
  BY <1>1, <1>6 DEF MaterializeDomainKey, RemoveDomainKey, SelectActive, OpenMap
<1>7. CASE WriteMap(r) \/ Fail(r)
  BY <1>1, <1>7 DEF WriteMap, Fail
<1>8. CASE CreateDomain(r)
  <2>1. CASE req[r].d \in Present
    BY <1>8, <1>1, <2>1 DEF CreateDomain
  <2> QED BY <1>8, <2>1, <1>2
<1>9. CASE Destroy(r)
  <2>1. CASE ~req[r].own
    BY <1>9, <1>1, <2>1 DEF Destroy
  <2> QED BY <1>9, <2>1, <1>3
<1> QED BY <1>4, <1>5, <1>6, <1>7, <1>8, <1>9 DEF Step

\* A step of a request moves that one on alone, but for a row that others lose.
LEMMA StepOthers ==
  ASSUME TypeInv, NEW r \in Requests, Step(r)
  PROVE  OthersStay(r)
<1>1. CASE Gate(r) \/ MarkSetupCompleted(r) \/ Count(r) \/ WriteMap(r) \/ Fail(r)
  BY <1>1, EndsOthers, GoesOthers DEF Gate, MarkSetupCompleted, Count, WriteMap, Fail
<1>2. CASE Save(r) \/ MaterializeDomainKey(r) \/ RemoveDomainKey(r) \/ OpenMap(r)
  BY <1>2, GoesOthers DEF Save, MaterializeDomainKey, RemoveDomainKey, OpenMap
<1>3. CASE VerifySetupToken(r)
  BY <1>3, EndsOthers, PassesOthers
<1>4. CASE CreateDomain(r)
  <2>1. CASE req[r].d \in Present
    BY <1>4, <2>1, EndsOthers DEF CreateDomain
  <2> QED BY <1>4, <2>1, CreatesOthers
<1>5. CASE Destroy(r)
  <2>1. CASE ~req[r].own
    BY <1>5, <2>1, GoesOthers DEF Destroy
  <2> QED BY <1>5, <2>1, DestroysOthers
<1>6. CASE SelectActive(r)
  BY <1>6, SelectsOthers
<1> QED BY <1>1, <1>2, <1>3, <1>4, <1>5, <1>6 DEF Step

\* What is not a step of a request changes no domain.
LEMMA RestDomains ==
  ASSUME \/ \E w \in Wizards : OpenWizard(w) \/ Back(w) \/ Submit(w) \/ Lose(w)
         \/ Administrate \/ Stop \/ Boot \/ UNCHANGED vars
  PROVE  domain' = domain /\ Present' = Present /\ Active' = Active
<1>1. domain' = domain
  BY DEF OpenWizard, Back, Submit, Lose, Administrate, Stop, Boot, vars
<1>2. Present' = Present
  BY <1>1 DEF Present
<1> QED BY <1>1, <1>2 DEF Active

\* Browsers that open the page, go back or lose an answer, and a start, move no request.
LEMMA RestRequests ==
  ASSUME \/ \E w \in Wizards : OpenWizard(w) \/ Back(w) \/ Lose(w)
         \/ Boot \/ UNCHANGED vars
  PROVE  req' = req
BY DEF OpenWizard, Back, Lose, Boot, vars

LEMMA NextOwn ==
  ASSUME TypeInv, OwnInv, [Do]_vars
  PROVE  OwnInv'
<1> DEFINE Fine(s) == /\ req[s].own => req[s].d \in Present
                      /\ req[s].op = "create" /\ req[s].at \in {"gate", "token"} => req[s].d \in Domains
                      /\ req[s].at = "commit" => req[s].d \in Domains
<1>0. (\A s \in Requests : Fine(s)') => OwnInv'
  BY DEF OwnInv
<1>1. ASSUME NEW s \in Requests, req'[s] = Idle PROVE Fine(s)'
  BY <1>1, NoneIsNoName DEF Idle
<1>2. ASSUME NEW s \in Requests, req'[s] = req[s], Present' = Present PROVE Fine(s)'
  BY <1>2 DEF OwnInv
<1>3. ASSUME NEW r \in Requests, Step(r), NEW s \in Requests \ {r} PROVE Fine(s)'
  <2>1. /\ req'[s].op = req[s].op /\ req'[s].at = req[s].at /\ req'[s].d = req[s].d
        /\ req'[s].own => req[s].own
    BY <1>3, StepOthers DEF OthersStay
  <2>2. req'[s].own => req'[s].d \in Present'
    <3>1. CASE Present' = Present \/ Present' = Present \cup {req[r].d}
      BY <2>1, <3>1 DEF OwnInv
    <3>2. CASE Destroy(r) /\ req[r].own /\ Present' = Present \ {req[r].d}
      <4>1. req'[s].own => req[s].own /\ req[s].d # req[r].d
        BY <1>3, <3>2, DestroysOthers
      <4> QED BY <2>1, <3>2, <4>1 DEF OwnInv
    <3> QED BY <1>3, <3>1, <3>2, StepPresent
  <2> QED BY <2>1, <2>2 DEF OwnInv
<1>4. ASSUME NEW r \in Requests, Step(r) PROVE Fine(r)'
  <2>1. CASE Gate(r)
    <3>1. CASE Ends(r, FALSE)
      BY <3>1, EndsOthers, <1>1
    <3>2. CASE Goes(r, "token")
      <4>1. Present' = Present /\ req[r].at = "gate"
        BY <2>1 DEF Gate, Present, At
      <4> QED BY <3>2, <4>1, GoesOthers DEF OwnInv
    <3> QED BY <2>1, <3>1, <3>2 DEF Gate
  <2>2. CASE VerifySetupToken(r)
    <3>1. CASE Ends(r, FALSE) \/ Ends(r, TRUE)
      BY <3>1, EndsOthers, <1>1
    <3>2. Present' = Present /\ req[r].at = "token"
      BY <2>2 DEF VerifySetupToken, Present, At
    <3> QED BY <2>2, <3>1, <3>2, PassesOthers DEF OwnInv
  <2>3. CASE MarkSetupCompleted(r) \/ WriteMap(r) \/ Fail(r)
    <3>1. Ends(r, FALSE) \/ Ends(r, TRUE)
      BY <2>3 DEF MarkSetupCompleted, WriteMap, Fail
    <3> QED BY <3>1, EndsOthers, <1>1
  <2>4. CASE CreateDomain(r)
    <3>1. CASE req[r].d \in Present
      BY <2>4, <3>1, EndsOthers, <1>1 DEF CreateDomain
    <3>2. CASE req[r].d \notin Present
      <4>1. req'[r].at = "key" /\ req'[r].d = req[r].d
        BY <2>4, <3>2, CreatesOthers
      <4>2. req[r].d \in Present'
        <5> DEFINE c == [active |-> TRUE, admin |-> req[r].op = "create"]
        <5>1. domain' = [domain EXCEPT ![req[r].d] = c]
          BY <2>4, <3>2 DEF CreateDomain
        <5>2. req[r].d \in Domains
          BY <2>4 DEF CreateDomain, At, OwnInv
        <5>3. c # None
          BY RowIsNotNone
        <5> HIDE DEF c
        <5> QED BY <5>1, <5>2, <5>3 DEF Present, TypeInv
      <4> QED BY <4>1, <4>2
    <3> QED BY <3>1, <3>2
  <2>5. CASE Save(r)
    <3>1. Present' = Present
      BY <1>4, <2>5, StepPresent DEF Save, CreateDomain, Destroy, At
    <3> QED BY <2>5, <3>1, GoesOthers DEF Save, OwnInv
  <2>6. CASE Count(r)
    <3>1. CASE Ends(r, FALSE)
      BY <3>1, EndsOthers, <1>1
    <3>2. CASE Goes(r, "destroy")
      <4>1. Present' = Present
        BY <2>6 DEF Count, Present
      <4> QED BY <3>2, <4>1, GoesOthers DEF OwnInv
    <3> QED BY <2>6, <3>1, <3>2 DEF Count
  <2>7. CASE Destroy(r)
    <3>1. CASE ~req[r].own
      BY <2>7, <3>1, GoesOthers DEF Destroy
    <3> QED BY <2>7, <3>1, DestroysOthers
  <2>8. CASE MaterializeDomainKey(r) \/ RemoveDomainKey(r) \/ OpenMap(r)
    <3>1. Present' = Present
      BY <2>8 DEF MaterializeDomainKey, RemoveDomainKey, OpenMap, Present
    <3>2. Goes(r, "select") \/ Goes(r, "put")
      BY <2>8 DEF MaterializeDomainKey, RemoveDomainKey, OpenMap
    <3> QED BY <3>1, <3>2, GoesOthers DEF OwnInv
  <2>9. CASE SelectActive(r)
    BY <2>9, SelectsOthers
  <2> QED BY <1>4, <2>1, <2>2, <2>3, <2>4, <2>5, <2>6, <2>7, <2>8, <2>9 DEF Step
<1>5. CASE \E r \in Requests : Step(r)
  BY <1>5, <1>4, <1>3, <1>0
<1>6. CASE \E w \in Wizards : Submit(w)
  <2>1. PICK r \in Requests : /\ \A s \in Requests \ {r} : req'[s] = req[s]
                              /\ req'[r].at = "gate" /\ req'[r].own = FALSE
                              /\ req'[r].op = "create" => req'[r].d \in Domains
    BY <1>6, SubmitsOthers
  <2> QED BY <1>0, <1>2, <1>6, <2>1, RestDomains
<1>7. CASE Administrate
  <2>1. PICK r \in Requests :
          /\ \A s \in Requests \ {r} : req'[s] = req[s]
          /\ req'[r].op # "create"
          /\ \/ req'[r].at = "commit" /\ req'[r].own = FALSE /\ req'[r].d \in Domains
             \/ req'[r].at # "commit" /\ req'[r].own = TRUE /\ req'[r].d \in Present
    BY <1>7, AdministratesOthers
  <2>2. Fine(r)'
    BY <1>7, <2>1, RestDomains
  <2> QED BY <1>0, <1>2, <1>7, <2>1, <2>2, RestDomains
<1>8. CASE (\E w \in Wizards : OpenWizard(w) \/ Back(w) \/ Lose(w)) \/ Boot \/ UNCHANGED vars
  BY <1>0, <1>2, <1>8, RestDomains, RestRequests
<1>9. CASE Stop
  <2>1. \A r \in Requests : req'[r] = Idle
    BY <1>9 DEF Stop
  <2> QED BY <1>0, <1>1, <2>1
<1> QED BY <1>5, <1>6, <1>7, <1>8, <1>9 DEF Do

\* Nobody waits for a request but the wizard that sent it.
LEMMA NextWaits ==
  ASSUME TypeInv, WaitsInv, [Do]_vars
  PROVE  WaitsInv'
<1>1. ASSUME NEW r \in Requests, Step(r) PROVE WaitsInv'
  <2>1. OthersStay(r)
    BY <1>1, StepOthers
  <2>2. ASSUME NEW ok \in BOOLEAN, Ends(r, ok) PROVE WaitsInv'
    <3>1. ASSUME NEW w \in Wizards, NEW q \in Requests, wizard'[w].waits = q PROVE req'[q].op \in Setup
      <4>1. wizard[w].waits = q /\ q # r
        BY <2>2, <3>1, EndsWizard, InstallAssumption
      <4> QED BY <2>1, <4>1 DEF OthersStay, WaitsInv
    <3> QED BY <3>1 DEF WaitsInv
  <2>3. ASSUME wizard' = wizard, req[r].op \in Setup => req'[r].op \in Setup PROVE WaitsInv'
    BY <2>1, <2>3 DEF OthersStay, WaitsInv
  <2>4. CASE Gate(r) \/ MarkSetupCompleted(r) \/ Count(r) \/ WriteMap(r) \/ Fail(r)
    <3>1. Ends(r, FALSE) \/ Ends(r, TRUE) \/ Goes(r, "token") \/ Goes(r, "destroy")
      BY <2>4 DEF Gate, MarkSetupCompleted, Count, WriteMap, Fail
    <3> QED BY <3>1, <2>2, <2>3, GoesOthers
  <2>5. CASE Save(r) \/ MaterializeDomainKey(r) \/ RemoveDomainKey(r) \/ OpenMap(r)
    <3>1. Goes(r, "select") \/ Goes(r, "put")
      BY <2>5 DEF Save, MaterializeDomainKey, RemoveDomainKey, OpenMap
    <3> QED BY <3>1, <2>3, GoesOthers
  <2>6. CASE VerifySetupToken(r)
    BY <2>6, <2>2, <2>3, PassesOthers
  <2>7. CASE CreateDomain(r)
    <3>1. CASE req[r].d \in Present
      BY <2>7, <3>1, <2>2 DEF CreateDomain
    <3> QED BY <2>7, <3>1, <2>3, CreatesOthers
  <2>8. CASE Destroy(r)
    <3>1. CASE ~req[r].own
      BY <2>8, <3>1, <2>3, GoesOthers DEF Destroy
    <3> QED BY <2>8, <3>1, <2>3, DestroysOthers
  <2>9. CASE SelectActive(r)
    <3>1. req[r].op \in Setup => req[r].op = "create"
      BY <2>9 DEF SelectActive, At, Setup
    <3>2. wizard' = wizard /\ req'[r].op = IF req[r].op = "create" THEN "create" ELSE "add"
      BY <2>9, SelectsOthers
    <3> QED BY <2>3, <3>1, <3>2 DEF Setup
  <2> QED BY <1>1, <2>4, <2>5, <2>6, <2>7, <2>8, <2>9 DEF Step
<1>2. ASSUME NEW w \in Wizards, Submit(w) PROVE WaitsInv'
  <2>1. PICK r \in Requests : /\ \A s \in Requests \ {r} : req'[s] = req[s]
                              /\ req'[r].op \in Setup
                              /\ wizard'[w].waits = r
                              /\ \A v \in Wizards \ {w} : wizard'[v] = wizard[v]
    BY <1>2, SubmitsOthers DEF Setup
  <2> QED BY <2>1 DEF WaitsInv
<1>3. CASE \E w \in Wizards : OpenWizard(w) \/ Back(w) \/ Lose(w)
  <2>1. PICK w \in Wizards : OpenWizard(w) \/ Back(w) \/ Lose(w)
    BY <1>3
  <2>2. ASSUME NEW v \in Wizards PROVE wizard'[v].waits \in {None, wizard[v].waits}
    <3>1. wizard \in [Wizards -> WizardRow] /\ wizard[v] \in WizardRow
      BY DEF TypeInv
    <3>2. CASE OpenWizard(w)
      BY <3>1, <3>2 DEF OpenWizard, Away
    <3>3. CASE Back(w)
      BY <3>1, <3>3 DEF Back, WizardRow
    <3>4. CASE Lose(w)
      BY <3>1, <3>4 DEF Lose, WizardRow
    <3> QED BY <2>1, <3>2, <3>3, <3>4
  <2>3. req' = req
    BY <1>3, RestRequests
  <2> QED BY <2>2, <2>3, InstallAssumption DEF WaitsInv
<1>4. CASE Administrate
  <2>1. wizard' = wizard
    BY <1>4 DEF Administrate
  <2>2. PICK r \in Requests : req[r] = Idle /\ \A s \in Requests \ {r} : req'[s] = req[s]
    BY <1>4, AdministratesOthers
  <2>3. req[r].op \notin Setup
    BY <2>2, NoneIsNoName DEF Idle
  <2> QED BY <2>1, <2>2, <2>3 DEF WaitsInv
<1>5. CASE Stop
  <2>1. \A w \in Wizards : wizard'[w].waits = None
    BY <1>5 DEF Stop, TypeInv, WizardRow
  <2> QED BY <2>1, InstallAssumption DEF WaitsInv
<1>6. CASE Boot \/ UNCHANGED vars
  BY <1>6 DEF Boot, vars, WaitsInv
<1> QED BY <1>1, <1>2, <1>3, <1>4, <1>5, <1>6 DEF Do

-----------------------------------------------------------------------------
(* An administrator was made.                                               *)

\* What tells that one was made: a wizard behind its form, a request that only comes after.
Knows(w) == wizard[w].step = "steps" \/ wizard[w].known
Shows(r) == \/ req[r].op \in {"add", "switch", "delete", "finish"}
            \/ req[r].op = "create" /\ req[r].at \notin {"gate", "token", "commit"}

LEMMA NothingFounded ==
  ASSUME FoundedInv, ~founded
  PROVE  /\ ~completed /\ Present = {} /\ Administered = {}
         /\ \A w \in Wizards : ~Knows(w)
         /\ \A r \in Requests : ~Shows(r)
<1>1. /\ ~completed /\ Present = {}
      /\ \A w \in Wizards : ~Knows(w)
      /\ \A r \in Requests : ~Shows(r)
  BY DEF FoundedInv, Knows, Shows
<1> QED BY <1>1 DEF Administered

LEMMA NextFounded ==
  ASSUME TypeInv, WaitsInv, OwnInv, MapInv, FoundedInv, [Do]_vars
  PROVE  FoundedInv'
<1> USE DEF settings, files, blame
<1>1. founded => founded'
  <2>1. CASE \E r \in Requests : Step(r)
    BY <2>1 DEF Step, Gate, VerifySetupToken, MarkSetupCompleted, CreateDomain, Save, Count, Destroy,
                MaterializeDomainKey, RemoveDomainKey, SelectActive, OpenMap, WriteMap, Fail
  <2>2. CASE \E w \in Wizards : OpenWizard(w) \/ Back(w) \/ Submit(w) \/ Lose(w)
    BY <2>2 DEF OpenWizard, Back, Submit, Lose
  <2>3. CASE Administrate \/ Stop \/ Boot \/ UNCHANGED vars
    BY <2>3 DEF Administrate, Stop, Boot, vars
  <2> QED BY <2>1, <2>2, <2>3 DEF Do
<1> SUFFICES ASSUME ~founded, ~founded' PROVE FoundedInv'
  BY <1>1 DEF FoundedInv
<1>2. /\ ~completed /\ Present = {} /\ Administered = {}
      /\ \A w \in Wizards : ~Knows(w)
      /\ \A r \in Requests : ~Shows(r)
  BY NothingFounded
<1>3. SUFFICES /\ ~completed' /\ Present' = {}
               /\ \A w \in Wizards : ~Knows(w)'
               /\ \A r \in Requests : ~Shows(r)'
  BY DEF FoundedInv, Knows, Shows
<1>4. ASSUME NEW r \in Requests, Step(r)
      PROVE  /\ ~completed' /\ Present' = {}
             /\ \A w \in Wizards : ~Knows(w)'
             /\ \A q \in Requests : ~Shows(q)'
  <2>0. OthersStay(r)
    BY <1>4, StepOthers
  <2>1. \A q \in Requests \ {r} : ~Shows(q)'
    BY <1>2, <2>0 DEF OthersStay, Shows
  <2>2. ASSUME NEW ok \in BOOLEAN, Ends(r, ok), ok => req[r].op = "verify"
        PROVE  (\A w \in Wizards : ~Knows(w)') /\ ~Shows(r)'
    <3>1. ASSUME NEW w \in Wizards PROVE ~Knows(w)'
      <4>1. ok => NextStep(w, req[r].op) # "steps"
        BY <1>2, <2>2 DEF NextStep, Knows
      <4>2. wizard'[w].known = wizard[w].known /\ wizard'[w].step # "steps"
        BY <1>2, <2>2, <4>1, EndsWizard DEF Knows
      <4> QED BY <1>2, <4>2 DEF Knows
    <3>2. req'[r] = Idle
      BY <2>2, EndsOthers
    <3>3. Idle.op = None
      BY DEF Idle
    <3> QED BY <3>1, <3>2, <3>3, NoneIsNoName DEF Shows, Setup
  <2>3. ASSUME wizard' = wizard PROVE \A w \in Wizards : ~Knows(w)'
    BY <1>2, <2>3 DEF Knows
  <2>4. CASE Gate(r)
    <3>1. ~completed' /\ Present' = {} /\ req[r].at = "gate"
      BY <1>2, <2>4 DEF Gate, Present, At
    <3>2. Ends(r, FALSE) \/ Goes(r, "token")
      BY <2>4 DEF Gate
    <3>3. CASE Goes(r, "token")
      BY <1>2, <2>1, <2>3, <3>1, <3>3, GoesOthers DEF Shows
    <3> QED BY <2>1, <2>2, <3>1, <3>2, <3>3
  <2>5. CASE VerifySetupToken(r)
    <3>1. ~completed' /\ Present' = {}
      BY <1>2, <2>5 DEF VerifySetupToken, Present
    <3>2. CASE Ends(r, FALSE) \/ (req[r].op = "verify" /\ Ends(r, TRUE))
      BY <2>1, <2>2, <3>1, <3>2
    <3>3. CASE /\ wizard' = wizard /\ req[r].op = "create" /\ req'[r].at = "commit"
               /\ req'[r].op = req[r].op
      BY <2>1, <2>3, <3>1, <3>3 DEF Shows
    <3>4. req[r].op # "finish"
      BY <1>2 DEF Shows
    <3> QED BY <2>5, <3>2, <3>3, <3>4, PassesOthers
  <2>6. CASE CreateDomain(r)
    <3>1. req[r].op = "create"
      BY <1>2, <2>6 DEF CreateDomain, At, Shows
    <3>2. CASE req[r].d \in Present
      BY <1>2, <3>2
    <3>3. CASE req[r].d \notin Present
      BY <2>6, <3>1, <3>3 DEF CreateDomain
    <3> QED BY <3>2, <3>3
  <2>7. CASE MarkSetupCompleted(r) \/ Save(r) \/ Count(r) \/ Destroy(r)
    BY <1>2, <2>7 DEF MarkSetupCompleted, Save, Count, Destroy, At, Shows
  <2>8. CASE MaterializeDomainKey(r) \/ RemoveDomainKey(r) \/ SelectActive(r) \/ OpenMap(r) \/ WriteMap(r)
    BY <1>2, <2>8 DEF MaterializeDomainKey, RemoveDomainKey, SelectActive, OpenMap, WriteMap, At, Shows
  <2>9. CASE Fail(r)
    <3>1. ~completed' /\ Present' = {}
      BY <1>2, <2>9 DEF Fail, Present
    <3> QED BY <2>1, <2>2, <2>9, <3>1 DEF Fail
  <2> QED BY <1>4, <2>4, <2>5, <2>6, <2>7, <2>8, <2>9 DEF Step
<1>5. ASSUME NEW w \in Wizards, Submit(w)
      PROVE  /\ ~completed' /\ Present' = {}
             /\ \A v \in Wizards : ~Knows(v)'
             /\ \A q \in Requests : ~Shows(q)'
  <2>1. ~completed' /\ Present' = {}
    <3>1. UNCHANGED settings
      BY <1>5 DEF Submit
    <3>2. Present' = Present
      BY <1>5, RestDomains
    <3> QED BY <1>2, <3>1, <3>2
  <2>2. wizard[w].step # "steps"
    BY <1>2 DEF Knows
  <2>3. PICK r \in Requests :
          /\ OthersStay(r) /\ req'[r].at = "gate" /\ req'[r].op \in {"verify", "create"}
          /\ wizard'[w].step = wizard[w].step /\ wizard'[w].known = wizard[w].known
          /\ \A v \in Wizards \ {w} : wizard'[v] = wizard[v]
    BY <1>5, <2>2, SubmitsOthers
  <2>4. \A v \in Wizards : ~Knows(v)'
    BY <1>2, <2>3 DEF Knows
  <2>5. \A q \in Requests : ~Shows(q)'
    BY <1>2, <2>3 DEF OthersStay, Shows
  <2> QED BY <2>1, <2>4, <2>5
<1>6. ASSUME NEW w \in Wizards, OpenWizard(w) \/ Back(w) \/ Lose(w)
      PROVE  /\ ~completed' /\ Present' = {}
             /\ \A v \in Wizards : ~Knows(v)'
             /\ \A q \in Requests : ~Shows(q)'
  <2>1. ~completed' /\ Present' = {} /\ req' = req
    BY <1>2, <1>6, RestDomains, RestRequests DEF OpenWizard, Back, Lose
  <2>2. wizard \in [Wizards -> WizardRow]
    BY DEF TypeInv
  <2>3. CASE OpenWizard(w)
    <3> DEFINE page == [step |-> "token", token |-> 0, known |-> Present # {}, waits |-> None]
    <3>1. page.step = "token" /\ page.known = FALSE
      BY <1>2
    <3>2. wizard' = [wizard EXCEPT ![w] = page]
      BY <1>2, <2>3 DEF OpenWizard
    <3> HIDE DEF page
    <3>3. \A v \in Wizards : ~Knows(v)'
      BY <1>2, <2>2, <3>1, <3>2 DEF Knows
    <3> QED BY <1>2, <2>1, <3>3 DEF Shows
  <2>4. CASE Back(w) \/ Lose(w)
    <3>1. ASSUME NEW v \in Wizards
          PROVE  wizard'[v].known = wizard[v].known /\ wizard'[v].step \in {wizard[v].step, "token"}
      BY <2>2, <2>4 DEF Back, Lose, WizardRow
    <3>2. \A v \in Wizards : ~Knows(v)'
      BY <1>2, <3>1 DEF Knows
    <3> QED BY <1>2, <2>1, <3>2 DEF Shows
  <2> QED BY <1>6, <2>3, <2>4
<1>7. ~Administrate
  BY <1>2 DEF Administrate
<1>8. CASE Stop
  <2>1. ~completed' /\ Present' = {}
    BY <1>2, <1>8, RestDomains DEF Stop
  <2>2. \A r \in Requests : req'[r].op = None
    BY <1>8 DEF Stop, Idle
  <2>3. ASSUME NEW w \in Wizards
        PROVE  wizard'[w].known = wizard[w].known /\ wizard'[w].step = wizard[w].step
    <3>1. wizard'[w] = [wizard[w] EXCEPT !.waits = None]
      BY <1>8 DEF Stop
    <3>2. wizard[w] \in WizardRow
      BY DEF TypeInv
    <3> QED BY <3>1, <3>2 DEF WizardRow
  <2> QED BY <1>2, <2>1, <2>2, <2>3, NoneIsNoName DEF Knows, Shows, Setup
<1>9. CASE Boot
  BY <1>2, <1>9, RestDomains DEF Boot, InitSetupToken, Knows, Shows
<1>10. CASE UNCHANGED vars
  BY <1>2, <1>10, RestDomains DEF vars, Knows, Shows
<1> QED BY <1>4, <1>5, <1>6, <1>7, <1>8, <1>9, <1>10 DEF Do

-----------------------------------------------------------------------------
(* The key files.                                                           *)

\* s is about to write the key of d.
Pending(s, d) == req[s].at = "key" /\ req[s].d = d /\ req[s].own

\* As long as r was about to write no key, the keys owed stay owed while the files stay.
LEMMA KeysStay ==
  ASSUME KeysInv, NEW r \in Requests, OthersStay(r), req[r].at # "key",
         \A s \in Requests \ {r} : req'[s].own = req[s].own,
         Present' = Present, UNCHANGED <<astray, keyed>>
  PROVE  KeysInv'
BY DEF KeysInv, OthersStay

LEMMA KeysRest ==
  ASSUME KeysInv, Present' = Present, UNCHANGED <<astray, keyed, req>>
  PROVE  KeysInv'
BY DEF KeysInv

\* A request that writes or removes the key file of d settles it: the file holds the key, or d is astray.
LEMMA KeysSettle ==
  ASSUME KeysInv, NEW r \in Requests, NEW d, req[r].d = d, OthersStay(r),
         \A s \in Requests \ {r} : req'[s].own = req[s].own,
         Present' = Present,
         astray \ {d} \subseteq astray', keyed \ {d} \subseteq keyed',
         d \in Present => d \in astray' \cup keyed'
  PROVE  KeysInv'
<1>1. ASSUME NEW e \in Present'
      PROVE  e \in astray' \cup keyed' \/ \E s \in Requests : Pending(s, e)'
  <2>1. CASE e = d
    BY <1>1, <2>1
  <2>2. CASE e # d
    <3>1. e \in astray \cup keyed \/ \E s \in Requests : Pending(s, e)
      BY <1>1 DEF KeysInv, Pending
    <3>2. ASSUME NEW s \in Requests, Pending(s, e) PROVE Pending(s, e)'
      BY <2>2, <3>2 DEF OthersStay, Pending
    <3> QED BY <2>2, <3>1, <3>2
  <2> QED BY <2>1, <2>2
<1> QED BY <1>1 DEF KeysInv, Pending

LEMMA NextKeys ==
  ASSUME TypeInv, WaitsInv, OwnInv, MapInv, KeysInv, [Do]_vars
  PROVE  KeysInv'
<1> USE DEF files, blame
<1>1. ASSUME NEW r \in Requests, Step(r) PROVE KeysInv'
  <2>0. OthersStay(r)
    BY <1>1, StepOthers
  <2>1. CASE Gate(r) \/ VerifySetupToken(r) \/ MarkSetupCompleted(r) \/ Count(r)
    <3>1. domain' = domain /\ UNCHANGED <<astray, keyed>>
      BY <2>1 DEF Gate, VerifySetupToken, MarkSetupCompleted, Count
    <3>2. req[r].at # "key"
      BY <2>1 DEF Gate, VerifySetupToken, MarkSetupCompleted, Count, At
    <3>3. \A s \in Requests \ {r} : req'[s].own = req[s].own
      BY <2>1, EndsOthers, GoesOthers, PassesOthers DEF Gate, MarkSetupCompleted, Count
    <3>4. Present' = Present
      BY <3>1 DEF Present
    <3> QED BY <2>0, <3>1, <3>2, <3>3, <3>4, KeysStay
  <2>2. CASE SelectActive(r) \/ OpenMap(r) \/ WriteMap(r)
    <3>1. domain' = domain /\ UNCHANGED <<astray, keyed>>
      BY <2>2 DEF SelectActive, OpenMap, WriteMap
    <3>2. req[r].at # "key"
      BY <2>2 DEF SelectActive, OpenMap, WriteMap, At
    <3>3. \A s \in Requests \ {r} : req'[s].own = req[s].own
      BY <2>2, EndsOthers, GoesOthers, SelectsOthers DEF OpenMap, WriteMap
    <3>4. Present' = Present
      BY <3>1 DEF Present
    <3> QED BY <2>0, <3>1, <3>2, <3>3, <3>4, KeysStay
  <2>3. CASE Save(r)
    <3>1. UNCHANGED <<astray, keyed>> /\ req[r].at = "save"
      BY <2>3 DEF Save, At
    <3>2. \A s \in Requests \ {r} : req'[s].own = req[s].own
      BY <2>3, GoesOthers DEF Save
    <3>3. Present' = Present
      BY <1>1, <3>1, StepPresent DEF CreateDomain, Destroy, At
    <3> QED BY <2>0, <3>1, <3>2, <3>3, KeysStay
  <2>4. CASE CreateDomain(r)
    <3>1. CASE req[r].d \in Present
      <4>1. domain' = domain /\ UNCHANGED <<astray, keyed>> /\ Ends(r, FALSE)
        BY <2>4, <3>1 DEF CreateDomain
      <4>2. req[r].at # "key"
        BY <2>4 DEF CreateDomain, At
      <4>3. Present' = Present
        BY <4>1 DEF Present
      <4> QED BY <2>0, <4>1, <4>2, <4>3, EndsOthers, KeysStay
    <3>2. CASE req[r].d \notin Present
      <4>1. keyed' = keyed \ {req[r].d} /\ astray' = astray /\ req[r].at = "commit"
        BY <2>4, <3>2 DEF CreateDomain, At
      <4>2. Present' = Present \cup {req[r].d}
        <5>1. ~Destroy(r)
          BY <4>1 DEF Destroy, At
        <5>2. Present' # Present
          <6>1. domain' = [domain EXCEPT ![req[r].d] = [active |-> TRUE, admin |-> req[r].op = "create"]]
            BY <2>4, <3>2 DEF CreateDomain
          <6>2. req[r].d \in Domains
            BY <4>1 DEF OwnInv
          <6>3. [active |-> TRUE, admin |-> req[r].op = "create"] # None
            BY RowIsNotNone
          <6> QED BY <3>2, <6>1, <6>2, <6>3 DEF Present, TypeInv
        <5> QED BY <1>1, <5>1, <5>2, StepPresent
      <4>3. req'[r].at = "key" /\ req'[r].d = req[r].d /\ req'[r].own
        BY <2>4, <3>2, CreatesOthers
      <4>4. ASSUME NEW s \in Requests, NEW e, Pending(s, e) PROVE Pending(s, e)'
        BY <2>4, <3>2, <4>1, <4>4, CreatesOthers DEF Pending
      <4>5. ASSUME NEW e \in Present'
            PROVE  e \in astray' \cup keyed' \/ \E s \in Requests : Pending(s, e)'
        <5>1. CASE e = req[r].d
          BY <4>3, <5>1 DEF Pending
        <5>2. CASE e # req[r].d
          BY <4>1, <4>2, <4>4, <4>5, <5>2 DEF KeysInv, Pending
        <5> QED BY <5>1, <5>2
      <4> QED BY <4>5 DEF KeysInv, Pending
    <3> QED BY <3>1, <3>2
  <2>5. CASE Destroy(r)
    <3>1. CASE ~req[r].own
      <4>1. domain' = domain /\ UNCHANGED <<astray, keyed>> /\ Goes(r, "rm")
        BY <2>5, <3>1 DEF Destroy
      <4>2. req[r].at # "key"
        BY <2>5 DEF Destroy, At
      <4>3. Present' = Present
        BY <4>1 DEF Present
      <4> QED BY <2>0, <4>1, <4>2, <4>3, GoesOthers, KeysStay
    <3>2. CASE req[r].own
      <4>1. keyed' = keyed \ {req[r].d} /\ astray' = astray /\ req[r].at = "destroy"
        BY <2>5, <3>2 DEF Destroy, At
      <4>2. Present' = Present \ {req[r].d}
        BY <2>5, <3>2 DEF Destroy, Present, TypeInv
      <4>3. ASSUME NEW s \in Requests, NEW e, e # req[r].d, Pending(s, e) PROVE Pending(s, e)'
        <5>1. s # r
          BY <4>1, <4>3 DEF Pending
        <5>2. req'[s].at = req[s].at /\ req'[s].d = req[s].d
          BY <2>0, <5>1 DEF OthersStay
        <5>3. req'[s].own <=> req[s].own /\ req[s].d # req[r].d
          BY <2>5, <3>2, <5>1, DestroysOthers
        <5> QED BY <4>3, <5>2, <5>3 DEF Pending
      <4>4. ASSUME NEW e \in Present'
            PROVE  e \in astray' \cup keyed' \/ \E s \in Requests : Pending(s, e)'
        BY <4>1, <4>2, <4>3, <4>4 DEF KeysInv, Pending
      <4> QED BY <4>4 DEF KeysInv, Pending
    <3> QED BY <3>1, <3>2
  <2>6. CASE MaterializeDomainKey(r) \/ RemoveDomainKey(r)
    <3>1. domain' = domain /\ Goes(r, "select") /\ astray' = Astray(r, req[r].d)
      BY <2>6 DEF MaterializeDomainKey, RemoveDomainKey
    <3>2. Present' = Present
      BY <3>1 DEF Present
    <3>3. keyed \ {req[r].d} \subseteq keyed'
      BY <2>6 DEF MaterializeDomainKey, RemoveDomainKey
    <3>4. astray \ {req[r].d} \subseteq astray'
      BY <3>1 DEF Astray
    <3>5. req[r].own => req[r].d \in keyed'
      BY <2>6 DEF MaterializeDomainKey, RemoveDomainKey, At, MapInv
    <3>6. req[r].d \in Present => req[r].d \in astray' \cup keyed'
      BY <3>1, <3>5 DEF Astray
    <3> QED BY <2>0, <3>1, <3>2, <3>3, <3>4, <3>6, GoesOthers, KeysSettle
  <2>7. CASE Fail(r)
    <3>1. domain' = domain /\ Ends(r, FALSE) /\ keyed' = keyed
      BY <2>7 DEF Fail
    <3>2. Present' = Present
      BY <3>1 DEF Present
    <3>3. astray' = IF req[r].at = "key" /\ req[r].own THEN astray \cup {req[r].d} ELSE astray
      BY <2>7 DEF Fail
    <3>4. \A s \in Requests \ {r} : req'[s].own = req[s].own
      BY <3>1, EndsOthers
    <3>5. ASSUME NEW s \in Requests \ {r}, NEW e, Pending(s, e) PROVE Pending(s, e)'
      BY <2>0, <3>4, <3>5 DEF Pending, OthersStay
    <3>6. ASSUME NEW e \in Present'
          PROVE  e \in astray' \cup keyed' \/ \E s \in Requests : Pending(s, e)'
      <4>1. CASE Pending(r, e)
        BY <3>3, <4>1 DEF Pending
      <4>2. CASE \E s \in Requests \ {r} : Pending(s, e)
        BY <3>5, <4>2
      <4>3. CASE e \in astray \cup keyed
        BY <3>1, <3>3, <4>3
      <4> QED BY <3>2, <3>6, <4>1, <4>2, <4>3 DEF KeysInv, Pending
    <3> QED BY <3>6 DEF KeysInv, Pending
  <2> QED BY <1>1, <2>1, <2>2, <2>3, <2>4, <2>5, <2>6, <2>7 DEF Step
<1>2. ASSUME NEW w \in Wizards, Submit(w) PROVE KeysInv'
  <2>1. PICK r \in Requests :
          OthersStay(r) /\ req[r] = Idle /\ \A s \in Requests \ {r} : req'[s] = req[s]
    BY <1>2, SubmitsOthers
  <2>2. req[r].at # "key"
    BY <2>1, NoneIsNoName DEF Idle
  <2>3. Present' = Present
    BY <1>2, RestDomains
  <2>4. UNCHANGED <<astray, keyed>>
    BY <1>2 DEF Submit
  <2> QED BY <2>1, <2>2, <2>3, <2>4, KeysStay
<1>3. CASE Administrate
  <2>1. PICK r \in Requests :
          OthersStay(r) /\ req[r] = Idle /\ \A s \in Requests \ {r} : req'[s] = req[s]
    BY <1>3, AdministratesOthers
  <2>2. req[r].at # "key"
    BY <2>1, NoneIsNoName DEF Idle
  <2>3. Present' = Present
    BY <1>3, RestDomains
  <2>4. UNCHANGED <<astray, keyed>>
    BY <1>3 DEF Administrate
  <2> QED BY <2>1, <2>2, <2>3, <2>4, KeysStay
<1>4. ASSUME NEW w \in Wizards, OpenWizard(w) \/ Back(w) \/ Lose(w) PROVE KeysInv'
  <2>1. UNCHANGED <<astray, keyed, req>>
    BY <1>4 DEF OpenWizard, Back, Lose
  <2> QED BY <1>4, <2>1, RestDomains, KeysRest
<1>5. CASE UNCHANGED vars
  <2>1. UNCHANGED <<astray, keyed, req>>
    BY <1>5 DEF vars
  <2> QED BY <1>5, <2>1, RestDomains, KeysRest
<1>6. CASE Stop
  <2>1. astray' = astray \cup {d \in Present : \E r \in Requests :
                                 req[r].at = "key" /\ req[r].d = d /\ req[r].own}
    BY <1>6 DEF Stop
  <2>2. keyed' = keyed
    BY <1>6 DEF Stop
  <2>3. Present' = Present
    BY <1>6, RestDomains
  <2> QED BY <2>1, <2>2, <2>3 DEF KeysInv
<1>7. CASE Boot
  <2>1. \A r \in Requests : req[r].at = None
    BY <1>7 DEF Boot, MapInv, Idle
  <2>2. Present \subseteq astray \cup keyed
    BY <2>1, NoneIsNoName DEF KeysInv
  <2>3. PICK fresh \in BOOLEAN, whole \in BOOLEAN, written \in SUBSET Present :
          /\ keyed' = written \cup IF fresh THEN {} ELSE keyed
          /\ IF whole THEN written = Present
             ELSE astray' = (IF fresh THEN Present ELSE astray) \ written
    BY <1>7 DEF Boot, MaterializeAllKeys
  <2>4. Present \subseteq astray' \cup keyed'
    BY <2>2, <2>3
  <2>5. Present' = Present
    BY <1>7, RestDomains
  <2> QED BY <2>4, <2>5 DEF KeysInv
<1> QED BY <1>1, <1>2, <1>3, <1>4, <1>5, <1>6, <1>7 DEF Do

-----------------------------------------------------------------------------
(* The map.                                                                 *)

\* A step of r that owes the map nothing before and after leaves it in order; so does one that fails.
LEMMA MapStays ==
  ASSUME MapInv, NEW r \in Requests, OthersStay(r), r \notin Owing,
         req'[r].at \notin {"key", "rm", "select", "open", "put"}, r \notin req'[r].older,
         up /\ up', Active' = Active, UNCHANGED <<map, behind>>, late' \in {late, late \ {r}}
  PROVE  MapInv'
<1> USE DEF OthersStay
<1>1. Owing' = Owing /\ Holding' = Holding /\ r \notin Holding
  BY DEF Owing, Holding
<1>2. \A s \in Requests : Owes(s) => s # r /\ Owes(s)'
  BY DEF Owes, Owing
<1>3. ASSUME NEW s \in Holding' \ late'
      PROVE  /\ \/ req'[s].lists = Active'
                \/ \E t \in Requests : Owes(t)' \/ (t \in Holding' /\ s \in req'[t].older)
             /\ req'[s].at = "put" => map' = {}
  <2>1. s \in Holding \ late /\ s # r
    BY <1>1, <1>3
  <2>2. req'[s].lists = req[s].lists /\ req'[s].at = req[s].at
    BY <2>1 DEF Holding
  <2>3. CASE req[s].lists = Active
    BY <2>1, <2>2, <2>3 DEF MapInv
  <2>4. CASE \E t \in Requests : Owes(t)
    BY <1>2, <2>1, <2>2, <2>4 DEF MapInv
  <2>5. ASSUME NEW t \in Holding, s \in req[t].older
        PROVE  t \in Holding' /\ s \in req'[t].older /\ t \in Requests
    BY <1>1, <2>1, <2>5 DEF Holding
  <2> QED BY <2>1, <2>2, <2>3, <2>4, <2>5 DEF MapInv
<1>4. \A s \in Requests : s \notin req'[s].older
  BY DEF MapInv
<1>5. \A s \in Requests : req'[s].at = "rm" => ~req'[s].own
  BY DEF MapInv
<1>6. up' => behind' \/ map' = Active' \/ Owing' # {}
  BY <1>1 DEF MapInv
<1> QED BY <1>3, <1>4, <1>5, <1>6 DEF MapInv

\* A request that has changed a row and not read the domains since puts the map in order by itself.
LEMMA MapOwed ==
  ASSUME MapInv, NEW r \in Requests, OthersStay(r), r \notin Holding, r \notin req'[r].older,
         req'[r].at \in {"key", "rm", "select"}, req'[r].at = "rm" => ~req'[r].own,
         up /\ up', UNCHANGED <<map, late>>
  PROVE  MapInv'
<1> USE DEF OthersStay
<1>1. Owes(r)' /\ r \in Owing'
  BY DEF Owes, Owing
<1>2. \A s \in Holding' : s \in Holding /\ s # r /\ req'[s].at = req[s].at
  BY DEF Holding
<1>3. \A s \in Holding' \ late' : req'[s].at = "put" => map' = {}
  BY <1>2 DEF MapInv
<1>4. \A s \in Requests : s \notin req'[s].older
  BY DEF MapInv
<1>5. \A s \in Requests : req'[s].at = "rm" => ~req'[s].own
  BY DEF MapInv
<1> QED BY <1>1, <1>3, <1>4, <1>5 DEF MapInv

\* Who reads the domains has the right list, and the others that hold one are older.
LEMMA MapRead ==
  ASSUME TypeInv, MapInv, NEW r \in Requests, SelectActive(r)
  PROVE  MapInv'
<1>1. /\ OthersStay(r) /\ \A s \in Requests \ {r} : req'[s] = req[s]
      /\ req'[r].at = "open" /\ req'[r].own = FALSE
      /\ req'[r].lists = Active /\ req'[r].older = Holding
  BY SelectsOthers
<1>2. req[r].at = "select"
  BY DEF SelectActive, At
<1>3. UNCHANGED <<up, domain, map, late, behind>>
  BY DEF SelectActive, files, blame
<1>4. Active' = Active
  BY <1>3 DEF Active, Present
<1>5. r \notin Holding /\ Holding' = Holding \cup {r} /\ r \in Owing'
  BY <1>1, <1>2 DEF Holding, Owing
<1>6. up
  BY <1>2, NoneIsNoName DEF MapInv, Idle
<1>7. ASSUME NEW s \in Holding' \ late'
      PROVE  /\ \/ req'[s].lists = Active'
                \/ \E t \in Requests : Owes(t)' \/ (t \in Holding' /\ s \in req'[t].older)
             /\ req'[s].at = "put" => map' = {}
  <2>1. CASE s = r
    BY <1>1, <1>4, <2>1
  <2>2. CASE s # r
    <3>1. s \in Holding \ late
      BY <1>3, <1>5, <1>7, <2>2
    <3>2. req'[s].at = req[s].at
      BY <1>1, <2>2, <3>1 DEF Holding
    <3>3. req'[s].at = "put" => map' = {}
      BY <1>3, <3>1, <3>2 DEF MapInv
    <3> QED BY <1>1, <1>5, <3>1, <3>3
  <2> QED BY <2>1, <2>2
<1>8. \A s \in Requests : s \notin req'[s].older
  BY <1>1, <1>5 DEF MapInv
<1>9. \A s \in Requests : req'[s].at = "rm" => ~req'[s].own
  BY <1>1 DEF MapInv
<1> QED BY <1>3, <1>5, <1>6, <1>7, <1>8, <1>9 DEF MapInv

\* Who empties the map does it for all that are writing.
LEMMA MapEmptied ==
  ASSUME TypeInv, MapInv, NEW r \in Requests, OpenMap(r)
  PROVE  MapInv'
<1>1. /\ OthersStay(r) /\ \A s \in Requests \ {r} : req'[s] = req[s]
      /\ req'[r].at = "put" /\ req'[r].own = req[r].own
      /\ req'[r].lists = req[r].lists /\ req'[r].older = req[r].older
  BY GoesOthers DEF OpenMap
<1>2. req[r].at = "open"
  BY DEF OpenMap, At
<1>3. map' = {} /\ UNCHANGED <<up, domain, late, behind>>
  BY DEF OpenMap, blame
<1>4. Active' = Active
  BY <1>3 DEF Active, Present
<1>5. Holding' = Holding /\ r \in Owing'
  BY <1>1, <1>2 DEF Holding, Owing
<1>6. up
  BY <1>2, NoneIsNoName DEF MapInv, Idle
<1>7. \A s \in Requests : /\ req'[s].lists = req[s].lists /\ req'[s].older = req[s].older
                          /\ Owes(s) => Owes(s)'
  BY <1>1, <1>2 DEF Owes
<1>8. \A s \in Holding' \ late' : \/ req'[s].lists = Active'
                                  \/ \E t \in Requests : Owes(t)' \/ (t \in Holding' /\ s \in req'[t].older)
  <2> TAKE s \in Holding' \ late'
  <2>1. s \in Holding \ late /\ s \in Requests
    BY <1>3, <1>5 DEF Holding
  <2>2. req[s].lists = Active \/ \E t \in Requests : Owes(t) \/ (t \in Holding /\ s \in req[t].older)
    BY <2>1 DEF MapInv
  <2> QED BY <1>4, <1>5, <1>7, <2>1, <2>2
<1>9. \A s \in Requests : s \notin req'[s].older
  BY <1>7 DEF MapInv
<1>10. \A s \in Requests : req'[s].at = "rm" => ~req'[s].own
  BY <1>1 DEF MapInv
<1> QED BY <1>3, <1>5, <1>6, <1>8, <1>9, <1>10 DEF MapInv

\* Who writes the map, and is not late, either leaves it right or is not the last; who held an older list
\* or wrote at the same time is late from now on.
LEMMA MapWritten ==
  ASSUME TypeInv, MapInv, NEW r \in Requests, WriteMap(r)
  PROVE  MapInv'
<1>1. /\ OthersStay(r) /\ req'[r] = Idle
      /\ \A s \in Requests \ {r} : req'[s].own = req[s].own /\ req'[s].older = req[s].older \ {r}
  BY EndsOthers, EndsReq DEF WriteMap
<1>2. req[r].at = "put" /\ r \in Holding
  BY DEF WriteMap, At, Holding
<1>3. /\ behind' = (r \in late)
      /\ late' = (late \ {r}) \cup {s \in Holding \ {r} : s \in req[r].older \/ req[s].at = "put"}
      /\ UNCHANGED <<up, domain>>
  BY DEF WriteMap
<1>4. PICK rest \in SUBSET map : map' = req[r].lists \cup rest
  BY DEF WriteMap
<1>5. Active' = Active
  BY <1>3 DEF Active, Present
<1>6. Idle.at = None /\ Idle.older = {} /\ Idle.own = FALSE
  BY DEF Idle
<1>7. \A s \in Requests \ {r} : req'[s].at = req[s].at /\ req'[s].lists = req[s].lists
  BY <1>1 DEF OthersStay
<1>8. Holding' = Holding \ {r} /\ \A s \in Requests : Owes(s) => s # r /\ Owes(s)' /\ s \in Owing'
  BY <1>1, <1>2, <1>6, <1>7, NoneIsNoName DEF Holding, Owes, Owing
<1>9. \A s \in Holding \ {r} : s \in Holding' /\ s \in Owing'
  BY <1>7, <1>8 DEF Holding, Owing
<1>10. up
  BY <1>2, NoneIsNoName DEF MapInv, Idle
<1>11. ASSUME NEW s \in Holding' \ late'
       PROVE  /\ \/ req'[s].lists = Active'
                 \/ \E t \in Requests : Owes(t)' \/ (t \in Holding' /\ s \in req'[t].older)
              /\ req'[s].at = "put" => map' = {}
  <2>1. s \in Holding \ late /\ s # r /\ s \notin req[r].older /\ req[s].at # "put" /\ s \in Requests
    BY <1>3, <1>8, <1>11 DEF Holding
  <2>2. req[s].lists = Active \/ \E t \in Requests : Owes(t) \/ (t \in Holding /\ s \in req[t].older)
    BY <2>1 DEF MapInv
  <2>3. ASSUME NEW t \in Holding, s \in req[t].older
        PROVE  t \in Holding' /\ s \in req'[t].older /\ t \in Requests
    <3>1. t # r
      BY <2>1, <2>3
    <3> QED BY <1>1, <1>9, <2>1, <2>3, <3>1 DEF Holding
  <2> QED BY <1>5, <1>7, <1>8, <2>1, <2>2, <2>3
<1>12. \A s \in Requests : s \notin req'[s].older
  BY <1>1, <1>6 DEF MapInv
<1>13. \A s \in Requests : req'[s].at = "rm" => ~req'[s].own
  BY <1>1, <1>6, <1>7 DEF MapInv
<1>14. behind' \/ map' = Active' \/ Owing' # {}
  <2>1. CASE r \in late
    BY <1>3, <2>1
  <2>2. CASE r \notin late
    <3>1. map = {}
      BY <1>2, <2>2 DEF MapInv
    <3>2. r \notin req[r].older
      BY DEF MapInv
    <3>3. req[r].lists = Active \/ \E t \in Requests : Owes(t) \/ (t \in Holding /\ r \in req[t].older)
      BY <1>2, <2>2 DEF MapInv
    <3>4. CASE req[r].lists = Active
      BY <1>4, <1>5, <3>1, <3>4
    <3>5. CASE \E t \in Requests : Owes(t) \/ (t \in Holding /\ r \in req[t].older)
      BY <1>8, <1>9, <3>2, <3>5
    <3> QED BY <3>3, <3>4, <3>5
  <2> QED BY <2>1, <2>2
<1> QED BY <1>3, <1>10, <1>11, <1>12, <1>13, <1>14 DEF MapInv

\* A request that fails while it owes the map leaves it behind, and all lists late.
LEMMA MapFailed ==
  ASSUME TypeInv, MapInv, NEW r \in Requests, Fail(r)
  PROVE  MapInv'
<1>1. /\ OthersStay(r) /\ req'[r] = Idle
      /\ \A s \in Requests \ {r} : req'[s].own = req[s].own
  BY EndsOthers DEF Fail
<1>2. Idle.at = None /\ Idle.older = {} /\ Idle.own = FALSE
  BY DEF Idle
<1>3. UNCHANGED <<up, domain, map>> /\ req[r] # Idle
  BY DEF Fail, files
<1>4. Active' = Active /\ up
  BY <1>3 DEF Active, Present, MapInv
<1>5. CASE r \notin Owing
  <2>1. UNCHANGED behind /\ late' = late \ {r}
    BY <1>5 DEF Fail, TypeInv
  <2> QED BY <1>1, <1>2, <1>3, <1>4, <1>5, <2>1, NoneIsNoName, MapStays
<1>6. CASE r \in Owing
  <2>1. behind' /\ late' = Holding \ {r}
    BY <1>6 DEF Fail
  <2>2. Holding' \subseteq Holding \ {r}
    BY <1>1, <1>2, NoneIsNoName DEF Holding, OthersStay
  <2>3. \A s \in Requests : s \notin req'[s].older
    BY <1>1, <1>2 DEF MapInv, OthersStay
  <2>4. \A s \in Requests : req'[s].at = "rm" => ~req'[s].own
    BY <1>1, <1>2 DEF MapInv, OthersStay
  <2> QED BY <1>3, <1>4, <2>1, <2>2, <2>3, <2>4 DEF MapInv
<1> QED BY <1>5, <1>6

LEMMA NextMap ==
  ASSUME TypeInv, OwnInv, MapInv, [Do]_vars
  PROVE  MapInv'
<1> USE DEF files, blame
<1>1. ASSUME NEW r \in Requests, Step(r) PROVE MapInv'
  <2>0. OthersStay(r)
    BY <1>1, StepOthers
  <2>1. Idle.at = None /\ Idle.older = {} /\ r \notin req[r].older
    BY DEF Idle, MapInv
  <2>2. ASSUME req[r].at # None PROVE up
    BY <2>1, <2>2 DEF MapInv
  <2>3. ASSUME NEW ok \in BOOLEAN, Ends(r, ok), domain' = domain, UNCHANGED <<up, map, late, behind>>,
               req[r].at \in {"gate", "token", "mark", "commit", "count"}
        PROVE  MapInv'
    <3>1. r \notin Owing /\ req[r].at # None
      BY <2>3, NoneIsNoName DEF Owing
    <3>2. Active' = Active
      BY <2>3 DEF Active, Present
    <3>3. req'[r].at = None /\ req'[r].older = {}
      BY <2>1, <2>3, EndsOthers
    <3> QED BY <2>0, <2>2, <2>3, <3>1, <3>2, <3>3, NoneIsNoName, MapStays
  <2>4. ASSUME req'[r].at \in {"token", "commit", "mark", "destroy"}, req'[r].older = req[r].older,
               req[r].at \in {"gate", "token", "count"},
               domain' = domain, UNCHANGED <<up, map, late, behind>>
        PROVE  MapInv'
    <3>1. r \notin Owing /\ req[r].at # None
      BY <2>4, NoneIsNoName DEF Owing
    <3>2. Active' = Active
      BY <2>4 DEF Active, Present
    <3> QED BY <2>0, <2>1, <2>2, <2>4, <3>1, <3>2, MapStays
  <2>5. ASSUME req'[r].at \in {"key", "rm", "select"}, req'[r].older = req[r].older,
               req'[r].at = "rm" => ~req'[r].own,
               req[r].at \in {"commit", "save", "destroy", "key", "rm"},
               UNCHANGED <<up, map, late>>
        PROVE  MapInv'
    <3>1. r \notin Holding /\ req[r].at # None
      BY <2>5, NoneIsNoName DEF Holding
    <3> QED BY <2>0, <2>1, <2>2, <2>5, <3>1, MapOwed
  <2>6. CASE Gate(r)
    <3>1. /\ req[r].at = "gate" /\ domain' = domain /\ UNCHANGED <<up, map, late, behind>>
          /\ Ends(r, FALSE) \/ Goes(r, "token")
      BY <2>6 DEF Gate, At
    <3> QED BY <2>3, <2>4, <3>1, GoesOthers
  <2>7. CASE VerifySetupToken(r)
    <3>1. req[r].at = "token" /\ domain' = domain /\ UNCHANGED <<up, map, late, behind>>
      BY <2>7 DEF VerifySetupToken, At
    <3> QED BY <2>3, <2>4, <2>7, <3>1, PassesOthers
  <2>8. CASE MarkSetupCompleted(r)
    <3>1. /\ req[r].at = "mark" /\ domain' = domain /\ UNCHANGED <<up, map, late, behind>>
          /\ Ends(r, TRUE)
      BY <2>8 DEF MarkSetupCompleted, At
    <3> QED BY <2>3, <3>1
  <2>9. CASE CreateDomain(r)
    <3>1. req[r].at = "commit" /\ UNCHANGED <<up, map, late, behind>>
      BY <2>9 DEF CreateDomain, At
    <3>2. CASE req[r].d \in Present
      <4>1. Ends(r, FALSE) /\ domain' = domain
        BY <2>9, <3>2 DEF CreateDomain
      <4> QED BY <2>3, <3>1, <4>1
    <3>3. CASE req[r].d \notin Present
      BY <2>5, <2>9, <3>1, <3>3, CreatesOthers
    <3> QED BY <3>2, <3>3
  <2>10. CASE Save(r)
    <3>1. req[r].at = "save" /\ UNCHANGED <<up, map, late, behind>> /\ Goes(r, "select")
      BY <2>10 DEF Save, At
    <3> QED BY <2>5, <3>1, GoesOthers
  <2>11. CASE Count(r)
    <3>1. /\ req[r].at = "count" /\ domain' = domain /\ UNCHANGED <<up, map, late, behind>>
          /\ Ends(r, FALSE) \/ Goes(r, "destroy")
      BY <2>11 DEF Count, At
    <3> QED BY <2>3, <2>4, <3>1, GoesOthers
  <2>12. CASE Destroy(r)
    <3>1. req[r].at = "destroy" /\ UNCHANGED <<up, map, late, behind>>
      BY <2>12 DEF Destroy, At
    <3>2. CASE ~req[r].own
      <4>1. Goes(r, "rm")
        BY <2>12, <3>2 DEF Destroy
      <4> QED BY <2>5, <3>1, <3>2, <4>1, GoesOthers
    <3>3. CASE req[r].own
      BY <2>5, <2>12, <3>1, <3>3, DestroysOthers
    <3> QED BY <3>2, <3>3
  <2>13. CASE MaterializeDomainKey(r) \/ RemoveDomainKey(r)
    <3>1. req[r].at \in {"key", "rm"} /\ UNCHANGED <<up, map, late, behind>> /\ Goes(r, "select")
      BY <2>13 DEF MaterializeDomainKey, RemoveDomainKey, At
    <3> QED BY <2>5, <3>1, GoesOthers
  <2> QED BY <1>1, <2>6, <2>7, <2>8, <2>9, <2>10, <2>11, <2>12, <2>13,
             MapRead, MapEmptied, MapWritten, MapFailed DEF Step
<1>2. ASSUME NEW r \in Requests, req[r] = Idle, OthersStay(r), up, UNCHANGED <<up, map, late, behind>>,
             Active' = Active, req'[r].older = {},
             req'[r].at \in {"gate", "commit", "select", "save", "count"}
      PROVE  MapInv'
  <2>1. r \notin Owing /\ r \notin Holding
    BY <1>2, NoneIsNoName DEF Idle, Owing, Holding
  <2>2. CASE req'[r].at = "select"
    BY <1>2, <2>1, <2>2, MapOwed
  <2>3. CASE req'[r].at # "select"
    BY <1>2, <2>1, <2>3, MapStays
  <2> QED BY <2>2, <2>3
<1>3. ASSUME NEW w \in Wizards, Submit(w) PROVE MapInv'
  <2>1. up /\ UNCHANGED <<up, map, late, behind>>
    BY <1>3 DEF Submit
  <2>2. Active' = Active
    BY <1>3, RestDomains
  <2>3. PICK r \in Requests : OthersStay(r) /\ req[r] = Idle /\ req'[r].at = "gate" /\ req'[r].older = {}
    BY <1>3, SubmitsOthers
  <2> QED BY <1>2, <2>1, <2>2, <2>3
<1>4. CASE Administrate
  <2>1. up /\ UNCHANGED <<up, map, late, behind>>
    BY <1>4 DEF Administrate
  <2>2. Active' = Active
    BY <1>4, RestDomains
  <2>3. PICK r \in Requests : /\ OthersStay(r) /\ req[r] = Idle /\ req'[r].older = {}
                              /\ req'[r].at \in {"commit", "select", "save", "count"}
    BY <1>4, AdministratesOthers
  <2> QED BY <1>2, <2>1, <2>2, <2>3
<1>5. ASSUME req' = req, Active' = Active, UNCHANGED <<up, map, late, behind>>
      PROVE  MapInv'
  BY <1>5 DEF MapInv, Owes, Owing, Holding
<1>6. ASSUME NEW w \in Wizards, OpenWizard(w) \/ Back(w) \/ Lose(w) PROVE MapInv'
  <2>1. UNCHANGED <<up, map, late, behind>>
    BY <1>6 DEF OpenWizard, Back, Lose
  <2> QED BY <1>5, <1>6, <2>1, RestDomains, RestRequests
<1>7. CASE UNCHANGED vars
  <2>1. UNCHANGED <<up, map, late, behind>>
    BY <1>7 DEF vars
  <2> QED BY <1>5, <1>7, <2>1, RestDomains, RestRequests
<1>8. CASE Stop
  <2>1. ~up' /\ \A r \in Requests : req'[r] = Idle
    BY <1>8 DEF Stop
  <2>2. \A r \in Requests : req'[r].older = {} /\ req'[r].own = FALSE /\ req'[r].at = None
    BY <2>1 DEF Idle
  <2>3. Holding' = {}
    BY <2>2, NoneIsNoName DEF Holding
  <2> QED BY <2>1, <2>2, <2>3 DEF MapInv
<1>9. CASE Boot
  <2>1. req' = req /\ up' /\ \A r \in Requests : req[r] = Idle
    BY <1>9 DEF Boot, MapInv
  <2>2. \A r \in Requests : req'[r].older = {} /\ req'[r].own = FALSE /\ req'[r].at = None
    BY <2>1 DEF Idle
  <2>3. Holding' = {}
    BY <2>2, NoneIsNoName DEF Holding
  <2>4. behind' \/ map' = Active
    BY <1>9 DEF Boot, MaterializeAllKeys
  <2>5. Active' = Active
    BY <1>9, RestDomains
  <2> QED BY <2>1, <2>2, <2>3, <2>4, <2>5 DEF MapInv
<1> QED BY <1>1, <1>3, <1>4, <1>6, <1>7, <1>8, <1>9 DEF Do

-----------------------------------------------------------------------------
(* The theorems.                                                            *)

\* The invariant holds in every reachable state.
THEOREM Inductive == Spec => []IInv
<1>1. IInv /\ [Do]_vars => IInv'
  BY NextType, NextWaits, NextOwn, NextFounded, NextKeys, NextMap DEF IInv
<1> QED BY InitInv, <1>1, PTL DEF Spec

\* The shapes of the variables of the wizard, the requests and the domains.
THEOREM TypesHold == Spec => []TypeInv
<1>1. IInv => TypeInv
  BY DEF IInv
<1> QED BY Inductive, <1>1, PTL

\* Setup never counts as done, and no wizard gets behind its form, before an administrator was made.
THEOREM SetupMadeAdmin == Spec => []CompletedHasAdmin
<1>1. IInv => CompletedHasAdmin
  BY DEF IInv, FoundedInv, CompletedHasAdmin
<1> QED BY Inductive, <1>1, PTL

\* When no request is rewriting them, the DKIM files are as the domains are, with the exceptions
\* FilesFollowDomains names.
THEOREM FilesFollow == Spec => []FilesFollowDomains
<1>1. IInv => FilesFollowDomains
  <2> SUFFICES ASSUME IInv, up, Owing = {}
               PROVE  (behind \/ map = Active) /\ Present \ astray \subseteq keyed
    BY DEF FilesFollowDomains
  <2>1. behind \/ map = Active
    BY DEF IInv, MapInv
  <2>2. \A r \in Requests : req[r].at # "key"
    BY DEF Owing
  <2>3. Present \ astray \subseteq keyed
    BY <2>2 DEF IInv, KeysInv
  <2> QED BY <2>1, <2>3
<1> QED BY Inductive, <1>1, PTL
=============================================================================
