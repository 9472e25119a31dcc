--------------------------- MODULE DatabaseProofs ---------------------------
(***************************************************************************)
(* Proofs about the rows of the database.                                  *)
(*   - Directory, for any domains, addresses, ids, requests and bodies.    *)
(*     The invariant has four parts: the types, the shape of a request     *)
(*     (Shapes), what a request during which no admin went away may rely   *)
(*     on (Standing), and what one that no other crossed may rely on       *)
(*     (Knows).                                                            *)
(*   - MailLog, for any messages, recipients, lines, failed lines and      *)
(*     restarts: LogInv says in which order Postfix logs what becomes of a *)
(*     message, what the lines between any place where a restart may begin *)
(*     and the last line read make of a row, and what the rows and the     *)
(*     memory hold of a message that nothing was lost of.                  *)
(***************************************************************************)
EXTENDS Directory, MailLog, FiniteSetTheorems, SequenceTheorems, WellFoundedInduction, TLAPS

USE DEF vars, tables

\* Which operation takes which steps, on which kind of row.
Shape(c) ==
  /\ c.op \in {"update", "remove"} => c.row \in Ids /\ c.at \in {"others", "aliases", "save"}
  /\ c.op = "update" => c.addr \in Addresses
  /\ c.op = "remove" => c.at \in {"others", "save"}
  /\ c.op = "dropDomain" => c.row \in Domains /\ c.at \in {"total", "here", "drop"}
  /\ c.op = "create" => c.addr \in Addresses /\ c.at \in {"email", "source", "insert"}
  /\ c.op = "addAlias" => /\ c.addr \in Sources /\ c.dest \in Addresses
                          /\ c.at \in {"source", "pair", "dest", "insert"}
  /\ c.op = "catchAll" => /\ c.addr \in Sources \ Addresses /\ c.at \in {"dest", "clear", "insert"}
                          /\ c.at \in {"dest", "insert"} => c.dest \in Addresses
  /\ c.op = "editAlias" => /\ c.row \in AliasIds /\ c.at \in {"dest", "save"}
                           /\ c.on \cup c.off \subseteq {"active"}
  /\ c.op = "removeAlias" => c.row \in AliasIds /\ c.at = "save"
  /\ c.op = "idle" => c.at = "none"
Shapes == \A r \in Requests : Shape(call[r])

TablesOK ==
  /\ domains \in SUBSET Domains
  /\ box \in [Ids -> MailboxRow \cup {None}]
  /\ alias \in [AliasIds -> AliasRow \cup {None}]

WellFormed == TypeOK /\ Shapes

-----------------------------------------------------------------------------
(* The operators the steps are made of. *)

\* A request's record has its type when its fields have theirs.
LEMMA CallIsRow ==
  ASSUME NEW op \in Ops, NEW at \in Steps,
         NEW row \in Ids \cup AliasIds \cup Domains \cup {None},
         NEW addr \in Sources \cup {None}, NEW dest \in Addresses \cup {None},
         NEW loaded \in SUBSET Flags, NEW on \in SUBSET Flags, NEW off \in SUBSET Flags
  PROVE  Call(op, at, row, addr, dest, loaded, on, off) \in CallRow
BY DEF Call, CallRow

\* An edited alias: the record of the request, whichever step it goes on with.
LEMMA EditIsRow ==
  ASSUME NEW a \in AliasIds, NEW step \in {"save", "dest"},
         NEW new \in Addresses \cup {None}, NEW loaded \in SUBSET Flags,
         NEW on \in SUBSET Flags, NEW off \in SUBSET Flags
  PROVE  Call("editAlias", step, a, None, new, loaded, on, off) \in CallRow
<1>1. "editAlias" \in Ops /\ step \in Steps
  BY DEF Ops, Steps
<1>2. a \in Ids \cup AliasIds \cup Domains \cup {None} /\ None \in Sources \cup {None}
  OBVIOUS
<1> QED BY <1>1, <1>2, CallIsRow

\* The records of the requests that load a mailbox or insert a row.
LEMMA RemoveIsRow ==
  ASSUME NEW m \in Ids, NEW step \in {"others", "save"}, NEW loaded \in SUBSET Flags
  PROVE  Call("remove", step, m, None, None, loaded, {}, {}) \in CallRow
<1>1. "remove" \in Ops /\ step \in Steps
  BY DEF Ops, Steps
<1> QED BY <1>1, CallIsRow

LEMMA UpdateIsRow ==
  ASSUME NEW m \in Ids, NEW step \in {"others", "aliases", "save"}, NEW addr \in Addresses,
         NEW loaded \in SUBSET Flags, NEW on \in SUBSET Flags, NEW off \in SUBSET Flags
  PROVE  Call("update", step, m, addr, None, loaded, on, off) \in CallRow
<1>1. "update" \in Ops /\ step \in Steps /\ addr \in Sources
  BY DEF Ops, Steps, Sources
<1> QED BY <1>1, CallIsRow

LEMMA CatchAllIsRow ==
  ASSUME NEW d \in Domains, NEW step \in {"clear", "dest"}, NEW s \in Sources,
         NEW dest \in Addresses \cup {None}
  PROVE  Call("catchAll", step, d, s, dest, {}, {}, {}) \in CallRow
<1>1. "catchAll" \in Ops /\ step \in Steps
  BY DEF Ops, Steps
<1> QED BY <1>1, CallIsRow

LEMMA CreateIsRow ==
  ASSUME NEW d \in Domains, NEW s \in Sources, NEW flags \in SUBSET Flags
  PROVE  Call("create", "email", d, s, None, {}, flags, {}) \in CallRow
<1>1. "create" \in Ops /\ "email" \in Steps
  BY DEF Ops, Steps
<1> QED BY <1>1, CallIsRow

LEMMA AddAliasIsRow ==
  ASSUME NEW d \in Domains, NEW step \in {"pair", "source"}, NEW s \in Sources,
         NEW dest \in Addresses
  PROVE  Call("addAlias", step, d, s, dest, {}, {}, {}) \in CallRow
<1>1. "addAlias" \in Ops /\ step \in Steps
  BY DEF Ops, Steps
<1> QED BY <1>1, CallIsRow

LEMMA DropIsRow ==
  ASSUME NEW d \in Domains
  PROVE  Call("dropDomain", "total", d, None, None, {}, {}, {}) \in CallRow
<1>1. "dropDomain" \in Ops /\ "total" \in Steps
  BY DEF Ops, Steps
<1> QED BY <1>1, CallIsRow

LEMMA RemoveAliasIsRow ==
  ASSUME NEW a \in AliasIds
  PROVE  Call("removeAlias", "save", a, None, None, {}, {}, {}) \in CallRow
<1>1. "removeAlias" \in Ops /\ "save" \in Steps
  BY DEF Ops, Steps
<1> QED BY <1>1, CallIsRow

LEMMA IdleIsRow == Idle \in CallRow /\ Shape(Idle)
BY DEF Idle, Call, CallRow, Shape, Ops, Steps

\* A request that is recorded with a well-formed record stays so, with any
\* change of the tables that keeps their types.
LEMMA RecordOK ==
  ASSUME WellFormed, TablesOK', NEW r \in Requests, NEW c \in CallRow, Shape(c),
         call' = [call EXCEPT ![r] = c],
         bereft' \in SUBSET Requests, crossed' \in SUBSET Requests
  PROVE  WellFormed'
<1>1. call' \in [Requests -> CallRow]
  BY DEF WellFormed, TypeOK
<1>2. \A q \in Requests : call'[q] = call[q] \/ call'[q] = c
  BY DEF WellFormed, TypeOK
<1>3. Shapes'
  <2> SUFFICES ASSUME NEW q \in Requests PROVE Shape(call'[q])
    BY DEF Shapes
  <2> QED BY <1>2 DEF WellFormed, Shapes
<1> QED BY <1>1, <1>3 DEF WellFormed, TypeOK, TablesOK

LEMMA BeginOK ==
  ASSUME WellFormed, NEW r \in Requests, NEW c \in CallRow, Shape(c), Begin(r, c)
  PROVE  WellFormed'
BY RecordOK DEF Begin, TablesOK, WellFormed, TypeOK

LEMMA GoOK ==
  ASSUME WellFormed, NEW r \in Requests, NEW step \in Steps,
         Shape([call[r] EXCEPT !.at = step]), Go(r, step)
  PROVE  WellFormed'
<1> DEFINE c == [call[r] EXCEPT !.at = step]
<1>1. c \in CallRow
  BY DEF WellFormed, TypeOK, CallRow
<1>2. call' = [call EXCEPT ![r] = c]
  BY DEF Go, WellFormed, TypeOK
<1> HIDE DEF c
<1>3. Shape(c)
  BY DEF c
<1> QED BY <1>1, <1>2, <1>3, RecordOK DEF Go, TablesOK, WellFormed, TypeOK

LEMMA RefuseOK ==
  ASSUME WellFormed, NEW r \in Requests, Refuse(r)
  PROVE  WellFormed'
BY RecordOK, IdleIsRow DEF Refuse, TablesOK, WellFormed, TypeOK

LEMMA WroteOK ==
  ASSUME WellFormed, TablesOK', NEW r \in Requests, NEW c \in CallRow, Shape(c), Wrote(r, c)
  PROVE  WellFormed'
BY RecordOK DEF Wrote, ActiveRequests, WellFormed, TypeOK

\* Active administrators are finitely many.
LEMMA AdminsFinite == ActiveAdmins \in SUBSET Ids /\ IsFiniteSet(ActiveAdmins)
                      /\ Cardinality(ActiveAdmins) \in Nat
BY IdsAreFinite, FS_Subset, FS_CardinalityType DEF ActiveAdmins

-----------------------------------------------------------------------------
(* Types and shapes. *)

LEMMA InitWellFormed == Init => WellFormed
<1> SUFFICES ASSUME Init PROVE WellFormed
  OBVIOUS
<1>1. TypeOK
  BY IdleIsRow DEF Init, TypeOK, MailboxRow, Addresses
<1>2. Shapes
  BY IdleIsRow DEF Init, Shapes
<1> QED BY <1>1, <1>2 DEF WellFormed

LEMMA StartWellFormed ==
  ASSUME WellFormed, NEW r \in Requests, Start(r)
  PROVE  WellFormed'
<1> USE DEF WellFormed, TypeOK
<1>1. ASSUME NEW m \in Ids, LoadForRemove(r, m) PROVE WellFormed'
  <2> DEFINE step == IF GuardsAdmin(box[m].flags) THEN "others" ELSE "save"
             c == Call("remove", step, m, None, None, box[m].flags, {}, {})
  <2>1. box[m].flags \in SUBSET Flags
    BY <1>1 DEF LoadForRemove, MailboxRow
  <2>2. c \in CallRow
    <3>1. step \in {"others", "save"}
      OBVIOUS
    <3> HIDE DEF step
    <3> QED BY <2>1, <3>1, RemoveIsRow
  <2>3. Shape(c)
    BY DEF Shape, Call
  <2> QED BY <1>1, <2>2, <2>3, BeginOK DEF LoadForRemove
<1>2. ASSUME NEW m \in Ids, NEW b \in Bodies, LoadForUpdate(r, m, b) PROVE WellFormed'
  <2> DEFINE c == Call("update", FirstStep(box[m].flags, b.off), m, box[m].addr, None,
                       box[m].flags, b.on, b.off)
  <2>1. FirstStep(box[m].flags, b.off) \in {"others", "aliases", "save"}
    BY DEF FirstStep, StepAfterOthers
  <2>2. b.on \in SUBSET Flags /\ b.off \in SUBSET Flags
    BY BodiesAreBodies
  <2>3. box[m].addr \in Addresses /\ box[m].flags \in SUBSET Flags
    BY <1>2 DEF LoadForUpdate, MailboxRow
  <2>4. c \in CallRow
    BY <2>1, <2>2, <2>3, UpdateIsRow
  <2>5. Shape(c)
    BY <2>1, <2>3 DEF Shape, Call
  <2> QED BY <1>2, <2>4, <2>5, BeginOK DEF LoadForUpdate
<1>3. ASSUME NEW d \in Domains, CreateDomain(r, d) PROVE WellFormed'
  BY <1>3, WroteOK, IdleIsRow DEF CreateDomain, TablesOK
<1>4. ASSUME NEW d \in Domains, LoadForDrop(r, d) PROVE WellFormed'
  <2> DEFINE c == Call("dropDomain", "total", d, None, None, {}, {}, {})
  <2>1. c \in CallRow
    BY DropIsRow
  <2>2. Shape(c)
    BY DEF Shape, Call
  <2> QED BY <1>4, <2>1, <2>2, BeginOK DEF LoadForDrop
<1>5. ASSUME NEW d \in Domains, NEW dest \in Addresses \cup {None}, LoadForCatchAll(r, d, dest)
      PROVE  WellFormed'
  <2> DEFINE step == IF dest = None THEN "clear" ELSE "dest"
             c == Call("catchAll", step, d, CatchAll(d), dest, {}, {}, {})
  <2>1. CatchAll(d) \in Sources \ Addresses
    BY NoneIsNothing DEF Sources, CatchAll, Addresses
  <2>2. c \in CallRow
    <3>1. step \in {"clear", "dest"}
      OBVIOUS
    <3> HIDE DEF step
    <3> QED BY <2>1, <3>1, CatchAllIsRow
  <2>3. Shape(c)
    BY <2>1 DEF Shape, Call
  <2> QED BY <1>5, <2>2, <2>3, BeginOK DEF LoadForCatchAll
<1>6. ASSUME NEW d \in Domains, NEW l \in Locals, NEW flags \in NewFlags,
             LoadForCreate(r, d, l, flags)
      PROVE  WellFormed'
  <2> DEFINE c == Call("create", "email", d, <<l, d>>, None, {}, flags, {})
  <2>1. <<l, d>> \in Addresses /\ <<l, d>> \in Sources
    BY DEF Addresses, Sources
  <2>2. flags \in SUBSET Flags
    BY NewFlagsAreFlags DEF Flags
  <2>3. c \in CallRow
    BY <2>1, <2>2, CreateIsRow
  <2>4. Shape(c)
    BY <2>1 DEF Shape, Call
  <2> QED BY <1>6, <2>3, <2>4, BeginOK DEF LoadForCreate
<1>7. ASSUME NEW d \in Domains, NEW s \in Sources, NEW dest \in Addresses,
             LoadForAddAlias(r, d, s, dest)
      PROVE  WellFormed'
  <2> DEFINE step == IF s = CatchAll(d) THEN "pair" ELSE "source"
             c == Call("addAlias", step, d, s, dest, {}, {}, {})
  <2>1. c \in CallRow
    <3>1. step \in {"pair", "source"}
      OBVIOUS
    <3> HIDE DEF step
    <3> QED BY <3>1, AddAliasIsRow
  <2>2. Shape(c)
    BY DEF Shape, Call
  <2> QED BY <1>7, <2>1, <2>2, BeginOK DEF LoadForAddAlias
<1>8. ASSUME NEW a \in AliasIds, LoadForRemoveAlias(r, a) PROVE WellFormed'
  <2> DEFINE c == Call("removeAlias", "save", a, None, None, {}, {}, {})
  <2>1. c \in CallRow
    BY RemoveAliasIsRow
  <2>2. Shape(c)
    BY DEF Shape, Call
  <2> QED BY <1>8, <2>1, <2>2, BeginOK DEF LoadForRemoveAlias
<1>9. ASSUME NEW a \in AliasIds, NEW dest \in Addresses \cup {None}, NEW b \in Bodies,
             LoadForEdit(r, a, dest, b)
      PROVE  WellFormed'
  <2> DEFINE new == IF dest = alias[a].dest THEN None ELSE dest
             step == IF new = None THEN "save" ELSE "dest"
             c == Call("editAlias", step, a, None, new, alias[a].flags, b.on, b.off)
  <2>1. alias[a].flags \in SUBSET Flags
    BY <1>9 DEF LoadForEdit, AliasRow, Flags
  <2>2. b.on \in SUBSET Flags /\ b.off \in SUBSET Flags /\ b.on \cup b.off \subseteq {"active"}
    BY <1>9, BodiesAreBodies DEF LoadForEdit
  <2>3. c \in CallRow
    <3>1. new \in Addresses \cup {None} /\ step \in {"save", "dest"}
      OBVIOUS
    <3> HIDE DEF new, step
    <3> QED BY <2>1, <2>2, <3>1, EditIsRow
  <2>4. Shape(c)
    BY <2>2 DEF Shape, Call
  <2> QED BY <1>9, <2>3, <2>4, BeginOK DEF LoadForEdit
<1> QED
  BY <1>1, <1>2, <1>3, <1>4, <1>5, <1>6, <1>7, <1>8, <1>9
     DEF Start, MailboxRequest, DomainRequest, AliasRequest

LEMMA CheckWellFormed ==
  ASSUME WellFormed, NEW r \in Requests, Check(r)
  PROVE  WellFormed'
<1>0. call[r] \in CallRow /\ Shape(call[r])
  BY DEF WellFormed, TypeOK, Shapes
<1>1. ASSUME CountOthers(r) PROVE WellFormed'
  <2> DEFINE step == IF call[r].op = "remove" THEN "save"
                     ELSE StepAfterOthers(call[r].loaded, call[r].off)
  <2>1. step \in Steps /\ Shape([call[r] EXCEPT !.at = step])
    BY <1>0, <1>1 DEF CountOthers, StepAfterOthers, Steps, Shape, CallRow, Ops
  <2> QED BY <1>1, <2>1, GoOK, RefuseOK DEF CountOthers
<1>2. ASSUME FindAliases(r) PROVE WellFormed'
  <2>1. "save" \in Steps /\ Shape([call[r] EXCEPT !.at = "save"])
    BY <1>0, <1>2 DEF FindAliases, Steps, Shape, CallRow, Ops
  <2> QED BY <1>2, <2>1, GoOK, RefuseOK DEF FindAliases
<1>3. ASSUME CountAdmins(r) PROVE WellFormed'
  <2> DEFINE c == [call[r] EXCEPT !.at = "here", !.total = Cardinality(ActiveAdmins)]
  <2>1. c \in CallRow
    BY <1>0, AdminsFinite DEF CallRow, Steps
  <2>2. Shape(c)
    BY <1>0, <1>3 DEF CountAdmins, Shape, CallRow, Ops
  <2>3. call' = [call EXCEPT ![r] = c]
    BY <1>3 DEF CountAdmins, WellFormed, TypeOK
  <2> HIDE DEF c
  <2> QED BY <1>3, <2>1, <2>2, <2>3, RecordOK DEF CountAdmins, TablesOK, WellFormed, TypeOK
<1>4. ASSUME CountHere(r) PROVE WellFormed'
  <2>1. "drop" \in Steps /\ Shape([call[r] EXCEPT !.at = "drop"])
    BY <1>0, <1>4 DEF CountHere, Steps, Shape, CallRow, Ops
  <2> QED BY <1>4, <2>1, GoOK, RefuseOK DEF CountHere
<1>5. ASSUME CheckEmail(r) PROVE WellFormed'
  <2>1. "source" \in Steps /\ Shape([call[r] EXCEPT !.at = "source"])
    BY <1>0, <1>5 DEF CheckEmail, Steps, Shape, CallRow, Ops
  <2> QED BY <1>5, <2>1, GoOK, RefuseOK DEF CheckEmail
<1>6. ASSUME CheckSource(r) PROVE WellFormed'
  <2>1. CASE call[r].op = "create"
    <3>1. "insert" \in Steps /\ Shape([call[r] EXCEPT !.at = "insert"])
      BY <1>0, <2>1 DEF Steps, Shape, CallRow, Ops
    <3> QED BY <1>6, <2>1, <3>1, GoOK, RefuseOK DEF CheckSource
  <2>2. CASE call[r].op # "create"
    <3>1. "pair" \in Steps /\ Shape([call[r] EXCEPT !.at = "pair"])
      BY <1>0, <1>6, <2>2 DEF CheckSource, Steps, Shape, CallRow, Ops
    <3> QED BY <1>6, <2>2, <3>1, GoOK, RefuseOK DEF CheckSource
  <2> QED BY <2>1, <2>2
<1>7. ASSUME CheckPair(r) PROVE WellFormed'
  <2>1. "dest" \in Steps /\ Shape([call[r] EXCEPT !.at = "dest"])
    BY <1>0, <1>7 DEF CheckPair, Steps, Shape, CallRow, Ops
  <2> QED BY <1>7, <2>1, GoOK, RefuseOK DEF CheckPair
<1>8. ASSUME CheckDestination(r) PROVE WellFormed'
  <2> DEFINE step == AfterDestination(call[r].op)
  <2>1. step \in Steps /\ Shape([call[r] EXCEPT !.at = step])
    BY <1>0, <1>8 DEF CheckDestination, AfterDestination, Steps, Shape, CallRow, Ops
  <2> QED BY <1>8, <2>1, GoOK, RefuseOK DEF CheckDestination
<1> QED BY <1>1, <1>2, <1>3, <1>4, <1>5, <1>6, <1>7, <1>8 DEF Check

LEMMA WriteWellFormed ==
  ASSUME WellFormed, NEW r \in Requests, Write(r)
  PROVE  WellFormed'
<1>0. call[r] \in CallRow /\ Shape(call[r]) /\ TablesOK
  BY DEF WellFormed, TypeOK, Shapes, TablesOK
<1>1. ASSUME SaveMailbox(r) PROVE WellFormed'
  <2> DEFINE m == call[r].row
             flags == (box[m].flags \ (call[r].off \cap call[r].loaded))
                      \cup (call[r].on \ call[r].loaded)
  <2>1. m \in Ids
    BY <1>0, <1>1 DEF SaveMailbox, Shape
  <2>2. ASSUME box[m] # None PROVE flags \in SUBSET Flags /\ box[m] \in MailboxRow
    BY <1>0, <2>1, <2>2 DEF TablesOK, MailboxRow, CallRow
  <2>3. box' \in [Ids -> MailboxRow \cup {None}]
    BY <1>0, <1>1, <2>1, <2>2 DEF SaveMailbox, TablesOK, MailboxRow
  <2> QED BY <1>0, <1>1, <2>3, IdleIsRow, WroteOK DEF SaveMailbox, TablesOK
<1>2. ASSUME DestroyMailbox(r) PROVE WellFormed'
  BY <1>0, <1>2, IdleIsRow, WroteOK DEF DestroyMailbox, TablesOK
<1>3. ASSUME DropDomain(r) PROVE WellFormed'
  BY <1>0, <1>3, IdleIsRow, WroteOK DEF DropDomain, TablesOK
<1>4. ASSUME ClearCatchAll(r) PROVE WellFormed'
  <2> DEFINE c == IF call[r].dest = None THEN Idle ELSE [call[r] EXCEPT !.at = "insert"]
  <2>1. c \in CallRow
    BY <1>0, IdleIsRow DEF CallRow, Steps
  <2>2. Shape(c)
    BY <1>0, <1>4, IdleIsRow DEF ClearCatchAll, Shape, CallRow, Ops
  <2>3. Wrote(r, c) /\ TablesOK'
    BY <1>0, <1>4 DEF ClearCatchAll, TablesOK
  <2> QED BY <2>1, <2>2, <2>3, WroteOK
<1>5. ASSUME InsertMailbox(r) PROVE WellFormed'
  <2>1. ASSUME NEW m \in Ids,
               box' = [box EXCEPT ![m] = [addr |-> call[r].addr,
                                          flags |-> call[r].on \cup {"active"}]],
               UNCHANGED <<domains, alias>>, Wrote(r, Idle)
        PROVE  WellFormed'
    <3>1. [addr |-> call[r].addr, flags |-> call[r].on \cup {"active"}] \in MailboxRow
      BY <1>0, <1>5 DEF InsertMailbox, Shape, CallRow, MailboxRow, Flags
    <3>2. TablesOK'
      BY <1>0, <2>1, <3>1 DEF TablesOK
    <3> QED BY <2>1, <3>2, IdleIsRow, WroteOK
  <2> QED BY <1>5, <2>1, RefuseOK DEF InsertMailbox
<1>6. ASSUME InsertAlias(r) PROVE WellFormed'
  <2>1. ASSUME NEW a \in AliasIds,
               alias' = [alias EXCEPT ![a] = [source |-> call[r].addr, dest |-> call[r].dest,
                                              flags |-> {"active"}]],
               UNCHANGED <<domains, box>>, Wrote(r, Idle)
        PROVE  WellFormed'
    <3>1. [source |-> call[r].addr, dest |-> call[r].dest, flags |-> {"active"}] \in AliasRow
      BY <1>0, <1>6 DEF InsertAlias, Shape, AliasRow
    <3>2. TablesOK'
      BY <1>0, <2>1, <3>1 DEF TablesOK
    <3> QED BY <2>1, <3>2, IdleIsRow, WroteOK
  <2> QED BY <1>6, <2>1, RefuseOK DEF InsertAlias
<1>7. ASSUME SaveAlias(r) PROVE WellFormed'
  <2> DEFINE a == call[r].row
             dest == IF call[r].dest = None THEN alias[a].dest ELSE call[r].dest
             flags == (alias[a].flags \ (call[r].off \cap call[r].loaded))
                      \cup (call[r].on \ call[r].loaded)
             row == [source |-> alias[a].source, dest |-> dest, flags |-> flags]
  <2>1. CASE alias[a] = None \/ (dest # alias[a].dest /\ HasPair(alias[a].source, dest))
    BY <1>7, <2>1, RefuseOK DEF SaveAlias
  <2>2. CASE ~(alias[a] = None \/ (dest # alias[a].dest /\ HasPair(alias[a].source, dest)))
    <3>1. a \in AliasIds /\ alias[a] \in AliasRow
      BY <1>0, <1>7, <2>2 DEF SaveAlias, Shape, TablesOK
    <3>2. dest \in Addresses /\ flags \in SUBSET {"active"}
      BY <1>0, <1>7, <3>1 DEF SaveAlias, Shape, AliasRow, CallRow
    <3>3. row \in AliasRow
      BY <3>1, <3>2 DEF AliasRow
    <3>4. alias' = [alias EXCEPT ![a] = row] /\ UNCHANGED <<domains, box>> /\ Wrote(r, Idle)
      BY <1>7, <2>2 DEF SaveAlias
    <3> HIDE DEF row
    <3>5. TablesOK'
      BY <1>0, <3>3, <3>4 DEF TablesOK
    <3> QED BY <3>4, <3>5, IdleIsRow, WroteOK
  <2> QED BY <2>1, <2>2
<1>8. ASSUME DestroyAlias(r) PROVE WellFormed'
  BY <1>0, <1>8, IdleIsRow, WroteOK DEF DestroyAlias, TablesOK
<1> QED BY <1>1, <1>2, <1>3, <1>4, <1>5, <1>6, <1>7, <1>8 DEF Write

LEMMA RestartWellFormed ==
  ASSUME WellFormed, AppRestart
  PROVE  WellFormed'
BY IdleIsRow DEF AppRestart, WellFormed, TypeOK, Shapes

LEMMA NextWellFormed ==
  ASSUME WellFormed, [Next]_vars
  PROVE  WellFormed'
<1>1. CASE UNCHANGED vars
  BY <1>1 DEF WellFormed, TypeOK, Shapes
<1> QED
  BY <1>1, StartWellFormed, CheckWellFormed, WriteWellFormed, RestartWellFormed DEF Next

\* Every variable keeps its type, and every request the shape of its operation.
THEOREM TypeCorrect == Spec => []TypeOK
<1>1. Spec => []WellFormed
  BY InitWellFormed, NextWellFormed, PTL DEF Spec
<1>2. WellFormed => TypeOK
  BY DEF WellFormed
<1> QED BY <1>1, <1>2, PTL

-----------------------------------------------------------------------------
(* What a request during which no admin went away may rely on. *)

\* The request is about to take an active administrator away, or may be.
Takes(c) == c.op = "remove" \/ (c.op = "update" /\ c.off \cap {"admin", "active"} # {})

Stands(c) ==
  /\ ActiveAdmins # {}
  /\ Takes(c) /\ c.at \in {"aliases", "save"} => ActiveAdmins \ {c.row} # {}
  /\ c.at = "here" => c.total <= Cardinality(ActiveAdmins)
  /\ c.at = "drop" => ActiveAdmins \ AdminsOf(c.row) # {}

Standing == \A r \in Requests : call[r].op # "idle" /\ r \notin bereft => Stands(call[r])

\* No row that stays changes its address.
RowsStay == \A m \in Ids : box[m] # None /\ box'[m] # None => box'[m].addr = box[m].addr

LEMMA CountGrows ==
  ASSUME ActiveAdmins \subseteq ActiveAdmins'
  PROVE  /\ Cardinality(ActiveAdmins) \in Nat
         /\ Cardinality(ActiveAdmins') \in Nat
         /\ Cardinality(ActiveAdmins) <= Cardinality(ActiveAdmins')
<1>1. ActiveAdmins' \in SUBSET Ids
  BY DEF ActiveAdmins
<1>2. IsFiniteSet(ActiveAdmins') /\ IsFiniteSet(ActiveAdmins)
  BY <1>1, IdsAreFinite, FS_Subset
<1>3. Cardinality(ActiveAdmins') \in Nat /\ Cardinality(ActiveAdmins) \in Nat
  BY <1>2, FS_CardinalityType
<1> QED BY <1>2, <1>3, FS_Subset

\* What stands keeps standing while administrators are only added.
LEMMA StandsGrows ==
  ASSUME NEW c \in CallRow, Stands(c), ActiveAdmins \subseteq ActiveAdmins', RowsStay
  PROVE  Stands(c)'
<1>1. ActiveAdmins' # {} /\ (ActiveAdmins \ {c.row} # {} => ActiveAdmins' \ {c.row} # {})
  BY DEF Stands
<1>2. c.at = "here" => c.total <= Cardinality(ActiveAdmins')
  <2>1. c.total \in Nat
    BY DEF CallRow
  <2> QED BY <2>1, CountGrows DEF Stands
<1>3. ASSUME ActiveAdmins \ AdminsOf(c.row) # {} PROVE (ActiveAdmins \ AdminsOf(c.row))' # {}
  <2>1. PICK m \in ActiveAdmins : m \notin AdminsOf(c.row)
    BY <1>3
  <2>2. m \in ActiveAdmins' /\ m \in Ids /\ box[m] # None /\ box'[m] # None
    BY <2>1 DEF ActiveAdmins
  <2>3. box'[m].addr = box[m].addr
    BY <2>2 DEF RowsStay
  <2>4. m \notin AdminsOf(c.row)'
    BY <2>1, <2>3 DEF AdminsOf
  <2> QED BY <2>2, <2>4
<1>4. (c.row)' = c.row /\ (c.at)' = c.at
  OBVIOUS
<1> QED BY <1>1, <1>2, <1>3 DEF Stands, Takes

LEMMA StandingRead ==
  ASSUME WellFormed, Standing, NEW r \in Requests, NEW c \in CallRow,
         call' = [call EXCEPT ![r] = c], UNCHANGED tables,
         bereft' = bereft \/ bereft' = bereft \ {r},
         c.op # "idle" /\ r \notin bereft' => Stands(c)
  PROVE  Standing'
<1> SUFFICES ASSUME NEW q \in Requests, call'[q].op # "idle", q \notin bereft'
             PROVE  Stands(call[q])'
  BY DEF Standing
<1>1. \A k \in CallRow : Stands(k) => Stands(k)'
  BY DEF Stands, ActiveAdmins, AdminsOf, Takes
<1>2. call'[q] \in CallRow /\ (q = r => call'[q] = c) /\ (q # r => call'[q] = call[q])
  BY DEF WellFormed, TypeOK
<1>3. Stands(call'[q])
  BY <1>2 DEF Standing
<1> HIDE DEF Stands
<1> QED BY <1>1, <1>2, <1>3

LEMMA StandingWrite ==
  ASSUME WellFormed, Standing, NEW r \in Requests, NEW c \in CallRow, Wrote(r, c), RowsStay,
         c.op # "idle" => c.at = "insert" /\ UNCHANGED box /\ call[r].op # "idle"
  PROVE  Standing'
<1> SUFFICES ASSUME NEW q \in Requests, call'[q].op # "idle", q \notin bereft'
             PROVE  Stands(call[q])'
  BY DEF Standing
<1>1. call'[q] \in CallRow /\ (q = r => call'[q] = c) /\ (q # r => call'[q] = call[q])
  BY DEF WellFormed, TypeOK, Wrote
<1>2. CASE q # r
  <2>1. ActiveAdmins \subseteq ActiveAdmins' /\ q \notin bereft
    BY <1>1, <1>2 DEF Wrote, ActiveRequests
  <2>2. Stands(call'[q])
    BY <1>1, <1>2, <2>1 DEF Standing
  <2> QED BY <1>1, <2>1, <2>2, StandsGrows
<1>3. CASE q = r
  <2>1. c.at = "insert" /\ call'[q] = c /\ UNCHANGED box
    BY <1>1, <1>3
  <2>2. q \notin bereft /\ ActiveAdmins # {}
    BY <1>1, <1>3 DEF Wrote, Standing, Stands
  <2>3. ActiveAdmins' # {}
    BY <2>1, <2>2 DEF ActiveAdmins
  <2> QED BY <2>1, <2>3 DEF Stands
<1> QED BY <1>2, <1>3

LEMMA StandingBegin ==
  ASSUME WellFormed, Standing, NEW r \in Requests, NEW c \in CallRow, Begin(r, c),
         ActiveAdmins # {} => Stands(c)
  PROVE  Standing'
BY StandingRead DEF Begin

LEMMA StandingGo ==
  ASSUME WellFormed, Standing, NEW r \in Requests, NEW step \in Steps, Go(r, step),
         call[r].op # "idle",
         Stands(call[r]) => Stands([call[r] EXCEPT !.at = step])
  PROVE  Standing'
<1> DEFINE c == [call[r] EXCEPT !.at = step]
<1>1. c \in CallRow /\ call' = [call EXCEPT ![r] = c]
  BY DEF WellFormed, TypeOK, CallRow, Go
<1>2. r \notin bereft' => Stands(c)
  BY DEF Standing, Go
<1> HIDE DEF c
<1> QED BY <1>1, <1>2, StandingRead DEF Go

LEMMA StandingRefuse ==
  ASSUME WellFormed, Standing, NEW r \in Requests, Refuse(r)
  PROVE  Standing'
BY StandingRead, IdleIsRow, Idle.op = "idle" DEF Refuse, Idle, Call

\* A request that reads one row and starts stands on what it read.
LEMMA StartStanding ==
  ASSUME WellFormed, Standing, NEW r \in Requests, Start(r)
  PROVE  Standing'
<1> USE DEF WellFormed, TypeOK
<1>0. ASSUME NEW c \in CallRow, Begin(r, c),
             c.at \notin {"here", "drop"}, Takes(c) => c.at \notin {"aliases", "save"}
      PROVE  Standing'
  BY <1>0, StandingBegin DEF Stands
<1>1. ASSUME NEW m \in Ids, LoadForRemove(r, m) PROVE Standing'
  <2> DEFINE step == IF GuardsAdmin(box[m].flags) THEN "others" ELSE "save"
             c == Call("remove", step, m, None, None, box[m].flags, {}, {})
  <2>1. box[m].flags \in SUBSET Flags
    BY <1>1 DEF LoadForRemove, MailboxRow
  <2>2. c \in CallRow
    <3>1. step \in {"others", "save"}
      OBVIOUS
    <3> HIDE DEF step
    <3> QED BY <2>1, <3>1, RemoveIsRow
  <2>3. ActiveAdmins # {} => Stands(c)
    BY DEF Stands, Call, GuardsAdmin, ActiveAdmins
  <2> QED BY <1>1, <2>2, <2>3, StandingBegin DEF LoadForRemove
<1>2. ASSUME NEW m \in Ids, NEW b \in Bodies, LoadForUpdate(r, m, b) PROVE Standing'
  <2> DEFINE c == Call("update", FirstStep(box[m].flags, b.off), m, box[m].addr, None,
                       box[m].flags, b.on, b.off)
  <2>1. FirstStep(box[m].flags, b.off) \in {"others", "aliases", "save"}
    BY DEF FirstStep, StepAfterOthers
  <2>2. b.on \in SUBSET Flags /\ b.off \in SUBSET Flags
    BY BodiesAreBodies
  <2>3. box[m].addr \in Addresses /\ box[m].flags \in SUBSET Flags
    BY <1>2 DEF LoadForUpdate, MailboxRow
  <2>4. c \in CallRow
    BY <2>1, <2>2, <2>3, UpdateIsRow
  <2>5. ASSUME ActiveAdmins # {}, Takes(c), c.at # "others" PROVE ActiveAdmins \ {m} # {}
    <3>1. ~GuardsAdmin(box[m].flags)
      BY <2>5 DEF Takes, Call, FirstStep
    <3> QED BY <2>5, <3>1 DEF GuardsAdmin, ActiveAdmins
  <2>6. ActiveAdmins # {} => Stands(c)
    BY <2>1, <2>5 DEF Stands, Call
  <2> QED BY <1>2, <2>4, <2>6, StandingBegin DEF LoadForUpdate
<1>3. ASSUME NEW d \in Domains, CreateDomain(r, d) PROVE Standing'
  <2>1. RowsStay /\ Wrote(r, Idle) /\ Idle.op = "idle"
    BY <1>3 DEF CreateDomain, RowsStay, Idle, Call
  <2> QED BY <2>1, StandingWrite, IdleIsRow
<1>4. ASSUME NEW d \in Domains, LoadForDrop(r, d) PROVE Standing'
  <2> DEFINE c == Call("dropDomain", "total", d, None, None, {}, {}, {})
  <2>1. c \in CallRow
    BY DropIsRow
  <2> QED BY <1>0, <1>4, <2>1 DEF LoadForDrop, Call
<1>5. ASSUME NEW d \in Domains, NEW dest \in Addresses \cup {None}, LoadForCatchAll(r, d, dest)
      PROVE  Standing'
  <2> DEFINE step == IF dest = None THEN "clear" ELSE "dest"
             c == Call("catchAll", step, d, CatchAll(d), dest, {}, {}, {})
  <2>1. CatchAll(d) \in Sources
    BY DEF Sources
  <2>2. c \in CallRow
    <3>1. step \in {"clear", "dest"}
      OBVIOUS
    <3> HIDE DEF step
    <3> QED BY <2>1, <3>1, CatchAllIsRow
  <2> QED BY <1>0, <1>5, <2>2 DEF LoadForCatchAll, Call, Takes
<1>6. ASSUME NEW d \in Domains, NEW l \in Locals, NEW flags \in NewFlags,
             LoadForCreate(r, d, l, flags)
      PROVE  Standing'
  <2> DEFINE c == Call("create", "email", d, <<l, d>>, None, {}, flags, {})
  <2>1. <<l, d>> \in Sources /\ flags \in SUBSET Flags
    BY NewFlagsAreFlags DEF Addresses, Sources, Flags
  <2>2. c \in CallRow
    BY <2>1, CreateIsRow
  <2> QED BY <1>0, <1>6, <2>2 DEF LoadForCreate, Call
<1>7. ASSUME NEW d \in Domains, NEW s \in Sources, NEW dest \in Addresses,
             LoadForAddAlias(r, d, s, dest)
      PROVE  Standing'
  <2> DEFINE step == IF s = CatchAll(d) THEN "pair" ELSE "source"
             c == Call("addAlias", step, d, s, dest, {}, {}, {})
  <2>1. c \in CallRow
    <3>1. step \in {"pair", "source"}
      OBVIOUS
    <3> HIDE DEF step
    <3> QED BY <3>1, AddAliasIsRow
  <2> QED BY <1>0, <1>7, <2>1 DEF LoadForAddAlias, Call
<1>8. ASSUME NEW a \in AliasIds, LoadForRemoveAlias(r, a) PROVE Standing'
  <2> DEFINE c == Call("removeAlias", "save", a, None, None, {}, {}, {})
  <2>1. c \in CallRow
    BY RemoveAliasIsRow
  <2> QED BY <1>0, <1>8, <2>1 DEF LoadForRemoveAlias, Call, Takes
<1>9. ASSUME NEW a \in AliasIds, NEW dest \in Addresses \cup {None}, NEW b \in Bodies,
             LoadForEdit(r, a, dest, b)
      PROVE  Standing'
  <2> DEFINE new == IF dest = alias[a].dest THEN None ELSE dest
             step == IF new = None THEN "save" ELSE "dest"
             c == Call("editAlias", step, a, None, new, alias[a].flags, b.on, b.off)
  <2>1. alias[a].flags \in SUBSET Flags
    BY <1>9 DEF LoadForEdit, AliasRow, Flags
  <2>2. b.on \in SUBSET Flags /\ b.off \in SUBSET Flags
    BY BodiesAreBodies
  <2>3. c \in CallRow
    <3>1. new \in Addresses \cup {None} /\ step \in {"save", "dest"}
      OBVIOUS
    <3> HIDE DEF new, step
    <3> QED BY <2>1, <2>2, <3>1, EditIsRow
  <2> QED BY <1>0, <1>9, <2>3 DEF LoadForEdit, Call, Takes
<1> QED
  BY <1>1, <1>2, <1>3, <1>4, <1>5, <1>6, <1>7, <1>8, <1>9
     DEF Start, MailboxRequest, DomainRequest, AliasRequest

\* The counts: what they find is there while no administrator goes away.
LEMMA CheckStanding ==
  ASSUME WellFormed, Standing, NEW r \in Requests, Check(r)
  PROVE  Standing'
<1>0. call[r] \in CallRow /\ Shape(call[r])
  BY DEF WellFormed, TypeOK, Shapes
<1>a. ASSUME NEW step \in Steps \ {"aliases", "save", "here", "drop"}, Go(r, step),
             call[r].op # "idle"
      PROVE  Standing'
  <2>1. [call[r] EXCEPT !.at = step].at = step
    BY <1>0 DEF CallRow
  <2>2. Stands(call[r]) => Stands([call[r] EXCEPT !.at = step])
    BY <2>1 DEF Stands
  <2> QED BY <1>a, <2>2, StandingGo
<1>b. ASSUME NEW step \in {"save"}, Go(r, step), call[r].op # "idle", call[r].at # "aliases",
             ~Takes(call[r])
      PROVE  Standing'
  <2> DEFINE c == [call[r] EXCEPT !.at = step]
  <2>1. c.at = "save" /\ c.op = call[r].op /\ c.off = call[r].off
    BY <1>0, <1>b DEF CallRow
  <2>2. Stands(call[r]) => Stands(c)
    BY <1>b, <2>1 DEF Stands, Takes
  <2> QED BY <1>b, <2>2, StandingGo DEF Steps
<1>1. ASSUME CountOthers(r) PROVE Standing'
  <2> DEFINE step == IF call[r].op = "remove" THEN "save"
                     ELSE StepAfterOthers(call[r].loaded, call[r].off)
             c == [call[r] EXCEPT !.at = step]
  <2>1. step \in {"aliases", "save"} /\ step \in Steps
    BY DEF StepAfterOthers, Steps
  <2>2. call[r].op # "idle" /\ c.at = step /\ c.row = call[r].row
    BY <1>0, <1>1 DEF CountOthers, Shape, CallRow
  <2>3. CASE ActiveAdmins \ {call[r].row} # {}
    <3>1. Stands(c)
      BY <2>1, <2>2, <2>3 DEF Stands
    <3> QED BY <1>1, <2>1, <2>2, <2>3, <3>1, StandingGo DEF CountOthers
  <2> QED BY <1>1, <2>3, StandingRefuse DEF CountOthers
<1>2. ASSUME FindAliases(r) PROVE Standing'
  <2> DEFINE c == [call[r] EXCEPT !.at = "save"]
  <2>1. /\ call[r].op # "idle" /\ call[r].at = "aliases" /\ c.at = "save"
        /\ c.row = call[r].row /\ c.op = call[r].op /\ c.off = call[r].off
    BY <1>0, <1>2 DEF FindAliases, Shape, CallRow
  <2>2. Stands(call[r]) => Stands(c)
    BY <2>1 DEF Stands, Takes
  <2> QED BY <1>2, <2>1, <2>2, StandingGo, StandingRefuse DEF FindAliases, Steps
<1>3. ASSUME CountAdmins(r) PROVE Standing'
  <2> DEFINE c == [call[r] EXCEPT !.at = "here", !.total = Cardinality(ActiveAdmins)]
  <2>1. c \in CallRow /\ c.at = "here" /\ c.total = Cardinality(ActiveAdmins)
    BY <1>0, AdminsFinite DEF CallRow, Steps
  <2>2. call' = [call EXCEPT ![r] = c]
    BY <1>3 DEF CountAdmins, WellFormed, TypeOK
  <2>3. call[r].op # "idle"
    BY <1>0, <1>3 DEF CountAdmins, Shape
  <2> HIDE DEF c
  <2>4. r \notin bereft => ActiveAdmins # {}
    BY <2>3 DEF Standing, Stands
  <2>5. r \notin bereft => Stands(c)
    BY <2>1, <2>4, AdminsFinite DEF Stands
  <2> QED BY <1>3, <2>1, <2>2, <2>5, StandingRead DEF CountAdmins
<1>4. ASSUME CountHere(r) PROVE Standing'
  <2> DEFINE c == [call[r] EXCEPT !.at = "drop"]
             here == AdminsOf(call[r].row)
  <2>1. call[r].op # "idle" /\ call[r].at = "here" /\ c.at = "drop" /\ c.row = call[r].row
    BY <1>0, <1>4 DEF CountHere, Shape, CallRow
  <2>2. IsFiniteSet(here) /\ Cardinality(here) \in Nat
    BY AdminsFinite, FS_Subset, FS_CardinalityType DEF AdminsOf
  <2>3. ASSUME Stands(call[r]), ~(Cardinality(here) > 0 /\ call[r].total <= Cardinality(here))
        PROVE  ActiveAdmins \ here # {}
    <3>1. CASE Cardinality(here) = 0
      BY <2>2, <2>3, <3>1, FS_EmptySet DEF Stands
    <3>2. CASE Cardinality(here) > 0
      <4>1. call[r].total \in Nat /\ call[r].total <= Cardinality(ActiveAdmins)
        BY <1>0, <2>1, <2>3 DEF Stands, CallRow
      <4>2. Cardinality(here) < Cardinality(ActiveAdmins)
        BY <2>2, <2>3, <3>2, <4>1, AdminsFinite
      <4>3. ~(ActiveAdmins \subseteq here)
        BY <2>2, <4>2, AdminsFinite, FS_Subset
      <4> QED BY <4>3
    <3> QED BY <2>2, <3>1, <3>2
  <2>4. CASE ~(Cardinality(here) > 0 /\ call[r].total <= Cardinality(here))
    <3>1. Stands(call[r]) => Stands(c)
      BY <2>1, <2>3, <2>4 DEF Stands
    <3> QED BY <1>4, <2>1, <2>4, <3>1, StandingGo DEF CountHere, Steps
  <2> QED BY <1>4, <2>4, StandingRefuse DEF CountHere
<1>5. ASSUME CheckEmail(r) PROVE Standing'
  BY <1>0, <1>5, <1>a, StandingRefuse DEF CheckEmail, Shape, Steps
<1>6. ASSUME CheckSource(r) PROVE Standing'
  BY <1>0, <1>6, <1>a, StandingRefuse DEF CheckSource, Shape, Steps
<1>7. ASSUME CheckPair(r) PROVE Standing'
  BY <1>0, <1>7, <1>a, StandingRefuse DEF CheckPair, Shape, Steps
<1>8. ASSUME CheckDestination(r) PROVE Standing'
  <2>1. /\ call[r].op \notin {"idle", "update", "remove"} /\ call[r].at = "dest"
        /\ ~Takes(call[r])
    BY <1>0, <1>8 DEF CheckDestination, Shape, Takes
  <2> QED BY <1>8, <1>a, <1>b, <2>1, StandingRefuse DEF CheckDestination, AfterDestination, Steps
<1> QED BY <1>1, <1>2, <1>3, <1>4, <1>5, <1>6, <1>7, <1>8 DEF Check

\* A write keeps the rows' addresses, and leaves no other request relying on an
\* administrator that it took away.
LEMMA WriteStanding ==
  ASSUME WellFormed, Standing, NEW r \in Requests, Write(r)
  PROVE  Standing'
<1>0. /\ call[r] \in CallRow /\ Shape(call[r]) /\ box \in [Ids -> MailboxRow \cup {None}]
      /\ Idle.op = "idle" /\ Idle \in CallRow
  BY IdleIsRow DEF WellFormed, TypeOK, Shapes, Idle, Call
<1>a. ASSUME Wrote(r, Idle), RowsStay PROVE Standing'
  BY <1>0, <1>a, StandingWrite
<1>1. ASSUME SaveMailbox(r) PROVE Standing'
  <2> DEFINE flags == (box[call[r].row].flags \ (call[r].off \cap call[r].loaded))
                      \cup (call[r].on \ call[r].loaded)
  <2>1. box' = box \/ box' = [box EXCEPT ![call[r].row].flags = flags]
    BY <1>1 DEF SaveMailbox
  <2> HIDE DEF flags
  <2>2. RowsStay
    <3> SUFFICES ASSUME NEW m \in Ids, box[m] # None, box'[m] # None
                 PROVE  box'[m].addr = box[m].addr
      BY DEF RowsStay
    <3>1. box[m] \in MailboxRow
      BY <1>0
    <3> QED BY <1>0, <2>1, <3>1 DEF MailboxRow
  <2> QED BY <1>1, <1>a, <2>2 DEF SaveMailbox
<1>2. ASSUME DestroyMailbox(r) PROVE Standing'
  BY <1>0, <1>2, <1>a DEF DestroyMailbox, RowsStay
<1>3. ASSUME DropDomain(r) PROVE Standing'
  BY <1>0, <1>3, <1>a DEF DropDomain, RowsStay
<1>4. ASSUME ClearCatchAll(r) PROVE Standing'
  <2> DEFINE c == IF call[r].dest = None THEN Idle ELSE [call[r] EXCEPT !.at = "insert"]
  <2>1. c \in CallRow /\ (c.op # "idle" => c.at = "insert") /\ call[r].op # "idle"
    BY <1>0, <1>4 DEF ClearCatchAll, CallRow, Steps, Shape
  <2>2. RowsStay /\ UNCHANGED box /\ Wrote(r, c)
    BY <1>4 DEF ClearCatchAll, RowsStay
  <2> HIDE DEF c
  <2> QED BY <2>1, <2>2, StandingWrite
<1>5. ASSUME InsertMailbox(r) PROVE Standing'
  BY <1>0, <1>5, <1>a, StandingRefuse DEF InsertMailbox, FreshId, RowsStay
<1>6. ASSUME InsertAlias(r) PROVE Standing'
  BY <1>6, <1>a, StandingRefuse DEF InsertAlias, RowsStay
<1>7. ASSUME SaveAlias(r) PROVE Standing'
  BY <1>7, <1>a, StandingRefuse DEF SaveAlias, RowsStay
<1>8. ASSUME DestroyAlias(r) PROVE Standing'
  BY <1>8, <1>a DEF DestroyAlias, RowsStay
<1> QED BY <1>1, <1>2, <1>3, <1>4, <1>5, <1>6, <1>7, <1>8 DEF Write

LEMMA NextStanding ==
  ASSUME WellFormed, Standing, [Next]_vars
  PROVE  Standing'
<1>1. CASE UNCHANGED vars
  <2>1. UNCHANGED <<call, bereft>> /\ ActiveAdmins' = ActiveAdmins
    BY <1>1 DEF vars, ActiveAdmins
  <2>2. \A q \in Requests : Stands(call[q]) => Stands(call[q])'
    BY <1>1, <2>1 DEF vars, Stands, AdminsOf, Takes
  <2> QED BY <2>1, <2>2 DEF Standing
<1>2. CASE AppRestart
  BY <1>2 DEF AppRestart, Standing, Idle, Call
<1> QED
  BY <1>1, <1>2, StartStanding, CheckStanding, WriteStanding DEF Next

\* What a request does first changes no mailbox and no alias.
LEMMA StartReads ==
  ASSUME NEW r \in Requests, Start(r)
  PROVE  UNCHANGED <<box, alias>>
<1>1. ASSUME NEW c, Begin(r, c) PROVE UNCHANGED <<box, alias>>
  BY <1>1 DEF Begin, tables
<1>2. CASE MailboxRequest(r)
  BY <1>1, <1>2 DEF MailboxRequest, LoadForRemove, LoadForUpdate
<1>3. CASE DomainRequest(r)
  BY <1>1, <1>3 DEF DomainRequest, CreateDomain, LoadForDrop, LoadForCatchAll,
                      LoadForCreate, LoadForAddAlias
<1>4. CASE AliasRequest(r)
  BY <1>1, <1>4 DEF AliasRequest, LoadForRemoveAlias, LoadForEdit
<1> QED BY <1>2, <1>3, <1>4 DEF Start

\* A step that leaves no administrator is a raced request's last.
LEMMA RemovalIsRaced ==
  ASSUME WellFormed, Standing, [Next]_vars, ActiveAdmins # {}, ActiveAdmins' = {}
  PROVE  \E r \in Requests : Ends(r) /\ r \in bereft
<1>1. box' # box
  BY DEF ActiveAdmins
<1>2. PICK r \in Requests :
        SaveMailbox(r) \/ DestroyMailbox(r) \/ DropDomain(r) \/ InsertMailbox(r)
  <2>1. \A r \in Requests : Start(r) => UNCHANGED box
    BY StartReads
  <2>2. \A r \in Requests : Check(r) => UNCHANGED box
    BY DEF Check, CountOthers, FindAliases, CountAdmins, CountHere, CheckEmail, CheckSource,
           CheckPair, CheckDestination, Go, Refuse
  <2>3. \A r \in Requests : ClearCatchAll(r) \/ InsertAlias(r) \/ SaveAlias(r) \/ DestroyAlias(r)
          => UNCHANGED box
    BY DEF ClearCatchAll, InsertAlias, SaveAlias, DestroyAlias, Refuse
  <2> QED BY <1>1, <2>1, <2>2, <2>3 DEF Next, AppRestart, Write
<1>3. /\ call[r] \in CallRow /\ Shape(call[r]) /\ box \in [Ids -> MailboxRow \cup {None}]
      /\ call \in [Requests -> CallRow] /\ Idle.op = "idle"
  BY DEF WellFormed, TypeOK, Shapes, Idle, Call
<1>4. \A m \in Ids : box'[m] = box[m] => m \notin ActiveAdmins
  BY DEF ActiveAdmins
<1>5. ASSUME SaveMailbox(r) PROVE Ends(r) /\ r \in bereft
  <2> DEFINE m == call[r].row
             flags == (box[m].flags \ (call[r].off \cap call[r].loaded))
                      \cup (call[r].on \ call[r].loaded)
  <2>1. m \in Ids /\ call[r].op = "update" /\ call[r].at = "save" /\ Ends(r)
    BY <1>3, <1>5 DEF SaveMailbox, Shape, Wrote, Ends
  <2>2. box[m] # None /\ box' = [box EXCEPT ![m].flags = flags]
    BY <1>1, <1>5 DEF SaveMailbox
  <2> HIDE DEF flags
  <2>3. ActiveAdmins \ {m} = {}
    BY <1>3, <1>4, <2>1, <2>2 DEF ActiveAdmins
  <2>4. m \in ActiveAdmins /\ box'[m] # None /\ box'[m].flags = flags
    <3>1. m \in ActiveAdmins /\ box[m] \in MailboxRow
      BY <1>3, <2>1, <2>2, <2>3
    <3>2. box'[m] = [addr |-> box[m].addr, flags |-> flags]
      BY <1>3, <2>1, <2>2, <3>1 DEF MailboxRow
    <3>3. flags \in SUBSET Flags
      BY <1>3, <3>1 DEF MailboxRow, CallRow, flags
    <3>4. [addr |-> box[m].addr, flags |-> flags] \in MailboxRow
      BY <3>1, <3>3 DEF MailboxRow
    <3> QED BY <3>1, <3>2, <3>4, NoneIsNoRow
  <2>5. ~({"admin", "active"} \subseteq flags)
    BY <2>1, <2>4 DEF ActiveAdmins
  <2>6. Takes(call[r])
    BY <2>1, <2>4, <2>5 DEF Takes, ActiveAdmins, flags
  <2> QED BY <2>1, <2>3, <2>6 DEF Standing, Stands
<1>6. ASSUME DestroyMailbox(r) PROVE Ends(r) /\ r \in bereft
  <2>1. call[r].row \in Ids /\ call[r].op = "remove" /\ call[r].at = "save" /\ Ends(r)
    BY <1>3, <1>6 DEF DestroyMailbox, Shape, Wrote, Ends
  <2>2. ActiveAdmins \ {call[r].row} = {}
    BY <1>3, <1>4, <1>6, <2>1 DEF DestroyMailbox, ActiveAdmins
  <2> QED BY <2>1, <2>2 DEF Standing, Stands, Takes
<1>7. ASSUME DropDomain(r) PROVE Ends(r) /\ r \in bereft
  <2>1. call[r].at = "drop" /\ call[r].op = "dropDomain" /\ Ends(r)
    BY <1>3, <1>7 DEF DropDomain, Shape, Wrote, Ends, CallRow, Ops
  <2>2. \A m \in ActiveAdmins : m \in AdminsOf(call[r].row)
    BY <1>3, <1>4, <1>7 DEF DropDomain, ActiveAdmins, AdminsOf
  <2>3. ActiveAdmins \ AdminsOf(call[r].row) = {}
    BY <2>2
  <2> QED BY <2>1, <2>3 DEF Standing, Stands
<1>8. ASSUME InsertMailbox(r) PROVE FALSE
  <2>1. PICK m \in Ids : box[m] = None /\ \A i \in Ids : i # m => box'[i] = box[i]
    BY <1>1, <1>3, <1>8 DEF InsertMailbox, FreshId, Refuse
  <2> QED BY <1>4, <2>1 DEF ActiveAdmins
<1> QED BY <1>2, <1>5, <1>6, <1>7, <1>8

\* The last active administrator goes only in a request during which another
\* one took an administrator away: assertNotLastAdmin and deleteDomain suffice
\* for requests that do not overlap, however many there are.
THEOREM LastAdminGoesOnlyByRace == Spec => LastAdminOnlyByRace
<1>1. Init => Standing
  BY DEF Init, Standing, Idle, Call
<1>2. Spec => [](WellFormed /\ Standing)
  BY <1>1, InitWellFormed, NextWellFormed, NextStanding, PTL DEF Spec
<1>3. WellFormed /\ Standing /\ [Next]_vars =>
        [ActiveAdmins # {} /\ ActiveAdmins' = {} =>
           \E r \in Requests : Ends(r) /\ r \in bereft]_vars
  BY RemovalIsRaced
<1> QED BY <1>2, <1>3, PTL DEF Spec, LastAdminOnlyByRace

-----------------------------------------------------------------------------
(* What a request that no other crossed may rely on. *)

Facts(c) ==
  /\ c.op = "create" /\ c.at = "insert" => ~HasAlias(c.addr)
  /\ c.op = "addAlias" /\ c.at \in {"pair", "dest", "insert"} /\ c.addr \in Addresses
       => ~HasMailbox(c.addr)
  /\ c.op \in {"addAlias", "catchAll"} /\ c.at \in {"insert", "clear"} /\ c.dest # None
       => ~IsSendOnly(c.dest)
  /\ c.op = "editAlias" /\ c.at = "save" /\ c.dest # None => ~IsSendOnly(c.dest)
  /\ c.op = "update" /\ box[c.row] # None => box[c.row].addr = c.addr
  /\ c.op = "update" /\ c.at = "save" /\ "receives" \in c.off \cap c.loaded
       => ~DeliversTo(c.addr)
  /\ c.op = "catchAll" /\ c.at = "insert" => \A d \in Addresses : ~HasPair(c.addr, d)

Knows == \A r \in Requests : call[r].op # "idle" /\ r \notin crossed => Facts(call[r])

LEMMA KnowsRead ==
  ASSUME WellFormed, Knows, NEW r \in Requests, NEW c \in CallRow,
         call' = [call EXCEPT ![r] = c], UNCHANGED tables,
         crossed' = crossed \/ crossed' = crossed \ {r},
         c.op # "idle" /\ r \notin crossed' => Facts(c)
  PROVE  Knows'
<1> SUFFICES ASSUME NEW q \in Requests, call'[q].op # "idle", q \notin crossed'
             PROVE  Facts(call[q])'
  BY DEF Knows
<1>1. \A k \in CallRow : Facts(k) => Facts(k)'
  BY DEF Facts, HasAlias, HasMailbox, IsSendOnly, DeliversTo, HasPair
<1>2. call'[q] \in CallRow /\ (q = r => call'[q] = c) /\ (q # r => call'[q] = call[q])
  BY DEF WellFormed, TypeOK
<1>3. Facts(call'[q])
  BY <1>2 DEF Knows
<1> HIDE DEF Facts
<1> QED BY <1>1, <1>2, <1>3

\* A write crosses every other request, so only its own facts are at stake.
LEMMA KnowsWrite ==
  ASSUME WellFormed, NEW r \in Requests, NEW c \in CallRow, Wrote(r, c),
         c.op # "idle" /\ r \notin crossed => Facts(c)'
  PROVE  Knows'
<1> SUFFICES ASSUME NEW q \in Requests, call'[q].op # "idle", q \notin crossed'
             PROVE  Facts(call[q])'
  BY DEF Knows
<1>1. (q = r => call'[q] = c) /\ (q # r => call'[q] = call[q])
  BY DEF WellFormed, TypeOK, Wrote
<1>2. q = r /\ r \notin crossed
  BY <1>1 DEF Wrote, ActiveRequests
<1> HIDE DEF Facts
<1>3. Facts(c)' /\ call'[q] = c
  BY <1>1, <1>2
<1> QED BY <1>3 DEF Facts

LEMMA KnowsBegin ==
  ASSUME WellFormed, Knows, NEW r \in Requests, NEW c \in CallRow, Begin(r, c), Facts(c)
  PROVE  Knows'
BY KnowsRead DEF Begin

LEMMA KnowsGo ==
  ASSUME WellFormed, Knows, NEW r \in Requests, NEW step \in Steps, Go(r, step),
         call[r].op # "idle",
         Facts(call[r]) => Facts([call[r] EXCEPT !.at = step])
  PROVE  Knows'
<1> DEFINE c == [call[r] EXCEPT !.at = step]
<1>1. c \in CallRow /\ call' = [call EXCEPT ![r] = c]
  BY DEF WellFormed, TypeOK, CallRow, Go
<1>2. r \notin crossed' => Facts(c)
  BY DEF Knows, Go
<1> HIDE DEF c
<1> QED BY <1>1, <1>2, KnowsRead DEF Go

LEMMA KnowsRefuse ==
  ASSUME WellFormed, Knows, NEW r \in Requests, Refuse(r)
  PROVE  Knows'
BY KnowsRead, IdleIsRow, Idle.op = "idle" DEF Refuse, Idle, Call

LEMMA StartKnows ==
  ASSUME WellFormed, Knows, NEW r \in Requests, Start(r)
  PROVE  Knows'
<1> USE DEF WellFormed, TypeOK
<1>1. ASSUME NEW m \in Ids, LoadForRemove(r, m) PROVE Knows'
  <2> DEFINE step == IF GuardsAdmin(box[m].flags) THEN "others" ELSE "save"
             c == Call("remove", step, m, None, None, box[m].flags, {}, {})
  <2>1. box[m].flags \in SUBSET Flags
    BY <1>1 DEF LoadForRemove, MailboxRow
  <2>2. c \in CallRow
    <3>1. step \in {"others", "save"}
      OBVIOUS
    <3> HIDE DEF step
    <3> QED BY <2>1, <3>1, RemoveIsRow
  <2>3. Facts(c)
    BY DEF Facts, Call
  <2> QED BY <1>1, <2>2, <2>3, KnowsBegin DEF LoadForRemove
<1>2. ASSUME NEW m \in Ids, NEW b \in Bodies, LoadForUpdate(r, m, b) PROVE Knows'
  <2> DEFINE c == Call("update", FirstStep(box[m].flags, b.off), m, box[m].addr, None,
                       box[m].flags, b.on, b.off)
  <2>1. FirstStep(box[m].flags, b.off) \in {"others", "aliases", "save"}
    BY DEF FirstStep, StepAfterOthers
  <2>2. b.on \in SUBSET Flags /\ b.off \in SUBSET Flags
    BY BodiesAreBodies
  <2>3. box[m].addr \in Addresses /\ box[m].flags \in SUBSET Flags
    BY <1>2 DEF LoadForUpdate, MailboxRow
  <2>4. c \in CallRow
    BY <2>1, <2>2, <2>3, UpdateIsRow
  <2>5. FirstStep(box[m].flags, b.off) = "save" => "receives" \notin b.off \cap box[m].flags
    BY DEF FirstStep, StepAfterOthers
  <2>6. Facts(c)
    BY <2>5 DEF Facts, Call
  <2> QED BY <1>2, <2>4, <2>6, KnowsBegin DEF LoadForUpdate
<1>3. ASSUME NEW d \in Domains, CreateDomain(r, d) PROVE Knows'
  <2>1. Wrote(r, Idle) /\ Idle.op = "idle"
    BY <1>3 DEF CreateDomain, Idle, Call
  <2> QED BY <2>1, KnowsWrite, IdleIsRow
<1>4. ASSUME NEW d \in Domains, LoadForDrop(r, d) PROVE Knows'
  <2> DEFINE c == Call("dropDomain", "total", d, None, None, {}, {}, {})
  <2>1. c \in CallRow
    BY DropIsRow
  <2>2. Facts(c)
    BY DEF Facts, Call
  <2> QED BY <1>4, <2>1, <2>2, KnowsBegin DEF LoadForDrop
<1>5. ASSUME NEW d \in Domains, NEW dest \in Addresses \cup {None}, LoadForCatchAll(r, d, dest)
      PROVE  Knows'
  <2> DEFINE step == IF dest = None THEN "clear" ELSE "dest"
             c == Call("catchAll", step, d, CatchAll(d), dest, {}, {}, {})
  <2>1. CatchAll(d) \in Sources
    BY DEF Sources
  <2>2. c \in CallRow
    <3>1. step \in {"clear", "dest"}
      OBVIOUS
    <3> HIDE DEF step
    <3> QED BY <2>1, <3>1, CatchAllIsRow
  <2>3. Facts(c)
    BY DEF Facts, Call
  <2> QED BY <1>5, <2>2, <2>3, KnowsBegin DEF LoadForCatchAll
<1>6. ASSUME NEW d \in Domains, NEW l \in Locals, NEW flags \in NewFlags,
             LoadForCreate(r, d, l, flags)
      PROVE  Knows'
  <2> DEFINE c == Call("create", "email", d, <<l, d>>, None, {}, flags, {})
  <2>1. <<l, d>> \in Sources /\ flags \in SUBSET Flags
    BY NewFlagsAreFlags DEF Addresses, Sources, Flags
  <2>2. c \in CallRow
    BY <2>1, CreateIsRow
  <2>3. Facts(c)
    BY DEF Facts, Call
  <2> QED BY <1>6, <2>2, <2>3, KnowsBegin DEF LoadForCreate
<1>7. ASSUME NEW d \in Domains, NEW s \in Sources, NEW dest \in Addresses,
             LoadForAddAlias(r, d, s, dest)
      PROVE  Knows'
  <2> DEFINE step == IF s = CatchAll(d) THEN "pair" ELSE "source"
             c == Call("addAlias", step, d, s, dest, {}, {}, {})
  <2>1. c \in CallRow
    <3>1. step \in {"pair", "source"}
      OBVIOUS
    <3> HIDE DEF step
    <3> QED BY <3>1, AddAliasIsRow
  <2>2. CatchAll(d) \notin Addresses
    BY NoneIsNothing DEF CatchAll, Addresses
  <2>3. Facts(c)
    BY <2>2 DEF Facts, Call
  <2> QED BY <1>7, <2>1, <2>3, KnowsBegin DEF LoadForAddAlias
<1>8. ASSUME NEW a \in AliasIds, LoadForRemoveAlias(r, a) PROVE Knows'
  <2> DEFINE c == Call("removeAlias", "save", a, None, None, {}, {}, {})
  <2>1. c \in CallRow
    BY RemoveAliasIsRow
  <2>2. Facts(c)
    BY DEF Facts, Call
  <2> QED BY <1>8, <2>1, <2>2, KnowsBegin DEF LoadForRemoveAlias
<1>9. ASSUME NEW a \in AliasIds, NEW dest \in Addresses \cup {None}, NEW b \in Bodies,
             LoadForEdit(r, a, dest, b)
      PROVE  Knows'
  <2> DEFINE new == IF dest = alias[a].dest THEN None ELSE dest
             step == IF new = None THEN "save" ELSE "dest"
             c == Call("editAlias", step, a, None, new, alias[a].flags, b.on, b.off)
  <2>1. alias[a].flags \in SUBSET Flags
    BY <1>9 DEF LoadForEdit, AliasRow, Flags
  <2>2. b.on \in SUBSET Flags /\ b.off \in SUBSET Flags
    BY BodiesAreBodies
  <2>3. c \in CallRow
    <3>1. new \in Addresses \cup {None} /\ step \in {"save", "dest"}
      OBVIOUS
    <3> HIDE DEF new, step
    <3> QED BY <2>1, <2>2, <3>1, EditIsRow
  <2>4. Facts(c)
    BY DEF Facts, Call
  <2> QED BY <1>9, <2>3, <2>4, KnowsBegin DEF LoadForEdit
<1> QED
  BY <1>1, <1>2, <1>3, <1>4, <1>5, <1>6, <1>7, <1>8, <1>9
     DEF Start, MailboxRequest, DomainRequest, AliasRequest

LEMMA CheckKnows ==
  ASSUME WellFormed, Knows, NEW r \in Requests, Check(r)
  PROVE  Knows'
<1>0. call[r] \in CallRow /\ Shape(call[r])
  BY DEF WellFormed, TypeOK, Shapes
<1>a. ASSUME NEW step \in Steps
      PROVE  LET c == [call[r] EXCEPT !.at = step]
             IN  /\ c.at = step /\ c.op = call[r].op /\ c.row = call[r].row
                 /\ c.addr = call[r].addr /\ c.dest = call[r].dest
                 /\ c.off = call[r].off /\ c.loaded = call[r].loaded
  BY <1>0 DEF CallRow
<1>1. ASSUME CountOthers(r) PROVE Knows'
  <2> DEFINE step == IF call[r].op = "remove" THEN "save"
                     ELSE StepAfterOthers(call[r].loaded, call[r].off)
  <2>1. call[r].op \in {"update", "remove"} /\ step \in Steps
    BY <1>0, <1>1 DEF CountOthers, Shape, CallRow, Ops, StepAfterOthers, Steps
  <2>2. step = "save" /\ call[r].op = "update" => "receives" \notin call[r].off \cap call[r].loaded
    BY DEF StepAfterOthers
  <2> HIDE DEF step
  <2>3. Facts(call[r]) => Facts([call[r] EXCEPT !.at = step])
    BY <1>a, <2>1, <2>2 DEF Facts
  <2> QED BY <1>1, <2>1, <2>3, KnowsGo, KnowsRefuse DEF CountOthers, step
<1>2. ASSUME FindAliases(r) PROVE Knows'
  <2>1. call[r].op = "update" /\ "save" \in Steps
    BY <1>0, <1>2 DEF FindAliases, Shape, CallRow, Ops, Steps
  <2>2. CASE ~DeliversTo(call[r].addr)
    <3>1. Facts(call[r]) => Facts([call[r] EXCEPT !.at = "save"])
      BY <1>a, <2>1, <2>2 DEF Facts
    <3> QED BY <1>2, <2>1, <2>2, <3>1, KnowsGo DEF FindAliases
  <2> QED BY <1>2, <2>2, KnowsRefuse DEF FindAliases
<1>3. ASSUME CountAdmins(r) PROVE Knows'
  <2> DEFINE c == [call[r] EXCEPT !.at = "here", !.total = Cardinality(ActiveAdmins)]
  <2>1. c \in CallRow /\ c.at = "here" /\ c.op = call[r].op
    BY <1>0, AdminsFinite DEF CallRow, Steps
  <2>2. call' = [call EXCEPT ![r] = c]
    BY <1>3 DEF CountAdmins, WellFormed, TypeOK
  <2>3. call[r].op = "dropDomain"
    BY <1>0, <1>3 DEF CountAdmins, Shape, CallRow, Ops
  <2> HIDE DEF c
  <2>4. Facts(c)
    BY <2>1, <2>3 DEF Facts
  <2> QED BY <1>3, <2>1, <2>2, <2>4, KnowsRead DEF CountAdmins
<1>4. ASSUME CountHere(r) PROVE Knows'
  <2>1. call[r].op = "dropDomain" /\ "drop" \in Steps
    BY <1>0, <1>4 DEF CountHere, Shape, CallRow, Ops, Steps
  <2>2. Facts([call[r] EXCEPT !.at = "drop"])
    BY <1>a, <2>1 DEF Facts
  <2> QED BY <1>4, <2>1, <2>2, KnowsGo, KnowsRefuse DEF CountHere
<1>5. ASSUME CheckEmail(r) PROVE Knows'
  <2>1. call[r].op = "create" /\ "source" \in Steps
    BY <1>0, <1>5 DEF CheckEmail, Shape, CallRow, Ops, Steps
  <2>2. Facts([call[r] EXCEPT !.at = "source"])
    BY <1>a, <2>1 DEF Facts
  <2> QED BY <1>5, <2>1, <2>2, KnowsGo, KnowsRefuse DEF CheckEmail
<1>6. ASSUME CheckSource(r) PROVE Knows'
  <2>1. call[r].op \in {"create", "addAlias"} /\ {"insert", "pair"} \subseteq Steps
    BY <1>0, <1>6 DEF CheckSource, Shape, CallRow, Ops, Steps
  <2>2. CASE call[r].op = "create" /\ ~HasAlias(call[r].addr)
    <3>1. Facts([call[r] EXCEPT !.at = "insert"])
      BY <1>a, <2>1, <2>2 DEF Facts
    <3> QED BY <1>6, <2>1, <2>2, <3>1, KnowsGo DEF CheckSource
  <2>3. CASE call[r].op = "addAlias" /\ ~HasMailbox(call[r].addr)
    <3>1. Facts([call[r] EXCEPT !.at = "pair"])
      BY <1>a, <2>1, <2>3 DEF Facts
    <3> QED BY <1>6, <2>1, <2>3, <3>1, KnowsGo DEF CheckSource
  <2> QED BY <1>6, <2>1, <2>2, <2>3, KnowsRefuse DEF CheckSource
<1>7. ASSUME CheckPair(r) PROVE Knows'
  <2>1. call[r].op = "addAlias" /\ call[r].at = "pair" /\ "dest" \in Steps
    BY <1>0, <1>7 DEF CheckPair, Shape, CallRow, Ops, Steps
  <2>2. Facts(call[r]) => Facts([call[r] EXCEPT !.at = "dest"])
    BY <1>a, <2>1 DEF Facts
  <2> QED BY <1>7, <2>1, <2>2, KnowsGo, KnowsRefuse DEF CheckPair
<1>8. ASSUME CheckDestination(r) PROVE Knows'
  <2> DEFINE step == AfterDestination(call[r].op)
  <2>1. /\ call[r].op \in {"addAlias", "catchAll", "editAlias"} /\ call[r].at = "dest"
        /\ step \in Steps
        /\ call[r].op = "addAlias" => step = "insert"
        /\ call[r].op = "catchAll" => step = "clear"
    BY <1>0, <1>8 DEF CheckDestination, Shape, CallRow, Ops, Steps, AfterDestination
  <2> HIDE DEF step
  <2>2. CASE ~IsSendOnly(call[r].dest)
    <3>1. Facts(call[r]) => Facts([call[r] EXCEPT !.at = step])
      BY <1>a, <2>1, <2>2 DEF Facts
    <3> QED BY <1>8, <2>1, <2>2, <3>1, KnowsGo DEF CheckDestination, step
  <2> QED BY <1>8, <2>2, KnowsRefuse DEF CheckDestination
<1> QED BY <1>1, <1>2, <1>3, <1>4, <1>5, <1>6, <1>7, <1>8 DEF Check

LEMMA WriteKnows ==
  ASSUME WellFormed, Knows, NEW r \in Requests, Write(r)
  PROVE  Knows'
<1>0. /\ call[r] \in CallRow /\ Shape(call[r]) /\ alias \in [AliasIds -> AliasRow \cup {None}]
      /\ Idle.op = "idle" /\ Idle \in CallRow
  BY IdleIsRow DEF WellFormed, TypeOK, Shapes, Idle, Call
<1>1. ASSUME Wrote(r, Idle) PROVE Knows'
  BY <1>0, <1>1, KnowsWrite
<1>2. ASSUME ClearCatchAll(r) PROVE Knows'
  <2>1. (IF call[r].dest = None THEN Idle ELSE [call[r] EXCEPT !.at = "insert"]) \in CallRow
    BY <1>0 DEF CallRow, Steps
  <2>2. PICK c \in CallRow :
          c = IF call[r].dest = None THEN Idle ELSE [call[r] EXCEPT !.at = "insert"]
    BY <2>1
  <2>3. Wrote(r, c)
    BY <1>2, <2>2 DEF ClearCatchAll
  <2>4. ASSUME c.op # "idle", r \notin crossed PROVE Facts(c)'
    <3>1. /\ c.op = "catchAll" /\ c.at = "insert" /\ c.dest # None /\ call[r].at = "clear"
          /\ c.dest = call[r].dest /\ c.addr = call[r].addr /\ call[r].op = "catchAll"
      BY <1>0, <1>2, <2>2, <2>4 DEF ClearCatchAll, CallRow, Shape, Ops
    <3>2. ~IsSendOnly(c.dest) /\ UNCHANGED box
      BY <1>2, <2>4, <3>1 DEF Knows, Facts, ClearCatchAll
    <3>3. \A a \in AliasIds : alias'[a] # None => alias'[a].source # c.addr
      BY <1>0, <1>2, <3>1 DEF ClearCatchAll
    <3> QED BY <3>1, <3>2, <3>3 DEF Facts, IsSendOnly, HasPair
  <2> QED BY <2>3, <2>4, KnowsWrite
<1> QED
  BY <1>1, <1>2, KnowsRefuse DEF Write, SaveMailbox, DestroyMailbox, DropDomain, InsertMailbox,
     InsertAlias, SaveAlias, DestroyAlias

LEMMA NextKnows ==
  ASSUME WellFormed, Knows, [Next]_vars
  PROVE  Knows'
<1>1. CASE UNCHANGED vars
  <2>1. UNCHANGED <<box, alias, call, crossed>>
    BY <1>1 DEF vars
  <2>2. \A q \in Requests : Facts(call[q]) => Facts(call[q])'
    BY <2>1 DEF Facts, HasAlias, HasMailbox, IsSendOnly, DeliversTo, HasPair
  <2> HIDE DEF Facts
  <2> QED BY <2>1, <2>2 DEF Knows
<1>2. CASE AppRestart
  BY <1>2 DEF AppRestart, Knows, Idle, Call
<1> QED BY <1>1, <1>2, StartKnows, CheckKnows, WriteKnows DEF Next

LEMMA SpecKnows == Spec => [](WellFormed /\ Knows)
<1>1. Init => Knows
  BY DEF Init, Knows, Idle, Call
<1> QED BY <1>1, InitWellFormed, NextWellFormed, NextKnows, PTL DEF Spec

\* Only a write changes mailboxes or aliases.
LEMMA OnlyWrites ==
  ASSUME [Next]_vars
  PROVE  UNCHANGED <<box, alias>> \/ \E r \in Requests : Write(r)
<1>1. \A r \in Requests : Start(r) => UNCHANGED <<box, alias>>
  BY StartReads
<1>2. \A r \in Requests : Check(r) => UNCHANGED <<box, alias>>
  BY DEF Check, CountOthers, FindAliases, CountAdmins, CountHere, CheckEmail, CheckSource,
         CheckPair, CheckDestination, Go, Refuse
<1> QED BY <1>1, <1>2 DEF Next, AppRestart

\* A write whose request goes on as idle ends it.
LEMMA WroteEnds ==
  ASSUME WellFormed, NEW r \in Requests, call[r].op # "idle", Wrote(r, Idle)
  PROVE  Ends(r)
BY DEF Ends, Wrote, WellFormed, TypeOK, Idle, Call

\* The two rows under one address: who inserts the second had looked for the
\* first.
LEMMA ClashStep ==
  ASSUME WellFormed, Knows, NEW r \in Requests, Write(r), NEW s \in Addresses,
         s \in Clash', s \notin Clash
  PROVE  Ends(r) /\ r \in crossed
<1>0. /\ call[r] \in CallRow /\ Shape(call[r])
      /\ box \in [Ids -> MailboxRow \cup {None}]
      /\ alias \in [AliasIds -> AliasRow \cup {None}]
  BY DEF WellFormed, TypeOK, Shapes
<1>1. HasMailbox(s)' /\ HasAlias(s)' /\ ~(HasMailbox(s) /\ HasAlias(s))
  BY DEF Clash
<1>2. ASSUME \A m \in Ids : box'[m] = None \/ (box[m] # None /\ box'[m].addr = box[m].addr),
             \A a \in AliasIds :
               alias'[a] = None \/ (alias[a] # None /\ alias'[a].source = alias[a].source)
      PROVE  FALSE
  BY <1>1, <1>2 DEF HasMailbox, HasAlias
<1>3. ASSUME SaveMailbox(r) PROVE FALSE
  <2> DEFINE flags == (box[call[r].row].flags \ (call[r].off \cap call[r].loaded))
                      \cup (call[r].on \ call[r].loaded)
  <2>1. UNCHANGED alias /\ (box' = box \/ (box[call[r].row] # None
                              /\ box' = [box EXCEPT ![call[r].row].flags = flags]))
    BY <1>3 DEF SaveMailbox
  <2> HIDE DEF flags
  <2>2. ASSUME NEW m \in Ids, box'[m] # None
        PROVE  box[m] # None /\ box'[m].addr = box[m].addr
    <3>1. CASE box[m] \in MailboxRow
      BY <1>0, <2>1, <2>2, <3>1, NoneIsNoRow DEF MailboxRow
    <3>2. CASE box[m] = None
      BY <1>0, <2>1, <2>2, <3>2
    <3> QED BY <1>0, <3>1, <3>2
  <2> QED BY <1>2, <2>1, <2>2
<1>4. ~DestroyMailbox(r)
  BY <1>0, <1>2 DEF DestroyMailbox
<1>5. ~DropDomain(r)
  BY <1>0, <1>2 DEF DropDomain
<1>6. ~ClearCatchAll(r)
  BY <1>0, <1>2 DEF ClearCatchAll
<1>7. ~DestroyAlias(r)
  BY <1>0, <1>2 DEF DestroyAlias
<1>8. ASSUME SaveAlias(r) PROVE FALSE
  BY <1>0, <1>2, <1>8 DEF SaveAlias, Refuse
<1>9. ASSUME InsertMailbox(r) PROVE Ends(r) /\ r \in crossed
  <2>1. Wrote(r, Idle) /\ UNCHANGED alias /\ call[r].op = "create" /\ call[r].at = "insert"
    BY <1>1, <1>9 DEF InsertMailbox, Refuse, HasMailbox, HasAlias
  <2>2. \A m \in Ids : box'[m] = None \/ (box[m] # None /\ box'[m] = box[m])
                       \/ box'[m].addr = call[r].addr
    BY <1>0, <1>9 DEF InsertMailbox, Refuse, FreshId
  <2>3. HasAlias(s) /\ s = call[r].addr
    BY <1>1, <2>1, <2>2 DEF HasMailbox, HasAlias
  <2> QED BY <2>1, <2>3, WroteEnds DEF Knows, Facts
<1>10. ASSUME InsertAlias(r) PROVE Ends(r) /\ r \in crossed
  <2>1. Wrote(r, Idle) /\ UNCHANGED box /\ call[r].op \in {"addAlias", "catchAll"}
        /\ call[r].at = "insert"
    BY <1>1, <1>10 DEF InsertAlias, Refuse, HasMailbox, HasAlias
  <2>2. \A a \in AliasIds : alias'[a] = None \/ (alias[a] # None /\ alias'[a] = alias[a])
                       \/ alias'[a].source = call[r].addr
    BY <1>0, <1>10 DEF InsertAlias, Refuse, FreshAlias
  <2>3. HasMailbox(s) /\ s = call[r].addr
    BY <1>1, <2>1, <2>2 DEF HasMailbox, HasAlias
  <2>4. call[r].op = "addAlias"
    BY <1>0, <2>1, <2>3 DEF Shape
  <2> QED BY <2>1, <2>3, <2>4, WroteEnds DEF Knows, Facts
<1> QED BY <1>3, <1>4, <1>5, <1>6, <1>7, <1>8, <1>9, <1>10 DEF Write

\* An address becomes both a mailbox and an alias only in a request that
\* another one crossed: createMailbox and createAlias look for each other's row.
THEOREM AddressesClashByRaceOnly == Spec => AddressesClashOnlyByRace
<1>1. WellFormed /\ Knows /\ [Next]_vars =>
        [Clash' \subseteq Clash \/ \E r \in Requests : Ends(r) /\ r \in crossed]_vars
  <2> SUFFICES ASSUME WellFormed, Knows, [Next]_vars, ~(Clash' \subseteq Clash)
               PROVE  \E r \in Requests : Ends(r) /\ r \in crossed
    OBVIOUS
  <2>1. PICK s \in Addresses : s \in Clash' /\ s \notin Clash
    BY DEF Clash
  <2>2. ~UNCHANGED <<box, alias>>
    BY <2>1 DEF Clash, HasMailbox, HasAlias
  <2> QED BY <2>1, <2>2, OnlyWrites, ClashStep
<1> QED BY <1>1, SpecKnows, PTL DEF Spec, AddressesClashOnlyByRace

\* A destination newly skipped: its request had looked, or did not look at all
\* (a new mailbox, an alias switched on).
LEMMA SkippedStep ==
  ASSUME WellFormed, Knows, NEW r \in Requests, Write(r),
         NEW a \in AliasIds, NEW d \in Addresses,
         <<a, d>> \in Skipped', <<a, d>> \notin Skipped
  PROVE  /\ Ends(r)
         /\ \/ r \in crossed
            \/ call[r].op = "create"
            \/ call[r].op = "editAlias" /\ call[r].dest = None
<1>0. /\ call[r] \in CallRow /\ Shape(call[r])
      /\ box \in [Ids -> MailboxRow \cup {None}]
      /\ alias \in [AliasIds -> AliasRow \cup {None}]
  BY DEF WellFormed, TypeOK, Shapes
<1> DEFINE On(x) == x # None /\ x.dest = d /\ "active" \in x.flags
           Sends(y) == y # None /\ y.addr = d /\ "receives" \notin y.flags
<1>1. /\ On(alias'[a]) /\ IsSendOnly(d)'
      /\ ~(On(alias[a]) /\ IsSendOnly(d))
  BY DEF Skipped
<1>2. PICK m \in Ids : Sends(box'[m])
  BY <1>1 DEF IsSendOnly
<1>3. ~(On(alias[a]) /\ Sends(box[m]))
  BY <1>1 DEF IsSendOnly
<1> HIDE DEF On, Sends
<1>4. alias'[a] # alias[a] \/ box'[m] # box[m]
  BY <1>1, <1>2, <1>3
<1>5. alias'[a] # None /\ box'[m] # None
  BY <1>1, <1>2 DEF On, Sends
<1>6. CASE SaveMailbox(r)
  <2> DEFINE flags == (box[m].flags \ (call[r].off \cap call[r].loaded))
                      \cup (call[r].on \ call[r].loaded)
  <2>1. /\ UNCHANGED alias /\ box[m] # None /\ m = call[r].row /\ m \in Ids
        /\ box' = [box EXCEPT ![m].flags = flags]
        /\ call[r].op = "update" /\ call[r].at = "save" /\ Wrote(r, Idle)
    BY <1>0, <1>4, <1>6 DEF SaveMailbox
  <2>2. box[m] \in MailboxRow
    BY <1>0, <2>1
  <2>3. box'[m] = [addr |-> box[m].addr, flags |-> flags]
    BY <1>0, <2>1, <2>2 DEF MailboxRow
  <2>4. box[m].addr = d /\ "receives" \notin flags
    BY <1>2, <2>3 DEF Sends
  <2>5. On(alias[a]) /\ "receives" \in box[m].flags
    BY <1>1, <1>3, <2>1, <2>4 DEF Sends
  <2>6. "receives" \in call[r].off \cap call[r].loaded /\ DeliversTo(d)
    BY <2>4, <2>5 DEF DeliversTo, On
  <2>7. r \in crossed
    BY <2>1, <2>4, <2>6 DEF Knows, Facts
  <2> QED BY <2>1, <2>7, WroteEnds
<1>7. CASE InsertMailbox(r)
  <2>1. Wrote(r, Idle) /\ call[r].op = "create"
    BY <1>4, <1>7 DEF InsertMailbox, Refuse
  <2> QED BY <2>1, WroteEnds
<1>8. CASE InsertAlias(r)
  <2>1. /\ Wrote(r, Idle) /\ UNCHANGED box /\ call[r].op \in {"addAlias", "catchAll"}
        /\ call[r].at = "insert" /\ alias'[a].dest = call[r].dest
    BY <1>0, <1>4, <1>8 DEF InsertAlias, Refuse
  <2>2. call[r].dest = d /\ d # None /\ IsSendOnly(d)
    BY <1>0, <1>1, <2>1, NoneIsNothing DEF On, IsSendOnly, Addresses
  <2>3. r \in crossed
    BY <2>1, <2>2 DEF Knows, Facts
  <2> QED BY <2>1, <2>3, WroteEnds
<1>9. CASE SaveAlias(r)
  <2>1. /\ Wrote(r, Idle) /\ UNCHANGED box /\ call[r].op = "editAlias" /\ call[r].at = "save"
        /\ call[r].dest # None => alias'[a].dest = call[r].dest
    BY <1>0, <1>4, <1>9 DEF SaveAlias, Refuse
  <2>2. CASE call[r].dest = None
    BY <2>1, <2>2, WroteEnds
  <2>3. CASE call[r].dest # None
    <3>1. call[r].dest = d /\ IsSendOnly(d)
      BY <1>1, <2>1, <2>3 DEF On, IsSendOnly
    <3>2. r \in crossed
      BY <2>1, <2>3, <3>1 DEF Knows, Facts
    <3> QED BY <2>1, <3>2, WroteEnds
  <2> QED BY <2>2, <2>3
<1>10. ~DestroyMailbox(r) /\ ~DropDomain(r) /\ ~ClearCatchAll(r) /\ ~DestroyAlias(r)
  BY <1>0, <1>4, <1>5 DEF DestroyMailbox, DropDomain, ClearCatchAll, DestroyAlias
<1> QED BY <1>6, <1>7, <1>8, <1>9, <1>10 DEF Write

\* An active alias comes to deliver to a send-only mailbox only by a race, by
\* creating the mailbox, or by switching the alias on: the two cases that
\* neither assertReceivingDestination nor updateMailbox looks at.
THEOREM SkippedOnlyThroughGaps == Spec => SkippedOnlyThrough
<1>1. WellFormed /\ Knows /\ [Next]_vars =>
        [Skipped' \subseteq Skipped \/ \E r \in Requests :
           /\ Ends(r)
           /\ \/ r \in crossed
              \/ call[r].op = "create"
              \/ call[r].op = "editAlias" /\ call[r].dest = None]_vars
  <2> SUFFICES ASSUME WellFormed, Knows, [Next]_vars, ~(Skipped' \subseteq Skipped)
               PROVE  \E r \in Requests :
                        /\ Ends(r)
                        /\ \/ r \in crossed
                           \/ call[r].op = "create"
                           \/ call[r].op = "editAlias" /\ call[r].dest = None
    OBVIOUS
  <2>1. PICK a \in AliasIds, d \in Addresses : <<a, d>> \in Skipped' /\ <<a, d>> \notin Skipped
    BY DEF Skipped
  <2>2. ~UNCHANGED <<box, alias>>
    BY <2>1 DEF Skipped, IsSendOnly
  <2> QED BY <2>1, <2>2, OnlyWrites, SkippedStep
<1> QED BY <1>1, SpecKnows, PTL DEF Spec, SkippedOnlyThrough

\* A catch-all request that ends with a write leaves its destination alone.
LEMMA CatchAllStep ==
  ASSUME WellFormed, Knows, [Next]_vars, NEW r \in Requests, NEW s \in Sources,
         Ends(r), call[r].op = "catchAll", alias' # alias, r \notin crossed, s = call[r].addr
  PROVE  Destinations(s)' = {call[r].dest} \ {None}
<1>0. /\ call[r] \in CallRow /\ Shape(call[r]) /\ call \in [Requests -> CallRow]
      /\ alias \in [AliasIds -> AliasRow \cup {None}]
  BY DEF WellFormed, TypeOK, Shapes
<1>1. PICK q \in Requests : Write(q)
  BY OnlyWrites
<1>2. q = r
  <2>1. q # r => call'[r] = call[r]
    BY <1>0, <1>1 DEF Write, SaveMailbox, DestroyMailbox, DropDomain, ClearCatchAll, InsertMailbox,
       InsertAlias, SaveAlias, DestroyAlias, Wrote, Refuse
  <2> QED BY <2>1 DEF Ends
<1>3. ClearCatchAll(r) \/ InsertAlias(r)
  BY <1>0, <1>1, <1>2 DEF Write, SaveMailbox, DestroyMailbox, DropDomain, InsertMailbox,
     SaveAlias, DestroyAlias, Shape
<1>4. CASE ClearCatchAll(r)
  <2>1. call[r].dest = None
    BY <1>0, <1>4 DEF ClearCatchAll, Wrote, Ends, CallRow
  <2>2. \A a \in AliasIds : alias'[a] # None => alias'[a].source # s
    BY <1>0, <1>4 DEF ClearCatchAll
  <2> QED BY <2>1, <2>2 DEF Destinations, HasPair
<1>5. CASE InsertAlias(r)
  <2>1. PICK a \in AliasIds :
          alias' = [alias EXCEPT ![a] = [source |-> call[r].addr, dest |-> call[r].dest,
                                         flags |-> {"active"}]]
    BY <1>5 DEF InsertAlias, Refuse
  <2>2. call[r].dest \in Addresses /\ call[r].at = "insert"
    BY <1>0, <1>5 DEF InsertAlias, Shape
  <2>3. \A d \in Addresses : ~HasPair(s, d)
    BY <2>2 DEF Knows, Facts
  <2>4. \A i \in AliasIds : alias[i] # None => alias[i].source # s
    BY <1>0, <2>3 DEF HasPair, AliasRow
  <2>5. call[r].dest # None /\ alias'[a].source = s /\ alias'[a].dest = call[r].dest
    BY <1>0, <2>1, <2>2, NoneIsNothing DEF Addresses
  <2>6. alias'[a] # None
    BY <1>0, <2>1, <2>2, NoneIsNoRow DEF AliasRow, Shape
  <2>7. \A i \in AliasIds : i # a => alias'[i] = alias[i]
    BY <1>0, <2>1
  <2>8. \A d \in Addresses : HasPair(s, d)' <=> d = call[r].dest
    BY <2>4, <2>5, <2>6, <2>7 DEF HasPair
  <2> QED BY <2>2, <2>5, <2>8 DEF Destinations
<1> QED BY <1>3, <1>4, <1>5

\* Setting a catch-all replaces every catch-all of the domain, unless another
\* request crossed it between its two statements or before.
THEOREM CatchAllIsReplaced == Spec => CatchAllReplaces
<1>1. WellFormed /\ Knows /\ [Next]_vars =>
        [\A r \in Requests :
           Ends(r) /\ call[r].op = "catchAll" /\ alias' # alias /\ r \notin crossed
           => \A s \in Sources : s = call[r].addr => Destinations(s)' = {call[r].dest} \ {None}]_vars
  BY CatchAllStep
<1> QED BY <1>1, SpecKnows, PTL DEF Spec, CatchAllReplaces

-----------------------------------------------------------------------------
(* MailLog: the invariant.                                                  *)

Lines == 1 .. Len(log)
Outcome(i, m) == log[i].m = m /\ log[i].kind \in {"delivery", "reject"}
Begins(i, m) == log[i].m = m /\ log[i].kind \in {"client", "pickup"}
Queued(i, m) == log[i].m = m /\ log[i].kind = "queued"
Closes(i, m) == log[i].m = m /\ log[i].kind \in {"removed", "deleted"}

\* What the first n lines tell of m.
ToldOf(n, m) == UNION {Tells(log[j].kind) : j \in {k \in 1 .. n : log[k].m = m}}

LineInv ==
  \A i \in Lines :
    /\ log[i].kind = "delivery" => log[i].status \in {"delivered", "deferred", "bounced"}
    /\ log[i].kind = "reject" => log[i].status = "rejected"
    /\ log[i].kind \in {"delivery", "reject"} => log[i].to \in Recipients
    /\ log[i].m = Null => log[i].kind = "reject"

\* A message begins with the line of smtpd or pickup.
BeginInv(m) ==
  /\ stage[m] = "new" => \A i \in Lines : log[i].m # m
  /\ stage[m] # "new" => \E f \in Lines : Begins(f, m)
  /\ \A j \in Lines : log[j].m = m => \E f \in 1 .. j : Begins(f, m)
  /\ \A i \in Lines : Begins(i, m) => \A j \in 1 .. i - 1 : log[j].m # m

\* It is tried when qmgr has queued it; what is refused is refused once, and not tried.
QueuedInv(m) ==
  /\ stage[m] \in {"new", "cleanup", "incoming"} => todo[m] = {} /\ \A i \in Lines : ~Outcome(i, m)
  /\ stage[m] \in {"active", "deferred", "expired"} \/ todo[m] # {} => \E q \in Lines : Queued(q, m)
  /\ \A i \in Lines : Outcome(i, m) =>
       \/ log[i].kind = "delivery" /\ \E q \in 1 .. i - 1 : Queued(q, m)
       \/ /\ log[i].kind = "reject" /\ stage[m] = "gone"
          /\ m \in late \/ \A j \in Lines : Outcome(j, m) => j = i

\* After the first outcome no line tells anything new of the message.
AllToldInv(m) ==
  \A i, j \in Lines : Outcome(i, m) /\ log[j].m = m => Tells(log[j].kind) \subseteq ToldOf(i, m)

\* No outcome follows the end of a message, but for those known to be late.
ClosedInv(m) ==
  \A i \in Lines : Closes(i, m) =>
    stage[m] = "gone" /\ (m \in late \/ \A j \in i + 1 .. Len(log) : ~Outcome(j, m))

\* The lines leave r waiting.
Pending(m, r) ==
  \E i \in Lines :
    /\ Says(i, m, r) /\ log[i].status = "deferred"
    /\ \A j \in i + 1 .. Len(log) : ~Says(j, m, r) /\ ~GivesUp(j, m)

WaitInv(m) ==
  /\ todo[m] \subseteq left[m]
  /\ \A r \in Recipients \ left[m] : ~Pending(m, r)
  /\ stage[m] \in {"deferred", "expired"} => todo[m] = {}
  /\ stage[m] = "expired" \/ (stage[m] = "gone" /\ m \notin late) => \A r \in Recipients : ~Pending(m, r)

LinesInv ==
  /\ LineInv
  /\ \A m \in Messages : BeginInv(m) /\ QueuedInv(m) /\ AllToldInv(m) /\ ClosedInv(m) /\ WaitInv(m)

\* A row was made by a line that was handled, and there is one of each recipient.
RowInv ==
  /\ \A i \in DOMAIN mail_log :
       /\ mail_log[i].queueId = Null => mail_log[i].status = "rejected"
       /\ mail_log[i].queueId # Null =>
            \E j \in 1 .. seen : Says(j, mail_log[i].queueId, mail_log[i].recipient)
  /\ \A i, j \in DOMAIN mail_log :
       mail_log[i].queueId # Null /\ mail_log[i].queueId = mail_log[j].queueId
         /\ mail_log[i].recipient = mail_log[j].recipient => i = j

\* s is what the first n lines leave r with.
LeavesWith(n, m, r, s) ==
  \/ s = Null /\ \A i \in 1 .. n : ~Says(i, m, r)
  \/ \E i \in 1 .. n :
       /\ Says(i, m, r) /\ \A j \in i + 1 .. n : ~Says(j, m, r)
       /\ \/ s = log[i].status /\ (s = "deferred" => \A j \in i + 1 .. n : ~GivesUp(j, m))
          \/ /\ log[i].status = "deferred"
             /\ \E e \in i + 1 .. n :
                  GivesUp(e, m) /\ s = log[e].kind /\ \A j \in i + 1 .. e - 1 : ~GivesUp(j, m)

\* Lines k + 1 to n, applied to a row whose status is s (Null: no row), leave it with t.
Leads(k, n, m, r, s, t) ==
  \/ \E i \in k + 1 .. n : Says(i, m, r)
  \/ s = t /\ (s = "deferred" => \A j \in k + 1 .. n : ~GivesUp(j, m))
  \/ /\ s = "deferred"
     /\ \E e \in k + 1 .. n :
          GivesUp(e, m) /\ t = log[e].kind /\ \A j \in k + 1 .. e - 1 : ~GivesUp(j, m)

\* What line p makes of a status.
Turns(p, m, r, s) ==
  IF Says(p, m, r) THEN log[p].status
  ELSE IF GivesUp(p, m) /\ s = "deferred" THEN log[p].kind
  ELSE s

\* From wherever a restart may begin, the lines that were read lead to what they say.
ReplayInv(m, r) ==
  \E t \in Outcomes \cup {"expired", "deleted", Null} :
    /\ LeavesWith(seen, m, r, t)
    /\ \A k \in 0 .. pos : Leads(k, seen, m, r, StatusIn(m, r), t)

\* Nothing was lost of the message that this invariant is about.
Whole(m) == m \notin lost \cup half \cup skipped \cup late

KnowInv(m) ==
  /\ \A i \in RowsOf(m) : ToldOf(Len(log), m) \subseteq mail_log[i].has
  /\ contexts[m] # Null => ToldOf(pos, m) \subseteq contexts[m]
  /\ contexts[m] = Null /\ RowsOf(m) = {} /\ (\E f \in 1 .. pos : Begins(f, m)) =>
       \E p \in 1 .. pos : Closes(p, m)

LogInv ==
  /\ LogTypeOK
  /\ LinesInv
  /\ RowInv
  /\ \A m \in Messages \ skipped, r \in Recipients : ReplayInv(m, r)
  /\ \A m \in Messages : Whole(m) => KnowInv(m)

-----------------------------------------------------------------------------
(* Type correctness of MailLog.                                             *)

\* Less-than on the numbers is well-founded; OpToRel is only used here.
LEMMA LessIsWellFounded ==
  \E R : IsWellFoundedOn(R, Nat) /\ \A x, y \in Nat : y < x => <<y, x>> \in R
<1> DEFINE R == OpToRel(<, Nat)
<1>1. \A x, y \in Nat : y < x => <<y, x>> \in R
  BY Zenon DEF OpToRel
<1>2. IsWellFoundedOn(R, Nat)
  BY NatLessThanWellFounded
<1>3. IsWellFoundedOn(R, Nat) /\ \A x, y \in Nat : y < x => <<y, x>> \in R
  BY <1>1, <1>2
<1> HIDE DEF R
<1> QED BY ONLY <1>3

\* A non-empty set of numbers has a least one, which Min finds.
LEMMA Least ==
  ASSUME NEW S, S \subseteq Nat, S # {}
  PROVE  Min(S) \in S /\ \A y \in S : Min(S) <= y
<1>1. PICK R : IsWellFoundedOn(R, Nat) /\ \A x, y \in Nat : y < x => <<y, x>> \in R
  BY LessIsWellFounded
<1>2. PICK s \in S : \A y \in S : ~ (<<y, s>> \in R)
  BY <1>1, WFMin
<1>3. \A y \in S : s <= y
  <2>1. s \in Nat /\ \A y \in S : y \in Nat
    BY <1>2
  <2>2. \A y \in S : ~(y < s)
    BY <1>1, <1>2, <2>1
  <2> QED BY <2>1, <2>2
<1> QED BY <1>3 DEF Min

\* The types at the start.
LEMMA InitIsTyped == LogInit => LogTypeOK
BY LimitsAreNat DEF LogInit, LogTypeOK

\* The log and the rows are functions on initial segments of the numbers.
LEMMA Sized ==
  ASSUME LogTypeOK
  PROVE  /\ Len(log) \in Nat /\ DOMAIN log = Lines /\ \A i \in Lines : log[i] \in Line
         /\ Len(mail_log) \in Nat /\ DOMAIN mail_log = 1 .. Len(mail_log)
         /\ \A i \in DOMAIN mail_log : mail_log[i] \in Row
         /\ pos \in Nat /\ seen \in Nat
BY DEF LogTypeOK, Lines

\* A line is added at the end and changes none before it.
LEMMA Added ==
  ASSUME LogTypeOK, NEW l \in Line, log' = Append(log, l)
  PROVE  /\ log' \in Seq(Line) /\ Len(log') = Len(log) + 1 /\ Lines' = 1 .. Len(log) + 1
         /\ log'[Len(log) + 1] = l /\ \A i \in Lines : log'[i] = log[i]
BY DEF LogTypeOK, Lines

\* Max is one of two.
LEMMA MaxOfTwo ==
  ASSUME NEW a \in Nat, NEW b \in Nat
  PROVE  Max({a, b}) = IF a >= b THEN a ELSE b
BY DEF Max

\* A status or a piece written into rows in place leaves the rest of them as it was.
LEMMA Overwritten ==
  ASSUME LogTypeOK, NEW f, DOMAIN f = DOMAIN mail_log, \A i \in DOMAIN mail_log : f[i] \in Row,
         f = [i \in DOMAIN mail_log |-> f[i]]
  PROVE  f \in Seq(Row) /\ Len(f) = Len(mail_log)
<1>1. Len(mail_log) \in Nat /\ DOMAIN mail_log = 1 .. Len(mail_log)
  BY Sized
<1>2. f \in [1 .. Len(mail_log) -> Row]
  BY <1>1
<1>3. f \in Seq(Row)
  BY <1>1, <1>2, SeqDef
<1>4. DOMAIN f = 1 .. Len(f) /\ Len(f) \in Nat
  BY <1>3, LenProperties
<1> QED BY <1>1, <1>3, <1>4

\* The insert of mail-log.ts: a new row, or the conflicting one overwritten.
LEMMA UpsertIs ==
  ASSUME LogTypeOK, NEW q \in Messages \cup {Null}, NEW to \in Recipients, NEW status \in Outcomes,
         NEW has \in SUBSET Pieces, Upsert(q, to, status, has)
  PROVE  /\ mail_log' \in Seq(Row)
         /\ \/ /\ Conflicting(q, to) = {} /\ Len(mail_log') = Len(mail_log) + 1
               /\ \A i \in DOMAIN mail_log : mail_log'[i] = mail_log[i]
               /\ mail_log'[Len(mail_log) + 1]
                    = [queueId |-> q, recipient |-> to, status |-> status, has |-> has]
            \/ /\ Conflicting(q, to) # {} /\ Len(mail_log') = Len(mail_log)
               /\ \A i \in DOMAIN mail_log :
                    /\ mail_log'[i].queueId = mail_log[i].queueId
                    /\ mail_log'[i].recipient = mail_log[i].recipient
                    /\ mail_log'[i].status = IF i \in Conflicting(q, to) THEN status ELSE mail_log[i].status
                    /\ mail_log[i].has \subseteq mail_log'[i].has
<1> DEFINE row == [queueId |-> q, recipient |-> to, status |-> status, has |-> has]
<1> DEFINE f == [i \in DOMAIN mail_log |->
                   IF i \in Conflicting(q, to)
                   THEN [mail_log[i] EXCEPT !.status = status, !.has = @ \cup (has \cap Coalesced)]
                   ELSE mail_log[i]]
<1>1. row \in Row
  BY DEF Row
<1>2. CASE Conflicting(q, to) = {}
  <2>1. mail_log' = Append(mail_log, row)
    BY <1>2 DEF Upsert
  <2> HIDE DEF row
  <2> QED
    <3>1. mail_log' \in Seq(Row) /\ Len(mail_log') = Len(mail_log) + 1 /\ mail_log'[Len(mail_log) + 1] = row
          /\ \A i \in DOMAIN mail_log : mail_log'[i] = mail_log[i]
      BY <1>1, <2>1 DEF LogTypeOK
    <3> QED BY <1>2, <3>1 DEF row
<1>3. CASE Conflicting(q, to) # {}
  <2>1. mail_log' = f
    BY <1>3 DEF Upsert
  <2>2. \A i \in DOMAIN mail_log : mail_log[i] \in Row
    BY Sized
  <2>3. \A i \in DOMAIN mail_log : f[i] \in Row
    BY <2>2 DEF Row, Coalesced, Pieces
  <2>4. \A i \in DOMAIN mail_log :
          /\ f[i].queueId = mail_log[i].queueId
          /\ f[i].recipient = mail_log[i].recipient
          /\ f[i].status = IF i \in Conflicting(q, to) THEN status ELSE mail_log[i].status
          /\ mail_log[i].has \subseteq f[i].has
    BY <2>2 DEF Row
  <2>5. DOMAIN f = DOMAIN mail_log /\ f = [i \in DOMAIN mail_log |-> f[i]]
    OBVIOUS
  <2> HIDE DEF f
  <2>6. f \in Seq(Row) /\ Len(f) = Len(mail_log)
    BY <2>3, <2>5, Overwritten
  <2> QED BY <1>3, <2>1, <2>4, <2>6
<1> QED BY <1>2, <1>3

\* The update of mail-log.ts: the deferred rows of a message get the status.
LEMMA SettledIs ==
  ASSUME LogTypeOK, NEW m, NEW status \in {"expired", "deleted"}, Settled(m, status)
  PROVE  /\ mail_log' \in Seq(Row) /\ Len(mail_log') = Len(mail_log)
         /\ \A i \in DOMAIN mail_log :
              /\ mail_log'[i].queueId = mail_log[i].queueId
              /\ mail_log'[i].recipient = mail_log[i].recipient
              /\ mail_log'[i].has = mail_log[i].has
              /\ mail_log'[i].status = IF mail_log[i].queueId = m /\ mail_log[i].status = "deferred"
                                       THEN status ELSE mail_log[i].status
<1> DEFINE f == [i \in DOMAIN mail_log |->
                   IF i \in RowsOf(m) /\ mail_log[i].status = "deferred"
                   THEN [mail_log[i] EXCEPT !.status = status] ELSE mail_log[i]]
<1>1. mail_log' = f
  BY DEF Settled
<1>2. \A i \in DOMAIN mail_log : mail_log[i] \in Row
  BY Sized
<1>3. \A i \in DOMAIN mail_log : f[i] \in Row
  BY <1>2 DEF Row
<1>4. \A i \in DOMAIN mail_log :
        /\ f[i].queueId = mail_log[i].queueId
        /\ f[i].recipient = mail_log[i].recipient
        /\ f[i].has = mail_log[i].has
        /\ f[i].status = IF mail_log[i].queueId = m /\ mail_log[i].status = "deferred"
                         THEN status ELSE mail_log[i].status
  BY <1>2 DEF Row, RowsOf
<1>5. DOMAIN f = DOMAIN mail_log /\ f = [i \in DOMAIN mail_log |-> f[i]]
  OBVIOUS
<1> HIDE DEF f
<1>6. f \in Seq(Row) /\ Len(f) = Len(mail_log)
  BY <1>3, <1>5, Overwritten
<1> QED BY <1>1, <1>4, <1>6

\* The pieces that contextFromDb finds are those of a row of the message.
LEMMA FromDb ==
  ASSUME LogTypeOK, NEW m
  PROVE  \/ RowsOf(m) = {} /\ ContextFromDb(m) = Null
         \/ \E i \in RowsOf(m) : ContextFromDb(m) = mail_log[i].has /\ mail_log[i] \in Row
<1>1. RowsOf(m) \subseteq Nat /\ \A i \in RowsOf(m) : mail_log[i] \in Row
  BY Sized DEF RowsOf
<1>2. RowsOf(m) # {} => Min(RowsOf(m)) \in RowsOf(m)
  BY <1>1, Least
<1> QED BY <1>1, <1>2 DEF ContextFromDb

\* The line that is handled next.
LEMMA NextLine ==
  ASSUME LogTypeOK, LineInv, Behind
  PROVE  /\ pos + 1 \in Lines /\ log[pos + 1] \in Line /\ pos \in Nat
         /\ log[pos + 1].kind # "reject" => log[pos + 1].m \in Messages
         /\ log[pos + 1].kind \in {"delivery", "reject"} =>
              log[pos + 1].to \in Recipients /\ log[pos + 1].status \in Outcomes
<1>1. pos + 1 \in Lines /\ pos \in Nat
  BY Sized DEF Behind, Lines
<1> QED BY <1>1, Sized DEF LineInv, Line, Outcomes

\* What a line does to the contexts, and which of the changes of rows it makes.
LEMMA ApplyIs ==
  ASSUME LogTypeOK, LineInv, Behind, Apply(log[pos + 1])
  PROVE  LET l == log[pos + 1]
         IN  /\ contexts' \in [Messages -> {Null} \cup SUBSET Pieces]
             /\ \/ l.kind \notin {"expired", "deleted", "delivery", "reject"} /\ mail_log' = mail_log
                \/ l.kind \in {"expired", "deleted"} /\ Settled(l.m, l.kind)
                \/ /\ l.kind \in {"delivery", "reject"}
                   /\ \E has \in SUBSET Pieces : Upsert(l.m, l.to, l.status, has)
<1> DEFINE l == log[pos + 1]
<1>1. /\ l \in Line
      /\ l.kind # "reject" => l.m \in Messages
      /\ l.kind \in {"delivery", "reject"} => l.to \in Recipients /\ l.status \in Outcomes
      /\ l.m \in Messages \cup {Null}
  BY NextLine DEF Line
<1> DEFINE Goal ==
     /\ contexts' \in [Messages -> {Null} \cup SUBSET Pieces]
     /\ \/ l.kind \notin {"expired", "deleted", "delivery", "reject"} /\ mail_log' = mail_log
        \/ l.kind \in {"expired", "deleted"} /\ Settled(l.m, l.kind)
        \/ /\ l.kind \in {"delivery", "reject"}
           /\ \E has \in SUBSET Pieces : Upsert(l.m, l.to, l.status, has)
<1> HIDE DEF l
<1>0. mail_log \in Seq(Row) /\ contexts \in [Messages -> {Null} \cup SUBSET Pieces]
  BY DEF LogTypeOK
<1>2. ASSUME l.kind \in {"client", "pickup", "headers", "queued"} /\ Note(l) PROVE Goal
  <2>1. Tells(l.kind) \subseteq Pieces
    BY <1>2 DEF Tells, Pieces
  <2>2. Known(contexts[l.m]) \subseteq Pieces
    BY <1>0, <1>1, <1>2 DEF Known
  <2> QED BY <1>0, <1>2, <2>1, <2>2 DEF Note
<1>3. ASSUME l.kind = "removed" /\ Forget(l.m) /\ UNCHANGED <<mail_log, half>> PROVE Goal
  BY <1>0, <1>3 DEF Forget
<1>4. ASSUME l.kind = "expired" /\ Settled(l.m, "expired") /\ UNCHANGED <<contexts, half>> PROVE Goal
  BY <1>0, <1>4
<1>5. ASSUME l.kind = "deleted" /\ Forget(l.m) /\ Settled(l.m, "deleted") /\ UNCHANGED half PROVE Goal
  BY <1>0, <1>5 DEF Forget
<1>6. ASSUME l.kind = "delivery" /\ Delivered(l) PROVE Goal
  <2> DEFINE c == IF contexts[l.m] # Null THEN contexts[l.m] ELSE ContextFromDb(l.m)
  <2>1. ContextFromDb(l.m) \in {Null} \cup SUBSET Pieces
    BY FromDb DEF Row
  <2>2. c \in {Null} \cup SUBSET Pieces
    BY <1>0, <1>1, <1>6, <2>1
  <2>3. Upsert(l.m, l.to, l.status, Known(c)) /\ contexts' = [contexts EXCEPT ![l.m] = c]
    BY <1>6 DEF Delivered
  <2> HIDE DEF c
  <2>4. Known(c) \in SUBSET Pieces
    BY <2>2 DEF Known
  <2> QED BY <1>0, <1>1, <1>6, <2>2, <2>3, <2>4
<1>7. ASSUME l.kind = "reject" /\ Rejected(l) PROVE Goal
  <2> DEFINE has == {"sender", "client"} \cup (IF l.m = Null THEN {"source"} ELSE Known(contexts[l.m]))
  <2>1. Upsert(l.m, l.to, l.status, has) /\ contexts' = contexts
    BY <1>7 DEF Rejected
  <2>2. has \in SUBSET Pieces
    BY <1>0, <1>1 DEF Known, Pieces
  <2> HIDE DEF has
  <2> QED BY <1>0, <1>1, <1>7, <2>1, <2>2
<1>8. Apply(l)
  BY DEF l
<1>9. Goal
  <2> HIDE DEF Goal
  <2> QED BY <1>2, <1>3, <1>4, <1>5, <1>6, <1>7, <1>8 DEF Apply
<1> HIDE DEF Goal
<1> QED BY <1>9 DEF Goal, l

\* A line keeps the types of the rows and the contexts.
LEMMA ApplyTyped ==
  ASSUME LogTypeOK, LineInv, Behind, Apply(log[pos + 1])
  PROVE  mail_log' \in Seq(Row) /\ contexts' \in [Messages -> {Null} \cup SUBSET Pieces]
<1> DEFINE l == log[pos + 1]
<1>1. /\ l \in Line
      /\ l.kind \in {"delivery", "reject"} => l.to \in Recipients /\ l.status \in Outcomes
      /\ l.m \in Messages \cup {Null}
  BY NextLine DEF Line
<1>2. /\ contexts' \in [Messages -> {Null} \cup SUBSET Pieces]
      /\ \/ mail_log' = mail_log
         \/ l.kind \in {"expired", "deleted"} /\ Settled(l.m, l.kind)
         \/ /\ l.kind \in {"delivery", "reject"}
            /\ \E has \in SUBSET Pieces : Upsert(l.m, l.to, l.status, has)
  BY ApplyIs
<1> HIDE DEF l
<1>3. l.kind \in {"expired", "deleted"} /\ Settled(l.m, l.kind) => mail_log' \in Seq(Row)
  BY SettledIs
<1>4. ASSUME l.kind \in {"delivery", "reject"}, NEW has \in SUBSET Pieces, Upsert(l.m, l.to, l.status, has)
      PROVE  mail_log' \in Seq(Row)
  BY <1>1, <1>4, UpsertIs
<1> QED BY <1>2, <1>3, <1>4 DEF LogTypeOK

\* Every step keeps the types, given what Postfix logs.
LEMMA StepIsTyped ==
  ASSUME LogTypeOK, LineInv, [LogNext]_logVars
  PROVE  LogTypeOK'
<1> USE DEF postfix, app, history
<1>0. Len(log) \in Nat /\ pos \in Nat /\ seen \in Nat
  BY Sized
<1>1. CASE Postfix
  <2> DEFINE Rest == UNCHANGED <<pos, seen, contexts, mail_log>>
  <2>1. ASSUME log' \in Seq(Line), Len(log') >= Len(log), Rest,
               stage' \in [Messages -> {"new", "cleanup", "incoming", "active", "deferred", "expired", "gone"}],
               todo' \in [Messages -> SUBSET Recipients], left' \in [Messages -> SUBSET Recipients]
        PROVE  LogTypeOK'
    BY <1>0, <2>1 DEF LogTypeOK
  <2>2. ASSUME NEW kind, NEW m, NEW to, NEW status, LogLine(kind, m, to, status),
               [kind |-> kind, m |-> m, to |-> to, status |-> status] \in Line
        PROVE  log' \in Seq(Line) /\ Len(log') >= Len(log)
    <3> DEFINE l == [kind |-> kind, m |-> m, to |-> to, status |-> status]
    <3>1. l \in Line /\ log' = Append(log, l)
      BY <2>2 DEF LogLine
    <3> HIDE DEF l
    <3> QED BY <1>0, <3>1, Added
  <2>3. \A m \in Messages : stage[m] \in {"new", "cleanup", "incoming", "active", "deferred", "expired", "gone"}
    BY DEF LogTypeOK
  <2>4. ASSUME NEW m \in Messages, NEW from, NEW to \in {"cleanup", "incoming", "active", "deferred", "expired", "gone"},
               Goes(m, from, to)
        PROVE  stage' \in [Messages -> {"new", "cleanup", "incoming", "active", "deferred", "expired", "gone"}]
    BY <2>4 DEF Goes, LogTypeOK
  <2>5. log \in Seq(Line) /\ todo \in [Messages -> SUBSET Recipients] /\ left \in [Messages -> SUBSET Recipients]
        /\ stage \in [Messages -> {"new", "cleanup", "incoming", "active", "deferred", "expired", "gone"}]
    BY DEF LogTypeOK
  <2> HIDE DEF Rest
  <2>a. \A kind \in {"client", "pickup", "headers", "queued", "expired", "removed", "deleted"}, m \in Messages :
          [kind |-> kind, m |-> m, to |-> Null, status |-> Null] \in Line
    BY DEF Line
  <2>b. \A m \in Messages \cup {Null}, r \in Recipients :
          [kind |-> "reject", m |-> m, to |-> r, status |-> "rejected"] \in Line
    BY DEF Line, Outcomes
  <2>c. \A m \in Messages, r \in Recipients, status \in {"delivered", "deferred", "bounced"} :
          [kind |-> "delivery", m |-> m, to |-> r, status |-> status] \in Line
    BY DEF Line, Outcomes
  <2>6. CASE NoQueueReject
    BY <2>1, <2>2, <2>5, <2>6, <2>b DEF NoQueueReject, Rest
  <2>7. ASSUME NEW m \in Messages, Arrive(m) PROVE LogTypeOK'
    <3>1. PICK kind \in {"client", "pickup"} : LogLine(kind, m, Null, Null)
      BY <2>7 DEF Arrive
    <3>2. log' \in Seq(Line) /\ Len(log') >= Len(log)
      BY <2>2, <2>a, <3>1
    <3> QED BY <2>1, <2>4, <2>5, <2>7, <3>2 DEF Arrive, Rest
  <2>8. ASSUME NEW m \in Messages, Headers(m) PROVE LogTypeOK'
    <3>1. log' \in Seq(Line) /\ Len(log') >= Len(log)
      BY <2>2, <2>8, <2>a DEF Headers
    <3> QED BY <2>1, <2>4, <2>5, <2>8, <3>1 DEF Headers, Rest
  <2>9. ASSUME NEW m \in Messages, ContentReject(m) PROVE LogTypeOK'
    <3>1. log' \in Seq(Line) /\ Len(log') >= Len(log)
      BY <2>2, <2>9, <2>b DEF ContentReject
    <3> QED BY <2>1, <2>4, <2>5, <2>9, <3>1 DEF ContentReject, Rest
  <2>10. ASSUME NEW m \in Messages, Activate(m) PROVE LogTypeOK'
    <3>1. log' \in Seq(Line) /\ Len(log') >= Len(log)
      BY <2>2, <2>10, <2>a DEF Activate
    <3> QED BY <2>1, <2>4, <2>5, <2>10, <3>1 DEF Activate, Rest
  <2>11. ASSUME NEW m \in Messages, Attempt(m) PROVE LogTypeOK'
    <3>1. PICK r \in todo[m], status \in {"delivered", "deferred", "bounced"} :
            /\ LogLine("delivery", m, r, status)
            /\ todo' = [todo EXCEPT ![m] = @ \ {r}]
            /\ left' = IF status = "deferred" THEN left ELSE [left EXCEPT ![m] = @ \ {r}]
      BY <2>11 DEF Attempt
    <3>2. log' \in Seq(Line) /\ Len(log') >= Len(log)
      BY <2>2, <2>5, <2>c, <3>1
    <3>3. todo' \in [Messages -> SUBSET Recipients] /\ left' \in [Messages -> SUBSET Recipients]
      BY <2>5, <3>1
    <3> QED BY <2>1, <2>5, <2>11, <3>2, <3>3 DEF Attempt, Rest
  <2>12. ASSUME NEW m \in Messages, Defer(m) PROVE LogTypeOK'
    BY <1>0, <2>1, <2>4, <2>5, <2>12 DEF Defer, Rest
  <2>13. ASSUME NEW m \in Messages, Finish(m) PROVE LogTypeOK'
    <3>1. log' \in Seq(Line) /\ Len(log') >= Len(log)
      BY <2>2, <2>13, <2>a DEF Finish
    <3> QED BY <2>1, <2>4, <2>5, <2>13, <3>1 DEF Finish, Rest
  <2>14. ASSUME NEW m \in Messages, Expire(m) PROVE LogTypeOK'
    <3>1. log' \in Seq(Line) /\ Len(log') >= Len(log)
      BY <2>2, <2>14, <2>a DEF Expire
    <3> QED BY <2>1, <2>4, <2>5, <2>14, <3>1 DEF Expire, Rest
  <2>15. ASSUME NEW m \in Messages, Delete(m) PROVE LogTypeOK'
    <3>1. log' \in Seq(Line) /\ Len(log') >= Len(log)
      BY <2>2, <2>15, <2>a DEF Delete
    <3> QED BY <2>1, <2>4, <2>5, <2>15, <3>1 DEF Delete, Rest
  <2> QED BY <1>1, <2>6, <2>7, <2>8, <2>9, <2>10, <2>11, <2>12, <2>13, <2>14, <2>15 DEF Postfix
<1>2. CASE App
  <2>1. Behind /\ Advance => /\ pos' = pos + 1 /\ pos' <= seen' /\ seen' <= Len(log)
                             /\ pos' \in Nat /\ seen' \in Nat
    <3>1. Behind => pos + 1 \in Nat /\ pos + 1 <= Len(log)
      BY <1>0 DEF Behind
    <3> QED BY <1>0, <3>1, MaxOfTwo DEF Behind, Advance, LogTypeOK
  <2>2. CASE Handle
    BY <1>0, <2>1, <2>2, ApplyTyped DEF Handle, LogTypeOK
  <2>3. CASE HandleFails
    <3>1. contexts' \in [Messages -> {Null} \cup SUBSET Pieces]
      BY <2>3 DEF HandleFails, Forget, LogTypeOK
    <3> QED BY <1>0, <2>1, <2>3, <3>1 DEF HandleFails, LogTypeOK
  <2>4. CASE Restart
    <3>1. PICK from \in 0 .. Len(log) : pos' = from /\ seen' = Max({seen, from})
      BY <2>4 DEF Restart
    <3>2. from \in Nat /\ from <= Len(log) /\ seen <= Len(log)
      BY <1>0 DEF LogTypeOK
    <3>3. seen' = IF seen >= from THEN seen ELSE from
      BY <1>0, <3>1, <3>2, MaxOfTwo
    <3>4. pos' \in Nat /\ seen' \in Nat /\ pos' <= seen' /\ seen' <= Len(log)
      BY <1>0, <3>1, <3>2, <3>3
    <3> QED BY <2>4, <3>4 DEF Restart, LogTypeOK
  <2>5. ASSUME NEW m \in Messages, Prune(m) PROVE LogTypeOK'
    BY <1>0, <2>5 DEF Prune, Forget, LogTypeOK
  <2> QED BY <1>2, <2>2, <2>3, <2>4, <2>5 DEF App
<1>3. CASE UNCHANGED logVars
  BY <1>3 DEF logVars, LogTypeOK
<1> QED BY <1>1, <1>2, <1>3 DEF LogNext

-----------------------------------------------------------------------------
(* What Postfix logs.                                                       *)

\* A step of Postfix that logs nothing of m and does nothing to it.
Elsewhere(m) ==
  /\ \/ log' = log
     \/ \E l \in Line : log' = Append(log, l) /\ l.m # m
  /\ stage'[m] = stage[m] /\ todo'[m] = todo[m] /\ left'[m] = left[m]
  /\ m \in late' <=> m \in late

\* A step of Postfix that logs l of m, by what it does to m alone.
Logs(m, l) ==
  /\ l \in Line /\ log' = Append(log, l) /\ l.m = m
  /\ l.kind # "delivery" => left'[m] = left[m] /\ (m \in late' <=> m \in late)
  /\ l.kind \notin {"delivery", "queued"} => todo'[m] = todo[m]
  /\ \/ stage[m] = "new" /\ stage'[m] = "cleanup" /\ l.kind \in {"client", "pickup"}
     \/ stage[m] = "cleanup" /\ stage'[m] = "incoming" /\ l.kind = "headers"
     \/ /\ stage[m] = "incoming" /\ stage'[m] = "gone" /\ l.kind = "reject"
        /\ l.to \in Recipients /\ l.status = "rejected"
     \/ /\ stage[m] \in {"incoming", "deferred"} /\ stage'[m] = "active" /\ l.kind = "queued"
        /\ todo'[m] = left[m]
     \/ /\ stage[m] \in {"active", "gone"} /\ stage'[m] = stage[m] /\ l.kind = "delivery"
        /\ l.to \in todo[m] /\ l.status \in {"delivered", "deferred", "bounced"}
        /\ todo'[m] = todo[m] \ {l.to}
        /\ left'[m] = IF l.status = "deferred" THEN left[m] ELSE left[m] \ {l.to}
        /\ m \in late' <=> m \in late \/ stage[m] = "gone"
     \/ /\ stage[m] = "expired" \/ (stage[m] = "active" /\ left[m] = {})
        /\ stage'[m] = "gone" /\ l.kind = "removed"
     \/ stage[m] = "deferred" /\ stage'[m] = "expired" /\ l.kind = "expired"
     \/ stage[m] \in {"incoming", "active", "deferred"} /\ stage'[m] = "gone" /\ l.kind = "deleted"

\* The deferral of m, which logs nothing.
Defers(m) ==
  /\ log' = log /\ stage[m] = "active" /\ stage'[m] = "deferred"
  /\ todo[m] = {} /\ todo'[m] = {} /\ left'[m] = left[m]
  /\ m \in late' <=> m \in late

\* What Postfix does with one message, seen from it and from any other.
LEMMA MessageStep ==
  ASSUME LogTypeOK, NEW m \in Messages, NEW n \in Messages,
         \/ Arrive(n) \/ Headers(n) \/ ContentReject(n) \/ Activate(n) \/ Attempt(n)
         \/ Defer(n) \/ Finish(n) \/ Expire(n) \/ Delete(n)
  PROVE  IF n = m THEN Defers(m) \/ \E l \in Line : Logs(m, l) ELSE Elsewhere(m)
<1> USE DEF postfix, app, history
<1>0. /\ stage \in [Messages -> {"new", "cleanup", "incoming", "active", "deferred", "expired", "gone"}]
      /\ todo \in [Messages -> SUBSET Recipients] /\ left \in [Messages -> SUBSET Recipients]
  BY DEF LogTypeOK
<1>a. \A kind \in {"client", "pickup", "headers", "queued", "expired", "removed", "deleted"}, x \in Messages :
        [kind |-> kind, m |-> x, to |-> Null, status |-> Null] \in Line
  BY DEF Line
<1>b. \A x \in Messages \cup {Null}, r \in Recipients :
        [kind |-> "reject", m |-> x, to |-> r, status |-> "rejected"] \in Line
  BY DEF Line, Outcomes
<1>c. \A x \in Messages, r \in Recipients, status \in {"delivered", "deferred", "bounced"} :
        [kind |-> "delivery", m |-> x, to |-> r, status |-> status] \in Line
  BY DEF Line, Outcomes
<1>1. CASE Arrive(n)
  <2>1. PICK kind \in {"client", "pickup"} : LogLine(kind, n, Null, Null)
    BY <1>1 DEF Arrive
  <2> DEFINE l == [kind |-> kind, m |-> n, to |-> Null, status |-> Null]
  <2>2. l \in Line /\ log' = Append(log, l) /\ l.m = n /\ l.kind \in {"client", "pickup"}
    BY <1>a, <2>1 DEF LogLine
  <2> HIDE DEF l
  <2>3. CASE n = m
    <3>1. Logs(m, l)
      BY <1>0, <1>1, <2>2, <2>3 DEF Arrive, Goes, Logs
    <3> QED BY <2>2, <2>3, <3>1
  <2>4. CASE n # m
    BY <1>0, <1>1, <2>2, <2>4 DEF Arrive, Goes, Elsewhere
  <2> QED BY <2>3, <2>4
<1>2. CASE Headers(n)
  <2> DEFINE l == [kind |-> "headers", m |-> n, to |-> Null, status |-> Null]
  <2>2. l \in Line /\ log' = Append(log, l) /\ l.m = n /\ l.kind = "headers"
    BY <1>a, <1>2 DEF Headers, LogLine
  <2> HIDE DEF l
  <2>3. CASE n = m
    <3>1. Logs(m, l)
      BY <1>0, <1>2, <2>2, <2>3 DEF Headers, Goes, Logs
    <3> QED BY <2>2, <2>3, <3>1
  <2>4. CASE n # m
    BY <1>0, <1>2, <2>2, <2>4 DEF Headers, Goes, Elsewhere
  <2> QED BY <2>3, <2>4
<1>3. CASE ContentReject(n)
  <2>1. PICK r \in Recipients : LogLine("reject", n, r, "rejected")
    BY <1>3 DEF ContentReject
  <2> DEFINE l == [kind |-> "reject", m |-> n, to |-> r, status |-> "rejected"]
  <2>2. l \in Line /\ log' = Append(log, l) /\ l.m = n /\ l.kind = "reject" /\ l.to = r /\ l.status = "rejected"
    BY <1>b, <2>1 DEF LogLine
  <2> HIDE DEF l
  <2>3. CASE n = m
    <3>1. Logs(m, l)
      BY <1>0, <1>3, <2>2, <2>3 DEF ContentReject, Goes, Logs
    <3> QED BY <2>2, <2>3, <3>1
  <2>4. CASE n # m
    BY <1>0, <1>3, <2>2, <2>4 DEF ContentReject, Goes, Elsewhere
  <2> QED BY <2>3, <2>4
<1>4. CASE Activate(n)
  <2> DEFINE l == [kind |-> "queued", m |-> n, to |-> Null, status |-> Null]
  <2>2. l \in Line /\ log' = Append(log, l) /\ l.m = n /\ l.kind = "queued"
    BY <1>a, <1>4 DEF Activate, LogLine
  <2> HIDE DEF l
  <2>3. CASE n = m
    <3>1. Logs(m, l)
      BY <1>0, <1>4, <2>2, <2>3 DEF Activate, Goes, Logs
    <3> QED BY <2>2, <2>3, <3>1
  <2>4. CASE n # m
    BY <1>0, <1>4, <2>2, <2>4 DEF Activate, Goes, Elsewhere
  <2> QED BY <2>3, <2>4
<1>5. CASE Attempt(n)
  <2>1. PICK r \in todo[n], status \in {"delivered", "deferred", "bounced"} :
          /\ LogLine("delivery", n, r, status)
          /\ todo' = [todo EXCEPT ![n] = @ \ {r}]
          /\ left' = IF status = "deferred" THEN left ELSE [left EXCEPT ![n] = @ \ {r}]
    BY <1>5 DEF Attempt
  <2> DEFINE l == [kind |-> "delivery", m |-> n, to |-> r, status |-> status]
  <2>2. /\ l \in Line /\ log' = Append(log, l) /\ l.m = n
        /\ l.kind = "delivery" /\ l.to = r /\ l.status = status
    BY <1>0, <1>c, <2>1 DEF LogLine
  <2> HIDE DEF l
  <2>5. /\ stage[n] \in {"active", "gone"} /\ stage' = stage
        /\ late' = IF stage[n] = "gone" THEN late \cup {n} ELSE late
    BY <1>5 DEF Attempt
  <2>3. CASE n = m
    <3>1. todo'[m] = todo[m] \ {r} /\ left'[m] = IF status = "deferred" THEN left[m] ELSE left[m] \ {r}
      BY <1>0, <2>1, <2>3
    <3>2. Logs(m, l)
      BY <2>1, <2>2, <2>3, <2>5, <3>1 DEF Logs
    <3> QED BY <2>2, <2>3, <3>2
  <2>4. CASE n # m
    BY <1>0, <2>1, <2>2, <2>4, <2>5 DEF Elsewhere
  <2> QED BY <2>3, <2>4
<1>6. CASE Defer(n)
  BY <1>0, <1>6 DEF Defer, Goes, Defers, Elsewhere
<1>7. CASE Finish(n)
  <2> DEFINE l == [kind |-> "removed", m |-> n, to |-> Null, status |-> Null]
  <2>2. l \in Line /\ log' = Append(log, l) /\ l.m = n /\ l.kind = "removed"
    BY <1>a, <1>7 DEF Finish, LogLine
  <2> HIDE DEF l
  <2>3. CASE n = m
    <3>1. Logs(m, l)
      BY <1>0, <1>7, <2>2, <2>3 DEF Finish, Goes, Logs
    <3> QED BY <2>2, <2>3, <3>1
  <2>4. CASE n # m
    BY <1>0, <1>7, <2>2, <2>4 DEF Finish, Goes, Elsewhere
  <2> QED BY <2>3, <2>4
<1>8. CASE Expire(n)
  <2> DEFINE l == [kind |-> "expired", m |-> n, to |-> Null, status |-> Null]
  <2>2. l \in Line /\ log' = Append(log, l) /\ l.m = n /\ l.kind = "expired"
    BY <1>a, <1>8 DEF Expire, LogLine
  <2> HIDE DEF l
  <2>3. CASE n = m
    <3>1. Logs(m, l)
      BY <1>0, <1>8, <2>2, <2>3 DEF Expire, Goes, Logs
    <3> QED BY <2>2, <2>3, <3>1
  <2>4. CASE n # m
    BY <1>0, <1>8, <2>2, <2>4 DEF Expire, Goes, Elsewhere
  <2> QED BY <2>3, <2>4
<1>9. CASE Delete(n)
  <2> DEFINE l == [kind |-> "deleted", m |-> n, to |-> Null, status |-> Null]
  <2>2. l \in Line /\ log' = Append(log, l) /\ l.m = n /\ l.kind = "deleted"
    BY <1>a, <1>9 DEF Delete, LogLine
  <2> HIDE DEF l
  <2>3. CASE n = m
    <3>1. Logs(m, l)
      BY <1>0, <1>9, <2>2, <2>3 DEF Delete, Goes, Logs
    <3> QED BY <2>2, <2>3, <3>1
  <2>4. CASE n # m
    BY <1>0, <1>9, <2>2, <2>4 DEF Delete, Goes, Elsewhere
  <2> QED BY <2>3, <2>4
<1> QED BY <1>1, <1>2, <1>3, <1>4, <1>5, <1>6, <1>7, <1>8, <1>9

\* Any step of Postfix, seen from one message.
LEMMA PostfixStep ==
  ASSUME LogTypeOK, Postfix, NEW m \in Messages
  PROVE  Elsewhere(m) \/ Defers(m) \/ \E l \in Line : Logs(m, l)
<1>1. CASE NoQueueReject
  <2>1. PICK r \in Recipients : LogLine("reject", Null, r, "rejected")
    BY <1>1 DEF NoQueueReject
  <2>2. [kind |-> "reject", m |-> Null, to |-> r, status |-> "rejected"] \in Line
    BY DEF Line, Outcomes
  <2> QED BY <1>1, <2>1, <2>2, NullOutside DEF NoQueueReject, LogLine, Elsewhere, history
<1>2. ASSUME NEW n \in Messages,
             \/ Arrive(n) \/ Headers(n) \/ ContentReject(n) \/ Activate(n) \/ Attempt(n)
             \/ Defer(n) \/ Finish(n) \/ Expire(n) \/ Delete(n)
      PROVE  Elsewhere(m) \/ Defers(m) \/ \E l \in Line : Logs(m, l)
  BY <1>2, MessageStep
<1> QED BY <1>1, <1>2 DEF Postfix

\* What the first lines tell stays told.
LEMMA ToldStays ==
  ASSUME NEW m, NEW n \in Nat, \A i \in 1 .. n : log'[i] = log[i]
  PROVE  ToldOf(n, m)' = ToldOf(n, m)
<1>1. \A k \in 1 .. n : log'[k].m = log[k].m /\ Tells(log'[k].kind) = Tells(log[k].kind)
  OBVIOUS
<1> DEFINE S == {k \in 1 .. n : log[k].m = m}
<1> DEFINE T == {k \in 1 .. n : log'[k].m = m}
<1>2. S = T
  BY <1>1
<1>3. {Tells(log'[j].kind) : j \in T} = {Tells(log[j].kind) : j \in S}
  BY <1>1, <1>2
<1> QED BY <1>3 DEF ToldOf

\* A piece is told by a line.
LEMMA ToldBy ==
  ASSUME NEW m, NEW n, NEW x
  PROVE  x \in ToldOf(n, m) <=> \E k \in 1 .. n : log[k].m = m /\ x \in Tells(log[k].kind)
BY DEF ToldOf

\* More lines tell more.
LEMMA ToldGrows ==
  ASSUME NEW m, NEW a \in Nat, NEW b \in Nat, a <= b
  PROVE  ToldOf(a, m) \subseteq ToldOf(b, m)
BY ToldBy

\* Before the first line there is nothing to keep in order.
LEMMA InitLines == LogInit => LinesInv
<1> SUFFICES ASSUME LogInit PROVE LinesInv
  OBVIOUS
<1>1. Lines = {} /\ Len(log) = 0
  BY DEF LogInit, Lines
<1>2. \A m \in Messages : stage[m] = "new" /\ todo[m] = {} /\ left[m] = Recipients
  BY DEF LogInit
<1> QED BY <1>1, <1>2
        DEF LinesInv, LineInv, BeginInv, QueuedInv, AllToldInv, ClosedInv, WaitInv, Pending

\* The lines about one message, when another is logged or none.
LEMMA ElsewhereKeeps ==
  ASSUME LogTypeOK, NEW m \in Messages, Elsewhere(m),
         BeginInv(m), QueuedInv(m), AllToldInv(m), ClosedInv(m), WaitInv(m)
  PROVE  (BeginInv(m) /\ QueuedInv(m) /\ AllToldInv(m) /\ ClosedInv(m) /\ WaitInv(m))'
<1>1. /\ Len(log) \in Nat /\ Len(log)' \in Nat /\ Len(log) <= Len(log)'
      /\ Lines = 1 .. Len(log) /\ Lines' = 1 .. Len(log)'
      /\ \A i \in Lines : log'[i] = log[i]
      /\ \A i \in Lines' : log'[i].m = m => i \in Lines
  <2>1. CASE log' = log
    BY <2>1, Sized DEF Lines
  <2>2. ASSUME NEW l \in Line, log' = Append(log, l), l.m # m
        PROVE  /\ Len(log) \in Nat /\ Len(log)' \in Nat /\ Len(log) <= Len(log)'
               /\ Lines = 1 .. Len(log) /\ Lines' = 1 .. Len(log)'
               /\ \A i \in Lines : log'[i] = log[i]
               /\ \A i \in Lines' : log'[i].m = m => i \in Lines
    <3>1. Len(log) \in Nat
      BY Sized
    <3> QED BY <2>2, <3>1, Added DEF Lines
  <2> QED BY <2>1, <2>2 DEF Elsewhere
<1>2. stage'[m] = stage[m] /\ todo'[m] = todo[m] /\ left'[m] = left[m] /\ (m \in late' <=> m \in late)
  BY DEF Elsewhere
<1>3. BeginInv(m)'
  BY <1>1, <1>2 DEF BeginInv, Begins
<1>4. QueuedInv(m)'
  BY <1>1, <1>2 DEF QueuedInv, Queued, Outcome
<1>5. AllToldInv(m)'
  <2> SUFFICES ASSUME NEW i \in Lines', NEW j \in Lines', Outcome(i, m)', log'[j].m = m
               PROVE  Tells(log'[j].kind) \subseteq ToldOf(i, m)'
    BY DEF AllToldInv
  <2>1. i \in Lines /\ j \in Lines /\ log'[j] = log[j] /\ Outcome(i, m)
    BY <1>1 DEF Outcome
  <2>2. i \in Nat /\ \A k \in 1 .. i : log'[k] = log[k]
    BY <1>1, <2>1
  <2>3. ToldOf(i, m)' = ToldOf(i, m)
    BY <2>2, ToldStays
  <2> QED BY <2>1, <2>3 DEF AllToldInv
<1>6. ClosedInv(m)'
  BY <1>1, <1>2 DEF ClosedInv, Closes, Outcome
<1>7. ASSUME NEW r, Pending(m, r)' PROVE Pending(m, r)
  BY <1>1, <1>7 DEF Pending, Says, GivesUp
<1>8. WaitInv(m)'
  BY <1>2, <1>7 DEF WaitInv
<1> QED BY <1>3, <1>4, <1>5, <1>6, <1>8

\* The same when a message is deferred.
LEMMA DefersKeeps ==
  ASSUME LogTypeOK, NEW m \in Messages, Defers(m),
         BeginInv(m), QueuedInv(m), AllToldInv(m), ClosedInv(m), WaitInv(m)
  PROVE  (BeginInv(m) /\ QueuedInv(m) /\ AllToldInv(m) /\ ClosedInv(m) /\ WaitInv(m))'
<1>1. log' = log /\ Lines' = Lines
  BY DEF Defers, Lines
<1>2. BeginInv(m)'
  BY <1>1 DEF BeginInv, Begins, Defers
<1>3. QueuedInv(m)'
  BY <1>1 DEF QueuedInv, Queued, Outcome, Defers
<1>4. AllToldInv(m)'
  BY <1>1 DEF AllToldInv, Outcome, ToldOf
<1>5. ClosedInv(m)'
  BY <1>1 DEF ClosedInv, Closes, Outcome, Defers
<1>6. \A r : Pending(m, r)' <=> Pending(m, r)
  BY <1>1 DEF Pending, Says, GivesUp
<1>7. WaitInv(m)'
  BY <1>6 DEF WaitInv, Defers
<1> QED BY <1>2, <1>3, <1>4, <1>5, <1>7

\* What is known of the log when a line is added.
LEMMA LineAdded ==
  ASSUME LogTypeOK, NEW m, NEW l, Logs(m, l)
  PROVE  /\ Len(log) \in Nat /\ Len(log)' = Len(log) + 1
         /\ Lines = 1 .. Len(log) /\ Lines' = 1 .. Len(log) + 1
         /\ \A i \in Lines : log'[i] = log[i]
         /\ log'[Len(log) + 1] = l /\ l.m = m
BY Sized, Added DEF Logs, Lines

\* A line of a message that has begun is not its first, and the first begins it.
LEMMA BeginKept ==
  ASSUME LogTypeOK, NEW m \in Messages, NEW l, Logs(m, l), BeginInv(m)
  PROVE  BeginInv(m)'
<1>1. PICK n :
      /\ n \in Nat /\ n >= 1 /\ Lines = 1 .. n - 1 /\ Lines' = 1 .. n
      /\ \A i \in Lines : log'[i] = log[i]
      /\ log'[n] = l /\ l.m = m
  BY LineAdded
<1>2. /\ stage'[m] # "new"
      /\ stage[m] = "new" => l.kind \in {"client", "pickup"}
      /\ stage[m] # "new" => l.kind \notin {"client", "pickup"}
  BY DEF Logs
<1>3. \E f \in Lines' : Begins(f, m)'
  <2>1. CASE stage[m] = "new"
    <3>1. n \in Lines' /\ log'[n].m = m /\ log'[n].kind \in {"client", "pickup"}
      BY <1>1, <1>2, <2>1
    <3> QED BY <3>1 DEF Begins
  <2>2. CASE stage[m] # "new"
    <3>1. PICK f \in Lines : Begins(f, m)
      BY <2>2 DEF BeginInv
    <3> QED BY <1>1, <3>1 DEF Begins
  <2> QED BY <2>1, <2>2
<1>4. ASSUME NEW j \in Lines', log'[j].m = m PROVE \E f \in 1 .. j : Begins(f, m)'
  BY <1>1, <1>2, <1>4 DEF BeginInv, Begins
<1>5. ASSUME NEW i \in Lines', Begins(i, m)', NEW j \in 1 .. i - 1 PROVE log'[j].m # m
  BY <1>1, <1>2, <1>5 DEF BeginInv, Begins
<1> QED BY <1>2, <1>3, <1>4, <1>5 DEF BeginInv

\* A delivery is logged of what was queued, a refusal once.
LEMMA QueuedKept ==
  ASSUME LogTypeOK, NEW m \in Messages, NEW l, Logs(m, l), QueuedInv(m)
  PROVE  QueuedInv(m)'
<1>1. PICK n :
      /\ n \in Nat /\ n >= 1 /\ Lines = 1 .. n - 1 /\ Lines' = 1 .. n
      /\ \A i \in Lines : log'[i] = log[i]
      /\ log'[n] = l /\ l.m = m
  BY LineAdded
<1>2. ASSUME stage'[m] \in {"new", "cleanup", "incoming"}
      PROVE  todo'[m] = {} /\ \A i \in Lines' : ~Outcome(i, m)'
  <2>1. stage[m] \in {"new", "cleanup", "incoming"} /\ l.kind \in {"client", "pickup", "headers"} /\ todo'[m] = todo[m]
    BY <1>2 DEF Logs
  <2> QED BY <1>1, <2>1 DEF QueuedInv, Outcome
<1>3. ASSUME stage'[m] \in {"active", "deferred", "expired"} \/ todo'[m] # {}
      PROVE  \E q \in Lines' : Queued(q, m)'
  <2>1. l.kind = "queued" \/ stage[m] \in {"active", "deferred", "expired"} \/ todo[m] # {}
    BY <1>3 DEF Logs
  <2>2. CASE l.kind = "queued"
    <3>1. n \in Lines' /\ log'[n].m = m /\ log'[n].kind = "queued"
      BY <1>1, <2>2
    <3> QED BY <3>1 DEF Queued
  <2>3. CASE stage[m] \in {"active", "deferred", "expired"} \/ todo[m] # {}
    <3>1. PICK q \in Lines : Queued(q, m)
      BY <2>3 DEF QueuedInv
    <3> QED BY <1>1, <3>1 DEF Queued
  <2> QED BY <2>1, <2>2, <2>3
<1>4. ASSUME NEW i \in Lines', Outcome(i, m)'
      PROVE  \/ log'[i].kind = "delivery" /\ \E q \in 1 .. i - 1 : Queued(q, m)'
             \/ /\ log'[i].kind = "reject" /\ stage'[m] = "gone"
                /\ m \in late' \/ \A j \in Lines' : Outcome(j, m)' => j = i
  <2>1. CASE i \in Lines
    <3>1. Outcome(i, m) /\ log'[i] = log[i]
      BY <1>1, <1>4, <2>1 DEF Outcome
    <3>2. CASE log[i].kind = "delivery" /\ \E q \in 1 .. i - 1 : Queued(q, m)
      BY <1>1, <2>1, <3>1, <3>2 DEF Queued
    <3>3. CASE /\ log[i].kind = "reject" /\ stage[m] = "gone"
               /\ m \in late \/ \A j \in Lines : Outcome(j, m) => j = i
      <4>1. l.kind = "delivery" /\ stage'[m] = "gone" /\ m \in late'
        BY <3>3 DEF Logs
      <4> QED BY <3>1, <3>3, <4>1
    <3> QED BY <2>1, <3>1, <3>2, <3>3 DEF QueuedInv
  <2>2. CASE i = n
    <3>1. CASE l.kind = "delivery"
      <4>1. todo[m] # {}
        BY <3>1 DEF Logs
      <4>2. PICK q \in Lines : Queued(q, m)
        BY <4>1 DEF QueuedInv
      <4> QED BY <1>1, <2>2, <3>1, <4>2 DEF Queued
    <3>2. CASE l.kind = "reject"
      <4>1. stage[m] = "incoming" /\ stage'[m] = "gone"
        BY <3>2 DEF Logs
      <4>2. \A j \in Lines : ~Outcome(j, m)
        BY <4>1 DEF QueuedInv
      <4>3. \A j \in Lines' : Outcome(j, m)' => j = n
        BY <1>1, <4>2 DEF Outcome
      <4> QED BY <1>1, <2>2, <3>2, <4>1, <4>3
    <3> QED BY <1>1, <1>4, <2>2, <3>1, <3>2 DEF Outcome
  <2> QED BY <1>1, <2>1, <2>2
<1> QED BY <1>2, <1>3, <1>4 DEF QueuedInv

\* What qmgr logs again was told before the first delivery.
LEMMA AllToldKept ==
  ASSUME LogTypeOK, NEW m \in Messages, NEW l, Logs(m, l), AllToldInv(m), QueuedInv(m)
  PROVE  AllToldInv(m)'
<1>1. PICK n :
      /\ n \in Nat /\ n >= 1 /\ Lines = 1 .. n - 1 /\ Lines' = 1 .. n
      /\ \A i \in Lines : log'[i] = log[i]
      /\ log'[n] = l /\ l.m = m
  BY LineAdded
<1> SUFFICES ASSUME NEW i \in Lines', NEW j \in Lines', Outcome(i, m)', log'[j].m = m
             PROVE  Tells(log'[j].kind) \subseteq ToldOf(i, m)'
  BY DEF AllToldInv
<1>2. \A x : x \in ToldOf(i, m)' <=> \E k \in 1 .. i : log'[k].m = m /\ x \in Tells(log'[k].kind)
  BY DEF ToldOf
<1>3. CASE j <= i
  BY <1>1, <1>2, <1>3
<1>4. CASE i < j /\ j \in Lines
  <2>1. i \in Lines /\ Outcome(i, m) /\ log'[j] = log[j]
    BY <1>1, <1>4 DEF Outcome
  <2>2. i \in Nat /\ \A k \in 1 .. i : log'[k] = log[k]
    BY <1>1, <2>1
  <2>3. ToldOf(i, m)' = ToldOf(i, m)
    BY <2>2, ToldStays
  <2> QED BY <1>4, <2>1, <2>3 DEF AllToldInv
<1>5. CASE i < j /\ j = n
  <2>1. i \in Lines /\ Outcome(i, m) /\ log'[i] = log[i]
    BY <1>1, <1>5 DEF Outcome
  <2>2. stage[m] \notin {"new", "cleanup", "incoming"}
    BY <2>1 DEF QueuedInv
  <2>3. CASE l.kind = "queued"
    <3>1. log[i].kind = "delivery" \/ stage[m] = "gone"
      BY <2>1 DEF QueuedInv
    <3>2. stage[m] # "gone"
      BY <2>3 DEF Logs
    <3>3. PICK q \in 1 .. i - 1 : Queued(q, m)
      BY <2>1, <3>1, <3>2 DEF QueuedInv
    <3>4. q \in 1 .. i /\ log'[q].m = m /\ log'[q].kind = "queued"
      BY <1>1, <2>1, <3>3 DEF Queued
    <3> QED BY <1>1, <1>2, <1>5, <2>3, <3>4
  <2>4. CASE l.kind # "queued"
    <3>1. l.kind \in {"delivery", "removed", "expired", "deleted"}
      BY <2>2, <2>4 DEF Logs
    <3> QED BY <1>1, <1>5, <3>1 DEF Tells
  <2> QED BY <2>3, <2>4
<1> QED BY <1>1, <1>3, <1>4, <1>5

\* Whatever is delivered after the end of a message is late.
LEMMA ClosedKept ==
  ASSUME LogTypeOK, NEW m \in Messages, NEW l, Logs(m, l), ClosedInv(m)
  PROVE  ClosedInv(m)'
<1>1. PICK n :
      /\ n \in Nat /\ n >= 1 /\ Len(log)' = n /\ Len(log) = n - 1 /\ Lines = 1 .. n - 1 /\ Lines' = 1 .. n
      /\ \A i \in Lines : log'[i] = log[i]
      /\ log'[n] = l /\ l.m = m
  BY LineAdded
<1> SUFFICES ASSUME NEW i \in Lines', Closes(i, m)'
             PROVE  /\ stage'[m] = "gone"
                    /\ m \in late' \/ \A j \in i + 1 .. Len(log)' : ~Outcome(j, m)'
  BY DEF ClosedInv
<1>2. CASE i \in Lines
  <2>1. Closes(i, m) /\ stage[m] = "gone"
    BY <1>1, <1>2 DEF Closes, ClosedInv
  <2>2. l.kind = "delivery" /\ stage'[m] = "gone" /\ m \in late'
    BY <2>1 DEF Logs
  <2> QED BY <2>2
<1>3. CASE i = n
  <2>1. stage'[m] = "gone"
    BY <1>1, <1>3 DEF Closes, Logs
  <2> QED BY <1>1, <1>3, <2>1
<1> QED BY <1>1, <1>2, <1>3

\* Who is not to be tried again is not left waiting by the lines.
LEMMA WaitKept ==
  ASSUME LogTypeOK, NEW m \in Messages, NEW l, Logs(m, l), WaitInv(m), QueuedInv(m)
  PROVE  WaitInv(m)'
<1>1. PICK n :
      /\ n \in Nat /\ n >= 1 /\ Len(log)' = n /\ Len(log) = n - 1 /\ Lines = 1 .. n - 1 /\ Lines' = 1 .. n
      /\ \A i \in Lines : log'[i] = log[i]
      /\ log'[n] = l /\ l.m = m
  BY LineAdded
<1>2. ASSUME NEW r, Pending(m, r)'
      PROVE  /\ Pending(m, r) \/ (l.kind = "delivery" /\ l.to = r /\ l.status = "deferred")
             /\ l.kind \notin {"expired", "deleted"}
             /\ l.kind = "delivery" /\ l.to = r => l.status = "deferred"
  <2>1. PICK i \in Lines' : /\ Says(i, m, r)' /\ log'[i].status = "deferred"
                            /\ \A j \in i + 1 .. n : ~Says(j, m, r)' /\ ~GivesUp(j, m)'
    BY <1>1, <1>2 DEF Pending
  <2>2. CASE i \in Lines
    <3>1. Says(i, m, r) /\ log[i].status = "deferred" /\ n \in i + 1 .. n
          /\ \A j \in i + 1 .. n - 1 : log'[j] = log[j] /\ j \in i + 1 .. n
      BY <1>1, <2>1, <2>2 DEF Says
    <3>2. \A j \in i + 1 .. n - 1 : ~Says(j, m, r) /\ ~GivesUp(j, m)
      BY <2>1, <3>1 DEF Says, GivesUp
    <3>3. ~Says(n, m, r)' /\ ~GivesUp(n, m)'
      BY <2>1, <3>1
    <3>4. Pending(m, r)
      BY <1>1, <2>2, <3>1, <3>2 DEF Pending
    <3> QED BY <1>1, <3>3, <3>4 DEF Says, GivesUp
  <2>3. CASE i = n
    <3>1. l.kind \in {"delivery", "reject"} /\ l.to = r /\ l.status = "deferred"
      BY <1>1, <2>1, <2>3 DEF Says
    <3>2. l.kind # "reject"
      BY <3>1 DEF Logs
    <3> QED BY <3>1, <3>2
  <2> QED BY <1>1, <2>2, <2>3
<1>3. todo'[m] \subseteq left'[m]
  <2>1. l.kind = "queued" => todo'[m] = left[m] /\ left'[m] = left[m]
    BY DEF Logs
  <2>2. l.kind = "delivery" =>
          todo'[m] = todo[m] \ {l.to} /\ (left'[m] = left[m] \/ left'[m] = left[m] \ {l.to})
    BY DEF Logs
  <2>3. l.kind \notin {"queued", "delivery"} => todo'[m] = todo[m] /\ left'[m] = left[m]
    BY DEF Logs
  <2>4. todo[m] \subseteq left[m]
    BY DEF WaitInv
  <2> QED BY <2>1, <2>2, <2>3, <2>4
<1>4. ASSUME NEW r \in Recipients \ left'[m] PROVE ~Pending(m, r)'
  <2>1. CASE l.kind = "delivery"
    <3>1. /\ l.to \in todo[m]
          /\ left'[m] = IF l.status = "deferred" THEN left[m] ELSE left[m] \ {l.to}
      BY <2>1 DEF Logs
    <3>2. l.to \in left[m]
      BY <3>1 DEF WaitInv
    <3>3. l.to = r => l.status # "deferred"
      BY <1>4, <3>1, <3>2
    <3>4. l.to # r => r \notin left[m]
      BY <1>4, <3>1
    <3> QED BY <1>2, <1>4, <2>1, <3>3, <3>4 DEF WaitInv
  <2>2. CASE l.kind # "delivery"
    <3>1. left'[m] = left[m]
      BY <2>2 DEF Logs
    <3> QED BY <1>2, <1>4, <2>2, <3>1 DEF WaitInv
  <2> QED BY <2>1, <2>2
<1>5. stage'[m] \in {"deferred", "expired"} => todo'[m] = {}
  BY DEF Logs, WaitInv
<1>6. ASSUME stage'[m] = "expired" \/ (stage'[m] = "gone" /\ m \notin late'), NEW r \in Recipients
      PROVE  ~Pending(m, r)'
  <2>1. CASE l.kind \in {"expired", "deleted"}
    BY <1>2, <2>1
  <2>2. CASE l.kind = "reject"
    <3>1. stage[m] = "incoming"
      BY <2>2 DEF Logs
    <3>2. \A i \in Lines : ~Outcome(i, m)
      BY <3>1 DEF QueuedInv
    <3>3. ~Pending(m, r)
      BY <3>2 DEF Pending, Says, Outcome
    <3> QED BY <1>2, <2>2, <3>3
  <2>3. CASE l.kind = "removed"
    <3>1. stage[m] = "expired" \/ left[m] = {}
      BY <2>3 DEF Logs
    <3>2. ~Pending(m, r)
      BY <3>1 DEF WaitInv
    <3> QED BY <1>2, <2>3, <3>2
  <2>4. l.kind \in {"expired", "deleted", "reject", "removed"}
    BY <1>6 DEF Logs
  <2> QED BY <2>1, <2>2, <2>3, <2>4
<1> QED BY <1>3, <1>4, <1>5, <1>6 DEF WaitInv

\* What each line carries.
LEMMA LineKept ==
  ASSUME LogTypeOK, LineInv, Postfix
  PROVE  LineInv'
<1> USE DEF postfix, app, history
<1>0. /\ todo \in [Messages -> SUBSET Recipients]
      /\ Len(log) \in Nat /\ Lines = 1 .. Len(log)
  BY Sized DEF LogTypeOK, Lines
<1>1. ASSUME NEW l, l \in Line, log' = Append(log, l),
             l.kind = "delivery" => l.status \in {"delivered", "deferred", "bounced"},
             l.kind = "reject" => l.status = "rejected",
             l.kind \in {"delivery", "reject"} => l.to \in Recipients,
             l.m = Null => l.kind = "reject"
      PROVE  LineInv'
  <2>1. /\ Lines' = 1 .. Len(log) + 1
        /\ log'[Len(log) + 1] = l /\ \A i \in Lines : log'[i] = log[i]
    BY <1>1, Added
  <2>2. \A i \in Lines' : i \in Lines \/ i = Len(log) + 1
    BY <1>0, <2>1
  <2> QED BY <1>1, <2>1, <2>2 DEF LineInv
<1>2. CASE NoQueueReject
  <2>1. PICK r \in Recipients : LogLine("reject", Null, r, "rejected")
    BY <1>2 DEF NoQueueReject
  <2> DEFINE l == [kind |-> "reject", m |-> Null, to |-> r, status |-> "rejected"]
  <2>2. l \in Line /\ log' = Append(log, l) /\ l.kind = "reject" /\ l.status = "rejected" /\ l.to \in Recipients
    BY <2>1 DEF LogLine, Line, Outcomes
  <2> HIDE DEF l
  <2> QED BY <1>1, <2>2
<1>3. CASE ~NoQueueReject
  <2>1. PICK n \in Messages :
          \/ Arrive(n) \/ Headers(n) \/ ContentReject(n) \/ Activate(n) \/ Attempt(n)
          \/ Defer(n) \/ Finish(n) \/ Expire(n) \/ Delete(n)
    BY <1>3 DEF Postfix
  <2>2. Defers(n) \/ \E l \in Line : Logs(n, l)
    BY <2>1, MessageStep
  <2>3. ASSUME NEW l \in Line, Logs(n, l) PROVE LineInv'
    <3>1. l.kind = "delivery" => l.to \in todo[n] /\ l.status \in {"delivered", "deferred", "bounced"}
      BY <2>3 DEF Logs
    <3>2. l.kind = "reject" => l.to \in Recipients /\ l.status = "rejected"
      BY <2>3 DEF Logs
    <3>3. l.m # Null /\ log' = Append(log, l)
      BY <2>3, NullOutside DEF Logs
    <3> QED BY <1>0, <1>1, <3>1, <3>2, <3>3
  <2>4. CASE Defers(n)
    BY <2>4 DEF Defers, LineInv, Lines
  <2> QED BY <2>2, <2>3, <2>4
<1> QED BY <1>2, <1>3

\* The lines of any step.
LEMMA LinesKept ==
  ASSUME LogTypeOK, LinesInv, [LogNext]_logVars
  PROVE  LinesInv'
<1>1. CASE Postfix
  <2>1. LineInv'
    BY <1>1, LineKept DEF LinesInv
  <2>2. ASSUME NEW m \in Messages
        PROVE  (BeginInv(m) /\ QueuedInv(m) /\ AllToldInv(m) /\ ClosedInv(m) /\ WaitInv(m))'
    <3>1. BeginInv(m) /\ QueuedInv(m) /\ AllToldInv(m) /\ ClosedInv(m) /\ WaitInv(m)
      BY DEF LinesInv
    <3>2. Elsewhere(m) \/ Defers(m) \/ \E l \in Line : Logs(m, l)
      BY <1>1, PostfixStep
    <3>3. ASSUME NEW l, Logs(m, l)
          PROVE  (BeginInv(m) /\ QueuedInv(m) /\ AllToldInv(m) /\ ClosedInv(m) /\ WaitInv(m))'
      BY <3>1, <3>3, BeginKept, QueuedKept, AllToldKept, ClosedKept, WaitKept
    <3> QED BY <3>1, <3>2, <3>3, ElsewhereKeeps, DefersKeeps
  <2> QED BY <2>1, <2>2 DEF LinesInv
<1>2. ASSUME UNCHANGED <<postfix, late>> PROVE LinesInv'
  <2>1. /\ stage' = stage /\ todo' = todo /\ left' = left /\ log' = log /\ late' = late /\ Lines' = Lines
    BY <1>2 DEF postfix, Lines
  <2>2. LineInv'
    BY <2>1 DEF LinesInv, LineInv
  <2>3. ASSUME NEW m \in Messages
        PROVE  (BeginInv(m) /\ QueuedInv(m) /\ AllToldInv(m) /\ ClosedInv(m) /\ WaitInv(m))'
    <3>1. Elsewhere(m)
      BY <2>1 DEF Elsewhere
    <3> QED BY <3>1, ElsewhereKeeps DEF LinesInv
  <2> QED BY <2>2, <2>3 DEF LinesInv
<1>3. App => UNCHANGED <<postfix, late>>
  BY DEF App, Handle, HandleFails, Restart, Prune, history, postfix
<1> QED BY <1>1, <1>2, <1>3 DEF LogNext, logVars, history

\* No line is changed, and Postfix touches nothing of the app.
LEMMA LogKept ==
  ASSUME LogTypeOK, Postfix
  PROVE  /\ \A i \in 1 .. Len(log) : log'[i] = log[i]
         /\ Len(log)' >= Len(log)
         /\ UNCHANGED <<app, skipped, lost, half, seen, crashes, skips>>
         /\ late \subseteq late'
<1> USE DEF postfix, app, history
<1>1. /\ UNCHANGED <<app, skipped, lost, half, seen, crashes, skips>>
      /\ late \subseteq late'
  BY DEF Postfix, NoQueueReject, Arrive, Headers, ContentReject, Activate, Attempt, Defer, Finish, Expire, Delete
<1>2. Len(log) \in Nat /\ log \in Seq(Line) /\ Lines = 1 .. Len(log)
  BY Sized DEF LogTypeOK, Lines
<1>3. log' = log \/ \E l : log' = Append(log, l)
  BY DEF Postfix, NoQueueReject, Arrive, Headers, ContentReject, Activate, Attempt, Defer, Finish, Expire, Delete, LogLine
<1>4. ASSUME NEW l, log' = Append(log, l)
      PROVE  Len(log') = Len(log) + 1 /\ \A i \in 1 .. Len(log) : log'[i] = log[i]
  BY <1>2, <1>4
<1> QED BY <1>1, <1>2, <1>3, <1>4

-----------------------------------------------------------------------------
(* Rows and their status.                                                   *)

\* Min, by the one number that is not above any.
LEMMA MinIs ==
  ASSUME NEW S, S \subseteq Nat, NEW x \in S, \A y \in S : x <= y
  PROVE  Min(S) = x
<1>1. Min(S) \in S /\ \A y \in S : Min(S) <= y
  BY Least
<1>2. Min(S) \in Nat /\ x \in Nat /\ Min(S) <= x /\ x <= Min(S)
  BY <1>1
<1> QED BY <1>2

\* Max, by the one number that is not below any.
LEMMA MaxIs ==
  ASSUME NEW S, S \subseteq Nat, NEW x \in S, \A y \in S : y <= x
  PROVE  Max(S) = x
<1>1. \A y \in S : x >= y
  OBVIOUS
<1>2. Max(S) \in S /\ \A y \in S : Max(S) >= y
  BY <1>1 DEF Max
<1>3. Max(S) \in Nat /\ x \in Nat /\ Max(S) <= x /\ Max(S) >= x
  BY <1>2
<1> QED BY <1>3

\* The least of one number.
LEMMA MinOfOne == ASSUME NEW x \in Nat PROVE Min({x}) = x
BY MinIs

\* The status of a message for a recipient is that of the one row of both.
LEMMA StatusIs ==
  ASSUME LogTypeOK, RowInv, NEW m \in Messages, NEW r
  PROVE  /\ \A i \in DOMAIN mail_log :
              mail_log[i].queueId = m /\ mail_log[i].recipient = r =>
                Conflicting(m, r) = {i} /\ StatusIn(m, r) = mail_log[i].status
         /\ (\A i \in DOMAIN mail_log : ~(mail_log[i].queueId = m /\ mail_log[i].recipient = r)) =>
              Conflicting(m, r) = {} /\ StatusIn(m, r) = Null
<1>1. m # Null /\ DOMAIN mail_log \subseteq Nat
  BY NullOutside, Sized
<1>2. ASSUME NEW i \in DOMAIN mail_log, mail_log[i].queueId = m, mail_log[i].recipient = r
      PROVE  Conflicting(m, r) = {i} /\ StatusIn(m, r) = mail_log[i].status
  <2>1. Conflicting(m, r) = {i}
    BY <1>1, <1>2 DEF Conflicting, RowsOf, RowInv
  <2> QED BY <1>1, <2>1, MinOfOne DEF StatusIn
<1>3. ASSUME \A i \in DOMAIN mail_log : ~(mail_log[i].queueId = m /\ mail_log[i].recipient = r)
      PROVE  Conflicting(m, r) = {} /\ StatusIn(m, r) = Null
  BY <1>3 DEF Conflicting, RowsOf, StatusIn
<1> QED BY <1>2, <1>3

\* What a line does to the rows of the log, by what the row holds.
LEMMA RowsAfter ==
  ASSUME LogTypeOK, LinesInv, RowInv, Behind, Apply(log[pos + 1])
  PROVE  LET l == log[pos + 1]
         IN  /\ DOMAIN mail_log \subseteq DOMAIN mail_log'
             /\ \A i \in DOMAIN mail_log :
                  /\ mail_log'[i].queueId = mail_log[i].queueId
                  /\ mail_log'[i].recipient = mail_log[i].recipient
                  /\ mail_log[i].has \subseteq mail_log'[i].has
                  /\ mail_log'[i].status =
                       IF mail_log[i].queueId = l.m /\ l.m # Null
                       THEN Turns(pos + 1, l.m, mail_log[i].recipient, mail_log[i].status)
                       ELSE mail_log[i].status
             /\ \A i \in DOMAIN mail_log' \ DOMAIN mail_log :
                  /\ l.kind \in {"delivery", "reject"} /\ Conflicting(l.m, l.to) = {}
                  /\ DOMAIN mail_log' = DOMAIN mail_log \cup {i}
                  /\ mail_log'[i].queueId = l.m /\ mail_log'[i].recipient = l.to
                  /\ mail_log'[i].status = l.status
             /\ l.kind \in {"delivery", "reject"} /\ l.m # Null =>
                  \E i \in DOMAIN mail_log' : mail_log'[i].queueId = l.m /\ mail_log'[i].recipient = l.to
<1> DEFINE p == pos + 1
           l == log[p]
<1>1. /\ l \in Line /\ LineInv
      /\ l.kind # "reject" => l.m \in Messages
      /\ l.kind \in {"delivery", "reject"} => l.to \in Recipients /\ l.status \in Outcomes
      /\ l.m \in Messages \cup {Null}
  BY NextLine DEF Line, LinesInv
<1>2. \/ l.kind \notin {"expired", "deleted", "delivery", "reject"} /\ mail_log' = mail_log
      \/ l.kind \in {"expired", "deleted"} /\ Settled(l.m, l.kind)
      \/ /\ l.kind \in {"delivery", "reject"}
         /\ \E has \in SUBSET Pieces : Upsert(l.m, l.to, l.status, has)
  BY <1>1, ApplyIs
<1>3. \A r, s : Turns(p, l.m, r, s) = IF l.kind \in {"delivery", "reject"} /\ l.to = r THEN l.status
                                     ELSE IF l.kind \in {"expired", "deleted"} /\ s = "deferred" THEN l.kind
                                     ELSE s
  BY DEF Turns, Says, GivesUp
<1>4. /\ Len(mail_log) \in Nat /\ DOMAIN mail_log = 1 .. Len(mail_log)
      /\ mail_log' \in Seq(Row) => Len(mail_log') \in Nat /\ DOMAIN mail_log' = 1 .. Len(mail_log')
  BY Sized
<1> DEFINE Goal ==
     /\ DOMAIN mail_log \subseteq DOMAIN mail_log'
     /\ \A i \in DOMAIN mail_log :
          /\ mail_log'[i].queueId = mail_log[i].queueId
          /\ mail_log'[i].recipient = mail_log[i].recipient
          /\ mail_log[i].has \subseteq mail_log'[i].has
          /\ mail_log'[i].status =
               IF mail_log[i].queueId = l.m /\ l.m # Null
               THEN Turns(p, l.m, mail_log[i].recipient, mail_log[i].status)
               ELSE mail_log[i].status
     /\ \A i \in DOMAIN mail_log' \ DOMAIN mail_log :
          /\ l.kind \in {"delivery", "reject"} /\ Conflicting(l.m, l.to) = {}
          /\ DOMAIN mail_log' = DOMAIN mail_log \cup {i}
          /\ mail_log'[i].queueId = l.m /\ mail_log'[i].recipient = l.to
          /\ mail_log'[i].status = l.status
     /\ l.kind \in {"delivery", "reject"} /\ l.m # Null =>
          \E i \in DOMAIN mail_log' : mail_log'[i].queueId = l.m /\ mail_log'[i].recipient = l.to
<1> HIDE DEF l, p
<1>5. ASSUME l.kind \notin {"expired", "deleted", "delivery", "reject"}, mail_log' = mail_log PROVE Goal
  BY <1>3, <1>5
<1>6. ASSUME l.kind \in {"expired", "deleted"}, Settled(l.m, l.kind) PROVE Goal
  <2>1. /\ mail_log' \in Seq(Row) /\ Len(mail_log') = Len(mail_log)
        /\ \A i \in DOMAIN mail_log :
              /\ mail_log'[i].queueId = mail_log[i].queueId
              /\ mail_log'[i].recipient = mail_log[i].recipient
              /\ mail_log'[i].has = mail_log[i].has
              /\ mail_log'[i].status = IF mail_log[i].queueId = l.m /\ mail_log[i].status = "deferred"
                                       THEN l.kind ELSE mail_log[i].status
    BY <1>6, SettledIs
  <2>2. l.m # Null
    BY <1>1, <1>6, NullOutside
  <2> QED BY <1>3, <1>4, <1>6, <2>1, <2>2
<1>7. ASSUME l.kind \in {"delivery", "reject"}, NEW has \in SUBSET Pieces, Upsert(l.m, l.to, l.status, has)
      PROVE  Goal
  <2> DEFINE C == Conflicting(l.m, l.to)
  <2>1. \A i : i \in C <=> i \in DOMAIN mail_log /\ mail_log[i].queueId = l.m /\ l.m # Null /\ mail_log[i].recipient = l.to
    BY DEF Conflicting, RowsOf
  <2>2. /\ mail_log' \in Seq(Row)
        /\ \/ /\ C = {} /\ Len(mail_log') = Len(mail_log) + 1
              /\ \A i \in DOMAIN mail_log : mail_log'[i] = mail_log[i]
              /\ mail_log'[Len(mail_log) + 1]
                   = [queueId |-> l.m, recipient |-> l.to, status |-> l.status, has |-> has]
           \/ /\ C # {} /\ Len(mail_log') = Len(mail_log)
              /\ \A i \in DOMAIN mail_log :
                   /\ mail_log'[i].queueId = mail_log[i].queueId
                   /\ mail_log'[i].recipient = mail_log[i].recipient
                   /\ mail_log'[i].status = IF i \in C THEN l.status ELSE mail_log[i].status
                   /\ mail_log[i].has \subseteq mail_log'[i].has
    BY <1>1, <1>7, UpsertIs
  <2> HIDE DEF C
  <2>3. CASE C = {}
    <3>1. /\ DOMAIN mail_log' = DOMAIN mail_log \cup {Len(mail_log) + 1} /\ Len(mail_log) + 1 \notin DOMAIN mail_log
          /\ \A i \in DOMAIN mail_log : mail_log'[i] = mail_log[i]
          /\ mail_log'[Len(mail_log) + 1].queueId = l.m /\ mail_log'[Len(mail_log) + 1].recipient = l.to
          /\ mail_log'[Len(mail_log) + 1].status = l.status
      BY <1>4, <2>2, <2>3
    <3>2. \A i \in DOMAIN mail_log :
            mail_log'[i].status = IF mail_log[i].queueId = l.m /\ l.m # Null
                                  THEN Turns(p, l.m, mail_log[i].recipient, mail_log[i].status)
                                  ELSE mail_log[i].status
      BY <1>3, <1>7, <2>1, <2>3, <3>1
    <3> QED BY <1>7, <2>3, <3>1, <3>2 DEF C
  <2>4. CASE C # {}
    <3>1. /\ DOMAIN mail_log' = DOMAIN mail_log
          /\ \A i \in DOMAIN mail_log :
                   /\ mail_log'[i].queueId = mail_log[i].queueId
                   /\ mail_log'[i].recipient = mail_log[i].recipient
                   /\ mail_log'[i].status = IF i \in C THEN l.status ELSE mail_log[i].status
                   /\ mail_log[i].has \subseteq mail_log'[i].has
      BY <1>4, <2>2, <2>4
    <3>2. \A i \in DOMAIN mail_log :
            mail_log'[i].status = IF mail_log[i].queueId = l.m /\ l.m # Null
                                  THEN Turns(p, l.m, mail_log[i].recipient, mail_log[i].status)
                                  ELSE mail_log[i].status
      BY <1>3, <1>7, <2>1, <3>1
    <3> QED BY <1>7, <2>1, <2>4, <3>1, <3>2
  <2> QED BY <2>3, <2>4
<1>8. Goal
  <2> HIDE DEF Goal
  <2> QED BY <1>2, <1>5, <1>6, <1>7
<1> HIDE DEF Goal
<1> QED BY <1>8 DEF Goal, l, p

\* The rows of any step.
LEMMA RowsKept ==
  ASSUME LogTypeOK, LinesInv, RowInv, [LogNext]_logVars
  PROVE  RowInv'
<1> USE DEF postfix, app, history
<1>1. LogTypeOK'
  BY StepIsTyped DEF LinesInv
<1>2. ASSUME mail_log' = mail_log, seen' >= seen, \A i \in 1 .. seen : log'[i] = log[i] PROVE RowInv'
  <2>1. seen \in Nat /\ seen' \in Nat
    BY <1>1 DEF LogTypeOK
  <2>2. \A m, r : \A j \in 1 .. seen : Says(j, m, r) => Says(j, m, r)' /\ j \in 1 .. seen'
    BY <1>2, <2>1 DEF Says
  <2> QED BY <1>2, <2>2 DEF RowInv
<1>3. seen \in Nat /\ Len(log) \in Nat /\ seen <= Len(log) /\ pos \in Nat /\ DOMAIN log = 1 .. Len(log)
  BY Sized DEF LogTypeOK, Lines
<1>4. Behind /\ Advance => pos + 1 <= seen' /\ seen' >= seen /\ seen' \in Nat
  BY <1>3, MaxOfTwo DEF Advance
<1>5. CASE Handle
  <2> DEFINE p == pos + 1
             l == log[p]
  <2>1. /\ DOMAIN mail_log \subseteq DOMAIN mail_log'
        /\ \A i \in DOMAIN mail_log :
             /\ mail_log'[i].queueId = mail_log[i].queueId
             /\ mail_log'[i].recipient = mail_log[i].recipient
             /\ mail_log[i].queueId = Null => mail_log'[i].status = mail_log[i].status
        /\ \A i \in DOMAIN mail_log' \ DOMAIN mail_log :
             /\ l.kind \in {"delivery", "reject"} /\ Conflicting(l.m, l.to) = {}
             /\ DOMAIN mail_log' = DOMAIN mail_log \cup {i}
             /\ mail_log'[i].queueId = l.m /\ mail_log'[i].recipient = l.to
             /\ mail_log'[i].status = l.status
    BY <1>5, RowsAfter DEF Handle
  <2>2. p \in Lines /\ p \in 1 .. seen' /\ seen' >= seen /\ seen' \in Nat /\ log' = log
    BY <1>3, <1>4, <1>5 DEF Handle, Behind, Lines
  <2>3. l.m = Null /\ l.kind \in {"delivery", "reject"} => l.status = "rejected"
    BY <2>2 DEF LinesInv, LineInv
  <2> HIDE DEF p, l
  <2>4. ASSUME NEW i \in DOMAIN mail_log'
        PROVE  /\ mail_log'[i].queueId = Null => mail_log'[i].status = "rejected"
               /\ mail_log'[i].queueId # Null =>
                    (\E j \in 1 .. seen : Says(j, mail_log[i].queueId, mail_log[i].recipient))'
    <3>1. CASE i \in DOMAIN mail_log
      BY <1>3, <2>1, <2>2, <3>1 DEF RowInv, Says
    <3>2. CASE i \notin DOMAIN mail_log
      <4>1. Says(p, l.m, l.to)
        BY <2>1, <3>2 DEF Says, l
      <4>2. p \in 1 .. seen' /\ log'[p].m = l.m /\ log'[p].kind \in {"delivery", "reject"} /\ log'[p].to = l.to
        BY <2>2, <4>1 DEF Says
      <4>3. (\E j \in 1 .. seen : Says(j, mail_log[i].queueId, mail_log[i].recipient))'
        BY <2>1, <3>2, <4>2 DEF Says
      <4> QED BY <2>1, <2>3, <3>2, <4>3
    <3> QED BY <3>1, <3>2
  <2>5. ASSUME NEW i \in DOMAIN mail_log', NEW j \in DOMAIN mail_log',
               mail_log'[i].queueId # Null, mail_log'[i].queueId = mail_log'[j].queueId,
               mail_log'[i].recipient = mail_log'[j].recipient
        PROVE  i = j
    <3>1. CASE i \in DOMAIN mail_log /\ j \in DOMAIN mail_log
      BY <2>1, <2>5, <3>1 DEF RowInv
    <3>2. ASSUME NEW a \in DOMAIN mail_log, mail_log[a].queueId = l.m, mail_log[a].recipient = l.to, l.m # Null
          PROVE  Conflicting(l.m, l.to) # {}
      BY <3>2 DEF Conflicting, RowsOf
    <3>3. CASE i \in DOMAIN mail_log /\ j \notin DOMAIN mail_log
      BY <2>1, <2>5, <3>2, <3>3
    <3>4. CASE i \notin DOMAIN mail_log /\ j \in DOMAIN mail_log
      BY <2>1, <2>5, <3>2, <3>4
    <3>5. CASE i \notin DOMAIN mail_log /\ j \notin DOMAIN mail_log
      BY <2>1, <2>5, <3>5
    <3> QED BY <3>1, <3>3, <3>4, <3>5
  <2> QED BY <2>4, <2>5 DEF RowInv
<1>6. CASE App /\ ~Handle
  <2>1. /\ mail_log' = mail_log /\ log' = log
        /\ seen' = seen \/ (Behind /\ Advance) \/ \E from \in 0 .. Len(log) : seen' = Max({seen, from})
    BY <1>6 DEF App, HandleFails, Restart, Prune
  <2>2. \A from \in 0 .. Len(log) : Max({seen, from}) >= seen
    <3> SUFFICES ASSUME NEW from \in 0 .. Len(log) PROVE Max({seen, from}) >= seen
      OBVIOUS
    <3>1. from \in Nat
      BY <1>3
    <3>2. Max({seen, from}) = IF seen >= from THEN seen ELSE from
      BY <1>3, <3>1, MaxOfTwo
    <3> QED BY <1>3, <3>1, <3>2
  <2>3. ASSUME NEW from \in 0 .. Len(log), seen' = Max({seen, from}) PROVE seen' >= seen
    BY <2>2, <2>3
  <2>4. seen' = seen => seen' >= seen
    BY <1>3
  <2>5. seen' >= seen
    BY <1>4, <2>1, <2>3, <2>4
  <2> QED BY <1>2, <1>3, <2>1, <2>5
<1>7. CASE Postfix
  <2>1. mail_log' = mail_log /\ seen' = seen
    BY <1>7 DEF Postfix, NoQueueReject, Arrive, Headers, ContentReject, Activate, Attempt, Defer, Finish, Expire, Delete
  <2>2. \A i \in 1 .. seen : log'[i] = log[i]
    BY <1>3, <1>7, LogKept
  <2> QED BY <1>2, <1>3, <2>1, <2>2
<1>8. CASE UNCHANGED logVars
  BY <1>2, <1>3, <1>8 DEF logVars
<1> QED BY <1>5, <1>6, <1>7, <1>8 DEF LogNext

-----------------------------------------------------------------------------
(* Reading lines again.                                                     *)

\* What the lines leave a recipient with, read off as After does.
LEMMA AfterIs ==
  ASSUME NEW n \in Nat, NEW m, NEW r, NEW s, LeavesWith(n, m, r, s)
  PROVE  After(n, m, r) = s
<1> DEFINE said == {i \in 1 .. n : Says(i, m, r)}
<1>1. CASE s = Null /\ \A i \in 1 .. n : ~Says(i, m, r)
  BY <1>1 DEF After
<1>2. CASE ~(s = Null /\ \A i \in 1 .. n : ~Says(i, m, r))
  <2>1. PICK i \in 1 .. n :
          /\ Says(i, m, r) /\ \A j \in i + 1 .. n : ~Says(j, m, r)
          /\ \/ s = log[i].status /\ (s = "deferred" => \A j \in i + 1 .. n : ~GivesUp(j, m))
             \/ /\ log[i].status = "deferred"
                /\ \E e \in i + 1 .. n :
                     GivesUp(e, m) /\ s = log[e].kind /\ \A j \in i + 1 .. e - 1 : ~GivesUp(j, m)
    BY <1>2 DEF LeavesWith
  <2>2. i \in said /\ said \subseteq Nat /\ \A y \in said : y <= i
    BY <2>1
  <2>3. Max(said) = i
    BY <2>2, MaxIs
  <2> DEFINE ends == {j \in i + 1 .. n : GivesUp(j, m)}
  <2>4. After(n, m, r) = IF log[i].status = "deferred" /\ ends # {} THEN log[Min(ends)].kind ELSE log[i].status
    BY <2>2, <2>3 DEF After
  <2>5. CASE s = log[i].status /\ (s = "deferred" => \A j \in i + 1 .. n : ~GivesUp(j, m))
    BY <2>4, <2>5
  <2>6. ASSUME log[i].status = "deferred", NEW e \in i + 1 .. n, GivesUp(e, m), s = log[e].kind,
               \A j \in i + 1 .. e - 1 : ~GivesUp(j, m)
        PROVE  After(n, m, r) = s
    <3>1. e \in ends /\ ends \subseteq Nat /\ \A y \in ends : e <= y
      BY <2>1, <2>6
    <3>2. Min(ends) = e
      BY <3>1, MinIs
    <3> QED BY <2>4, <2>6, <3>1, <3>2
  <2> QED BY <2>1, <2>5, <2>6
<1> QED BY <1>1, <1>2

\* One more line turns what the lines before it leave.
LEMMA LeavesNext ==
  ASSUME NEW n \in Nat, NEW m, NEW r, NEW s, LeavesWith(n, m, r, s)
  PROVE  LeavesWith(n + 1, m, r, Turns(n + 1, m, r, s))
<1> DEFINE p == n + 1
<1>1. p \in Nat /\ p \in 1 .. p /\ \A i \in 1 .. p : i \in 1 .. n \/ i = p
  OBVIOUS
<1>2. CASE Says(p, m, r)
  <2>1. Turns(p, m, r, s) = log[p].status
    BY <1>2 DEF Turns
  <2>2. p + 1 .. p = {}
    BY <1>1
  <2> QED BY <1>1, <1>2, <2>1, <2>2 DEF LeavesWith
<1>3. CASE ~Says(p, m, r) /\ s = Null /\ \A i \in 1 .. n : ~Says(i, m, r)
  <2>1. Turns(p, m, r, s) = s
    BY <1>3, NullOutside DEF Turns, Outcomes
  <2> QED BY <1>1, <1>3, <2>1 DEF LeavesWith
<1>4. ASSUME ~Says(p, m, r), NEW i \in 1 .. n, Says(i, m, r), \A j \in i + 1 .. n : ~Says(j, m, r),
             \/ s = log[i].status /\ (s = "deferred" => \A j \in i + 1 .. n : ~GivesUp(j, m))
             \/ /\ log[i].status = "deferred"
                /\ \E e \in i + 1 .. n :
                     GivesUp(e, m) /\ s = log[e].kind /\ \A j \in i + 1 .. e - 1 : ~GivesUp(j, m)
      PROVE  LeavesWith(p, m, r, Turns(p, m, r, s))
  <2>1. i \in 1 .. p /\ \A j \in i + 1 .. p : ~Says(j, m, r)
    BY <1>1, <1>4
  <2>2. \A j \in i + 1 .. p : j \in i + 1 .. n \/ j = p
    BY <1>1
  <2>3. CASE GivesUp(p, m) /\ s = "deferred"
    <3>1. Turns(p, m, r, s) = log[p].kind
      BY <1>4, <2>3 DEF Turns
    <3>2. log[i].status = "deferred" /\ \A j \in i + 1 .. n : ~GivesUp(j, m)
      <4>1. \A e : GivesUp(e, m) => log[e].kind # "deferred"
        BY DEF GivesUp
      <4> QED BY <1>4, <2>3, <4>1
    <3>3. p \in i + 1 .. p /\ \A j \in i + 1 .. p - 1 : ~GivesUp(j, m)
      BY <3>2
    <3> QED BY <1>4, <2>1, <2>3, <3>1, <3>2, <3>3 DEF LeavesWith
  <2>4. CASE ~(GivesUp(p, m) /\ s = "deferred")
    <3>1. Turns(p, m, r, s) = s
      BY <1>4, <2>4 DEF Turns
    <3>2. CASE s = log[i].status /\ (s = "deferred" => \A j \in i + 1 .. n : ~GivesUp(j, m))
      <4>1. s = "deferred" => \A j \in i + 1 .. p : ~GivesUp(j, m)
        BY <2>2, <2>4, <3>2
      <4> QED BY <1>4, <2>1, <3>1, <3>2, <4>1 DEF LeavesWith
    <3>3. CASE /\ log[i].status = "deferred"
               /\ \E e \in i + 1 .. n :
                     GivesUp(e, m) /\ s = log[e].kind /\ \A j \in i + 1 .. e - 1 : ~GivesUp(j, m)
      <4>1. \E e \in i + 1 .. p :
                     GivesUp(e, m) /\ s = log[e].kind /\ \A j \in i + 1 .. e - 1 : ~GivesUp(j, m)
        BY <3>3
      <4> QED BY <1>4, <2>1, <3>1, <3>3, <4>1 DEF LeavesWith
    <3> QED BY <1>4, <3>2, <3>3
  <2> QED BY <2>3, <2>4
<1>6. \/ s = Null /\ \A i \in 1 .. n : ~Says(i, m, r)
      \/ \E i \in 1 .. n :
           /\ Says(i, m, r) /\ \A j \in i + 1 .. n : ~Says(j, m, r)
           /\ \/ s = log[i].status /\ (s = "deferred" => \A j \in i + 1 .. n : ~GivesUp(j, m))
              \/ /\ log[i].status = "deferred"
                 /\ \E e \in i + 1 .. n :
                      GivesUp(e, m) /\ s = log[e].kind /\ \A j \in i + 1 .. e - 1 : ~GivesUp(j, m)
  BY DEF LeavesWith
<1>5. LeavesWith(p, m, r, Turns(p, m, r, s))
  <2>1. CASE Says(p, m, r) \/ (s = Null /\ \A i \in 1 .. n : ~Says(i, m, r))
    BY <1>2, <1>3, <2>1
  <2>2. ASSUME ~Says(p, m, r),
               NEW i \in 1 .. n, Says(i, m, r) /\ \A j \in i + 1 .. n : ~Says(j, m, r),
               \/ s = log[i].status /\ (s = "deferred" => \A j \in i + 1 .. n : ~GivesUp(j, m))
               \/ /\ log[i].status = "deferred"
                  /\ \E e \in i + 1 .. n :
                       GivesUp(e, m) /\ s = log[e].kind /\ \A j \in i + 1 .. e - 1 : ~GivesUp(j, m)
        PROVE  LeavesWith(p, m, r, Turns(p, m, r, s))
    BY <1>4, <2>2
  <2> QED BY <1>6, <2>1, <2>2
<1> QED BY <1>5

\* A line that is read again leads where the lines before it were going.
LEMMA LeadsOn ==
  ASSUME NEW n \in Nat, NEW m, NEW r, NEW s, NEW t, NEW b \in Nat, b + 1 <= n, NEW k \in 0 .. b + 1,
         LeavesWith(n, m, r, t), Leads(b, n, m, r, s, t), k <= b => Leads(k, n, m, r, s, t)
  PROVE  Leads(k, n, m, r, Turns(b + 1, m, r, s), t)
<1> DEFINE p == b + 1
<1>1. p \in 1 .. n /\ p \in b + 1 .. n /\ \A i \in b + 1 .. n : i = p \/ i \in p + 1 .. n
  OBVIOUS
<1>2. CASE \E i \in k + 1 .. n : Says(i, m, r)
  BY <1>2 DEF Leads
<1>3. CASE Says(p, m, r) /\ \A i \in k + 1 .. n : ~Says(i, m, r)
  <2>1. k = p
    BY <1>1, <1>3
  <2>2. Turns(p, m, r, s) = log[p].status
    BY <1>3 DEF Turns
  <2>3. PICK i \in 1 .. n :
       /\ Says(i, m, r) /\ \A j \in i + 1 .. n : ~Says(j, m, r)
       /\ \/ t = log[i].status /\ (t = "deferred" => \A j \in i + 1 .. n : ~GivesUp(j, m))
          \/ /\ log[i].status = "deferred"
             /\ \E e \in i + 1 .. n :
                  GivesUp(e, m) /\ t = log[e].kind /\ \A j \in i + 1 .. e - 1 : ~GivesUp(j, m)
    BY <1>1, <1>3 DEF LeavesWith
  <2>4. i = p
    BY <1>1, <1>3, <2>1, <2>3
  <2> QED BY <2>1, <2>2, <2>3, <2>4 DEF Leads
<1>4. CASE ~Says(p, m, r) /\ ~(\E i \in k + 1 .. n : Says(i, m, r))
  <2>1. \A i \in b + 1 .. n : ~Says(i, m, r)
    BY <1>1, <1>4
  <2>2. CASE GivesUp(p, m) /\ s = "deferred"
    <3>1. Turns(p, m, r, s) = log[p].kind /\ log[p].kind # "deferred"
      BY <1>4, <2>2 DEF Turns, GivesUp
    <3>2. PICK e \in b + 1 .. n : GivesUp(e, m) /\ t = log[e].kind /\ \A j \in b + 1 .. e - 1 : ~GivesUp(j, m)
      BY <1>1, <2>1, <2>2 DEF Leads
    <3>3. e = p
      BY <1>1, <2>2, <3>2
    <3> QED BY <3>1, <3>2, <3>3 DEF Leads
  <2>3. CASE ~(GivesUp(p, m) /\ s = "deferred")
    <3>1. Turns(p, m, r, s) = s
      BY <1>4, <2>3 DEF Turns
    <3>2. CASE k <= b
      BY <3>1, <3>2
    <3>3. CASE k = p
      <4>1. CASE s = t /\ (s = "deferred" => \A j \in b + 1 .. n : ~GivesUp(j, m))
        <5>1. s = "deferred" => \A j \in k + 1 .. n : ~GivesUp(j, m)
          BY <3>3, <4>1
        <5> QED BY <3>1, <4>1, <5>1 DEF Leads
      <4>2. ASSUME s = "deferred", NEW e \in b + 1 .. n, GivesUp(e, m), t = log[e].kind,
                   \A j \in b + 1 .. e - 1 : ~GivesUp(j, m)
            PROVE  Leads(k, n, m, r, s, t)
        <5>1. e # p
          BY <2>3, <4>2
        <5>2. e \in k + 1 .. n /\ \A j \in k + 1 .. e - 1 : ~GivesUp(j, m)
          BY <3>3, <4>2, <5>1
        <5> QED BY <4>2, <5>2 DEF Leads
      <4>3. Leads(k, n, m, r, s, t)
        BY <2>1, <4>1, <4>2, <3>1 DEF Leads
      <4> QED BY <3>1, <4>3
    <3>4. k <= b \/ k = p
      OBVIOUS
    <3> QED BY <3>2, <3>3, <3>4
  <2> QED BY <2>2, <2>3
<1> QED BY <1>2, <1>3, <1>4

\* A line that is read for the first time leads to what it leaves.
LEMMA LeadsNew ==
  ASSUME NEW n \in Nat, NEW m, NEW r, NEW s, NEW t, NEW k \in 0 .. n + 1,
         Leads(n, n, m, r, s, t), k <= n => Leads(k, n, m, r, s, t)
  PROVE  s = t /\ Leads(k, n + 1, m, r, Turns(n + 1, m, r, s), Turns(n + 1, m, r, s))
<1> DEFINE p == n + 1
<1>1. s = t
  <2>1. n + 1 .. n = {}
    OBVIOUS
  <2> QED BY <2>1 DEF Leads
<1>2. CASE \E i \in k + 1 .. p : Says(i, m, r)
  BY <1>1, <1>2 DEF Leads
<1>3. CASE ~(\E i \in k + 1 .. p : Says(i, m, r)) /\ k <= n
  <2>1. ~Says(p, m, r) /\ p \in k + 1 .. p /\ \A i \in k + 1 .. n : ~Says(i, m, r)
    BY <1>3
  <2>2. Turns(p, m, r, s) = "deferred" => s = "deferred" /\ ~GivesUp(p, m)
    BY <2>1 DEF Turns, GivesUp
  <2>3. \A e : GivesUp(e, m) => log[e].kind # "deferred"
    BY DEF GivesUp
  <2>4. s = "deferred" => \A j \in k + 1 .. n : ~GivesUp(j, m)
    BY <1>1, <1>3, <2>1, <2>3 DEF Leads
  <2>5. Turns(p, m, r, s) = "deferred" => \A j \in k + 1 .. p : ~GivesUp(j, m)
    <3>1. \A j \in k + 1 .. p : j \in k + 1 .. n \/ j = p
      OBVIOUS
    <3> QED BY <2>2, <2>4, <3>1
  <2> QED BY <1>1, <2>5 DEF Leads
<1>4. CASE k = p
  <2>1. k + 1 .. p = {}
    BY <1>4
  <2> QED BY <1>1, <2>1 DEF Leads
<1> QED BY <1>2, <1>3, <1>4

\* Lines that stay say what they said.
LEMMA SameLines ==
  ASSUME NEW n \in Nat, NEW m, NEW r, NEW s, NEW t, NEW k \in Nat, \A i \in 1 .. n : log'[i] = log[i]
  PROVE  /\ LeavesWith(n, m, r, s) => LeavesWith(n, m, r, s)'
         /\ Leads(k, n, m, r, s, t) => Leads(k, n, m, r, s, t)'
<1>1. \A i \in 1 .. n : (Says(i, m, r) <=> Says(i, m, r)') /\ (GivesUp(i, m) <=> GivesUp(i, m)')
  BY DEF Says, GivesUp
<1>2. LeavesWith(n, m, r, s) => LeavesWith(n, m, r, s)'
  BY <1>1 DEF LeavesWith
<1>3. Leads(k, n, m, r, s, t) => Leads(k, n, m, r, s, t)'
  BY <1>1 DEF Leads
<1> QED BY <1>2, <1>3

\* A line that is handled turns the status of each recipient.
LEMMA StatusTurns ==
  ASSUME LogTypeOK, LinesInv, RowInv, LogTypeOK', RowInv', Behind, Apply(log[pos + 1]),
         NEW m \in Messages, NEW r \in Recipients
  PROVE  StatusIn(m, r)' = Turns(pos + 1, m, r, StatusIn(m, r))
<1> DEFINE p == pos + 1
           l == log[p]
<1>1. m # Null
  BY NullOutside
<1>2. /\ DOMAIN mail_log \subseteq DOMAIN mail_log'
      /\ \A i \in DOMAIN mail_log :
                  /\ mail_log'[i].queueId = mail_log[i].queueId
                  /\ mail_log'[i].recipient = mail_log[i].recipient
                  /\ mail_log'[i].status =
                       IF mail_log[i].queueId = l.m /\ l.m # Null
                       THEN Turns(p, l.m, mail_log[i].recipient, mail_log[i].status)
                       ELSE mail_log[i].status
      /\ \A i \in DOMAIN mail_log' \ DOMAIN mail_log :
                  /\ l.kind \in {"delivery", "reject"} /\ Conflicting(l.m, l.to) = {}
                  /\ mail_log'[i].queueId = l.m /\ mail_log'[i].recipient = l.to
                  /\ mail_log'[i].status = l.status
      /\ l.kind \in {"delivery", "reject"} /\ l.m # Null =>
                  \E i \in DOMAIN mail_log' : mail_log'[i].queueId = l.m /\ mail_log'[i].recipient = l.to
  BY RowsAfter
<1>3. ASSUME NEW i \in DOMAIN mail_log', mail_log'[i].queueId = m, mail_log'[i].recipient = r
      PROVE  StatusIn(m, r)' = mail_log'[i].status
  <2>1. DOMAIN mail_log' \subseteq Nat
    BY DEF LogTypeOK
  <2>2. Conflicting(m, r)' = {i}
    BY <1>1, <1>3, <2>1 DEF Conflicting, RowsOf, RowInv
  <2> QED BY <1>3, <2>1, <2>2, MinOfOne DEF StatusIn
<1>4. (\A i \in DOMAIN mail_log' : ~(mail_log'[i].queueId = m /\ mail_log'[i].recipient = r)) => StatusIn(m, r)' = Null
  BY DEF Conflicting, RowsOf, StatusIn
<1>5. l.m # m => \A s : Turns(p, m, r, s) = s
  BY DEF Turns, Says, GivesUp
<1>6. Says(p, m, r) <=> l.m = m /\ l.kind \in {"delivery", "reject"} /\ l.to = r
  BY DEF Says
<1> HIDE DEF l, p
<1>7. ASSUME NEW i \in DOMAIN mail_log, mail_log[i].queueId = m, mail_log[i].recipient = r
      PROVE  StatusIn(m, r)' = Turns(p, m, r, StatusIn(m, r))
  <2>1. StatusIn(m, r) = mail_log[i].status
    BY <1>7, StatusIs
  <2>2. StatusIn(m, r)' = mail_log'[i].status
    BY <1>2, <1>3, <1>7
  <2> QED BY <1>1, <1>2, <1>5, <1>7, <2>1, <2>2
<1>8. ASSUME \A i \in DOMAIN mail_log : ~(mail_log[i].queueId = m /\ mail_log[i].recipient = r)
      PROVE  StatusIn(m, r)' = Turns(p, m, r, StatusIn(m, r))
  <2>1. StatusIn(m, r) = Null
    BY <1>8, StatusIs
  <2>2. CASE Says(p, m, r)
    <3>1. PICK i \in DOMAIN mail_log' : mail_log'[i].queueId = l.m /\ mail_log'[i].recipient = l.to
      BY <1>1, <1>2, <1>6, <2>2
    <3>2. i \notin DOMAIN mail_log
      BY <1>2, <1>6, <1>8, <2>2, <3>1
    <3>3. StatusIn(m, r)' = l.status
      BY <1>2, <1>3, <1>6, <2>2, <3>1, <3>2
    <3> QED BY <2>2, <3>3 DEF Turns, l
  <2>3. CASE ~Says(p, m, r)
    <3>1. Turns(p, m, r, Null) = Null
      BY <2>3, NullOutside DEF Turns, Outcomes
    <3>2. \A i \in DOMAIN mail_log' : ~(mail_log'[i].queueId = m /\ mail_log'[i].recipient = r)
      BY <1>2, <1>6, <1>8, <2>3
    <3> QED BY <1>4, <2>1, <3>1, <3>2
  <2> QED BY <2>2, <2>3
<1>9. StatusIn(m, r)' = Turns(p, m, r, StatusIn(m, r))
  BY <1>7, <1>8
<1> QED BY <1>9 DEF p

\* The invariant of replaying, when a line turned the status of m for r.
LEMMA ReplayAdvances ==
  ASSUME LogTypeOK, LineInv, NEW m \in Messages, NEW r \in Recipients, ReplayInv(m, r), Behind, Advance,
         log' = log, StatusIn(m, r)' = Turns(pos + 1, m, r, StatusIn(m, r))
  PROVE  ReplayInv(m, r)'
<1>1. /\ seen \in Nat /\ pos \in Nat /\ Len(log) \in Nat
      /\ pos <= seen /\ pos + 1 <= Len(log)
  BY Sized DEF LogTypeOK, Behind
<1>2. PICK t \in Outcomes \cup {"expired", "deleted", Null} :
        /\ LeavesWith(seen, m, r, t)
        /\ \A k \in 0 .. pos : Leads(k, seen, m, r, StatusIn(m, r), t)
  BY DEF ReplayInv
<1>3. pos' = pos + 1 /\ seen' = IF seen >= pos + 1 THEN seen ELSE pos + 1
  BY <1>1, MaxOfTwo DEF Advance
<1> DEFINE s == StatusIn(m, r)
           p == pos + 1
<1>4. Leads(pos, seen, m, r, s, t)
  BY <1>1, <1>2
<1>6. CASE seen >= p
  <2>1. ASSUME NEW k \in 0 .. p PROVE Leads(k, seen, m, r, Turns(p, m, r, s), t)
    BY <1>1, <1>2, <1>4, <1>6, LeadsOn
  <2> QED BY <1>2, <1>3, <1>6, <2>1 DEF ReplayInv, LeavesWith, Leads, Says, GivesUp
<1>7. CASE seen = pos
  <2> DEFINE u == Turns(p, m, r, s)
  <2>1. ASSUME NEW k \in 0 .. p PROVE s = t /\ Leads(k, p, m, r, u, u)
    BY <1>1, <1>2, <1>4, <1>7, LeadsNew
  <2>2. s = t
    BY <1>1, <2>1
  <2>3. LeavesWith(p, m, r, u)
    BY <1>1, <1>2, <1>7, <2>2, LeavesNext
  <2>4. u \in Outcomes \cup {"expired", "deleted", Null}
    <3>1. p \in Lines /\ log[p] \in Line
      BY <1>1, Sized DEF Lines
    <3> QED BY <1>2, <2>2, <3>1 DEF Turns, Says, GivesUp, LineInv, Outcomes
  <2>5. PICK n, v : n = p /\ v = u
    OBVIOUS
  <2>6. n \in Nat /\ \A i \in 1 .. n : log'[i] = log[i]
    BY <1>1, <2>5
  <2>7. LeavesWith(n, m, r, v)'
    BY <2>3, <2>5, <2>6, SameLines
  <2>8. \A k \in 0 .. n : Leads(k, n, m, r, v, v)'
    <3>1. \A k \in 0 .. n : k \in Nat /\ Leads(k, n, m, r, v, v)
      BY <1>1, <2>1, <2>5
    <3> QED BY <2>6, <3>1, SameLines
  <2>9. seen' = n /\ pos' = n /\ StatusIn(m, r)' = v /\ v \in Outcomes \cup {"expired", "deleted", Null}
    BY <1>1, <1>3, <1>7, <2>4, <2>5
  <2> QED BY <2>7, <2>8, <2>9 DEF ReplayInv
<1> QED BY <1>1, <1>6, <1>7

\* The invariant of replaying, when no line is handled.
LEMMA ReplayStays ==
  ASSUME LogTypeOK, NEW m \in Messages, NEW r \in Recipients, ReplayInv(m, r),
         \A i \in 1 .. seen : log'[i] = log[i], UNCHANGED <<mail_log, seen>>,
         pos' \in 0 .. pos
  PROVE  ReplayInv(m, r)'
<1>1. PICK t \in Outcomes \cup {"expired", "deleted", Null} :
        /\ LeavesWith(seen, m, r, t)
        /\ \A k \in 0 .. pos : Leads(k, seen, m, r, StatusIn(m, r), t)
  BY DEF ReplayInv
<1>2. PICK n, s : n = seen /\ s = StatusIn(m, r)
  OBVIOUS
<1>3. n \in Nat /\ pos \in Nat
  BY <1>2, Sized
<1>4. LeavesWith(n, m, r, t)'
  BY <1>1, <1>2, <1>3, SameLines
<1>5. \A k \in 0 .. pos : Leads(k, n, m, r, s, t)'
  <2>1. \A k \in 0 .. pos : k \in Nat /\ Leads(k, n, m, r, s, t)
    BY <1>1, <1>2, <1>3
  <2> QED BY <1>2, <1>3, <2>1, SameLines
<1>6. StatusIn(m, r)' = s /\ seen' = n
  BY <1>2 DEF StatusIn, Conflicting, RowsOf
<1>7. \A k \in 0 .. pos' : Leads(k, n, m, r, s, t)'
  BY <1>3, <1>5
<1> QED BY <1>4, <1>6, <1>7 DEF ReplayInv

\* Lines that say nothing of m change nothing of what the lines before them leave r with, or lead to.
LEMMA LeavesLonger ==
  ASSUME NEW a \in Nat, NEW n \in Nat, a <= n, NEW m, NEW r, NEW t, LeavesWith(a, m, r, t),
         \A i \in a + 1 .. n : ~Says(i, m, r) /\ ~GivesUp(i, m)
  PROVE  LeavesWith(n, m, r, t)
<1>1. CASE t = Null /\ \A i \in 1 .. a : ~Says(i, m, r)
  BY <1>1 DEF LeavesWith
<1>2. ASSUME NEW i \in 1 .. a, Says(i, m, r), \A j \in i + 1 .. a : ~Says(j, m, r),
             \/ t = log[i].status /\ (t = "deferred" => \A j \in i + 1 .. a : ~GivesUp(j, m))
             \/ /\ log[i].status = "deferred"
                /\ \E e \in i + 1 .. a :
                     GivesUp(e, m) /\ t = log[e].kind /\ \A j \in i + 1 .. e - 1 : ~GivesUp(j, m)
      PROVE  LeavesWith(n, m, r, t)
  <2>1. i \in 1 .. n /\ i + 1 .. a \subseteq i + 1 .. n /\ \A j \in i + 1 .. n : j \in i + 1 .. a \/ j \in a + 1 .. n
    OBVIOUS
  <2>2. \A j \in i + 1 .. n : ~Says(j, m, r)
    BY <1>2, <2>1
  <2>3. (\A j \in i + 1 .. a : ~GivesUp(j, m)) => \A j \in i + 1 .. n : ~GivesUp(j, m)
    BY <2>1
  <2> QED BY <1>2, <2>1, <2>2, <2>3 DEF LeavesWith
<1> QED BY <1>1, <1>2 DEF LeavesWith

LEMMA LeadsLonger ==
  ASSUME NEW k \in Nat, NEW a \in Nat, NEW n \in Nat, k <= a, a <= n, NEW m, NEW r, NEW s, NEW t,
         Leads(k, a, m, r, s, t), \A i \in a + 1 .. n : ~Says(i, m, r) /\ ~GivesUp(i, m)
  PROVE  Leads(k, n, m, r, s, t)
<1>1. k + 1 .. a \subseteq k + 1 .. n /\ \A j \in k + 1 .. n : j \in k + 1 .. a \/ j \in a + 1 .. n
  OBVIOUS
<1> QED BY <1>1 DEF Leads

LEMMA LeadsLater ==
  ASSUME NEW k \in Nat, NEW b \in Nat, NEW n \in Nat, k <= b, NEW m, NEW r, NEW s, NEW t,
         Leads(k, n, m, r, s, t), \A i \in k + 1 .. b : ~Says(i, m, r) /\ ~GivesUp(i, m)
  PROVE  Leads(b, n, m, r, s, t)
<1>1. \A j \in k + 1 .. n : j \in k + 1 .. b \/ j \in b + 1 .. n
  OBVIOUS
<1>2. b + 1 .. n \subseteq k + 1 .. n /\ \A e : b + 1 .. e \subseteq k + 1 .. e
  OBVIOUS
<1>3. CASE \E i \in k + 1 .. n : Says(i, m, r)
  BY <1>1, <1>3 DEF Leads
<1>4. CASE s = t /\ (s = "deferred" => \A j \in k + 1 .. n : ~GivesUp(j, m))
  BY <1>2, <1>4 DEF Leads
<1>5. ASSUME s = "deferred", NEW e \in k + 1 .. n, GivesUp(e, m), t = log[e].kind,
             \A j \in k + 1 .. e - 1 : ~GivesUp(j, m)
      PROVE  Leads(b, n, m, r, s, t)
  <2>1. e \in b + 1 .. n
    BY <1>1, <1>5
  <2>2. \A j \in b + 1 .. e - 1 : ~GivesUp(j, m)
    BY <1>2, <1>5
  <2> QED BY <1>5, <2>1, <2>2 DEF Leads
<1> QED BY <1>3, <1>4, <1>5 DEF Leads

\* The invariant of replaying, when the app starts again: it reads on from a line behind the reader, or from one
\* further on, leaving out no line of m.
LEMMA ReplayRestarts ==
  ASSUME LogTypeOK, NEW m \in Messages, NEW r \in Recipients, ReplayInv(m, r), log' = log, mail_log' = mail_log,
         NEW from \in 0 .. Len(log), pos' = from, seen' = Max({seen, from}),
         \A i \in pos + 1 .. from : log[i].m # m
  PROVE  ReplayInv(m, r)'
<1>1. seen \in Nat /\ pos \in Nat /\ from \in Nat /\ pos <= seen
  BY Sized DEF LogTypeOK
<1>2. PICK t \in Outcomes \cup {"expired", "deleted", Null} :
        /\ LeavesWith(seen, m, r, t)
        /\ \A k \in 0 .. pos : Leads(k, seen, m, r, StatusIn(m, r), t)
  BY DEF ReplayInv
<1>3. PICK n, s : n = seen' /\ s = StatusIn(m, r)
  OBVIOUS
<1>4. n \in Nat /\ seen <= n /\ from <= n /\ (n = seen \/ n = from)
  BY <1>1, <1>3, MaxOfTwo
<1>5. \A i \in pos + 1 .. from : ~Says(i, m, r) /\ ~GivesUp(i, m)
  BY DEF Says, GivesUp
<1>6. \A i \in seen + 1 .. n : ~Says(i, m, r) /\ ~GivesUp(i, m)
  BY <1>1, <1>4, <1>5
<1>7. LeavesWith(n, m, r, t)
  BY <1>1, <1>2, <1>4, <1>6, LeavesLonger
<1>8. ASSUME NEW k \in 0 .. from PROVE k \in Nat /\ Leads(k, n, m, r, s, t)
  <2>1. ASSUME NEW j \in 0 .. pos PROVE j \in Nat /\ Leads(j, n, m, r, s, t)
    <3>1. j \in Nat /\ j <= seen /\ Leads(j, seen, m, r, s, t)
      BY <1>1, <1>2, <1>3
    <3> QED BY <1>1, <1>4, <1>6, <3>1, LeadsLonger
  <2>2. CASE k <= pos
    BY <1>1, <2>1, <2>2
  <2>3. CASE k > pos
    <3>1. Leads(pos, n, m, r, s, t) /\ k \in Nat /\ pos <= k
      BY <1>1, <2>1, <2>3
    <3>2. \A i \in pos + 1 .. k : ~Says(i, m, r) /\ ~GivesUp(i, m)
      BY <1>1, <1>5
    <3> QED BY <1>1, <1>4, <3>1, <3>2, LeadsLater
  <2> QED BY <1>1, <2>2, <2>3
<1>9. LeavesWith(n, m, r, t)'
  BY <1>4, <1>7, SameLines
<1>10. \A k \in 0 .. from : Leads(k, n, m, r, s, t)'
  BY <1>4, <1>8, SameLines
<1>11. StatusIn(m, r)' = s /\ seen' = n
  BY <1>3 DEF StatusIn, Conflicting, RowsOf
<1> QED BY <1>9, <1>10, <1>11 DEF ReplayInv

\* The invariant of replaying, of any step.
LEMMA ReplayKept ==
  ASSUME LogTypeOK, LinesInv, RowInv, [LogNext]_logVars,
         \A m \in Messages \ skipped, r \in Recipients : ReplayInv(m, r),
         NEW m \in Messages, m \notin skipped', NEW r \in Recipients
  PROVE  ReplayInv(m, r)'
<1> USE DEF postfix, app, history
<1>1. LogTypeOK' /\ RowInv' /\ LineInv /\ m # Null
  BY StepIsTyped, RowsKept, NullOutside DEF LinesInv
<1>2. /\ seen \in Nat /\ pos \in Nat /\ Len(log) \in Nat
      /\ pos <= seen /\ seen <= Len(log)
  BY Sized DEF LogTypeOK
<1>3. skipped \subseteq skipped'
  <2>1. Postfix => skipped' = skipped
    BY LogKept
  <2>2. App => skipped \subseteq skipped'
    BY DEF App, Handle, HandleFails, Restart, Prune
  <2> QED BY <2>1, <2>2 DEF LogNext, logVars
<1>4. ReplayInv(m, r)
  BY <1>3
<1>5. CASE Postfix
  <2>1. UNCHANGED <<mail_log, seen, pos>> /\ \A i \in 1 .. seen : log'[i] = log[i]
    BY <1>2, <1>5, LogKept
  <2>2. pos' \in 0 .. pos
    BY <1>2, <2>1
  <2> QED BY <1>4, <2>1, <2>2, ReplayStays
<1>6. CASE Handle
  <2>1. Behind /\ Apply(log[pos + 1]) /\ Advance /\ log' = log
    BY <1>6 DEF Handle
  <2>2. StatusIn(m, r)' = Turns(pos + 1, m, r, StatusIn(m, r))
    BY <1>1, <2>1, StatusTurns
  <2> QED BY <1>1, <1>4, <2>1, <2>2, ReplayAdvances
<1>7. CASE HandleFails
  <2>1. Behind /\ Advance /\ log' = log /\ mail_log' = mail_log /\ log[pos + 1].m # m
    BY <1>7 DEF HandleFails
  <2>2. Turns(pos + 1, m, r, StatusIn(m, r)) = StatusIn(m, r)
    BY <2>1 DEF Turns, Says, GivesUp
  <2>3. StatusIn(m, r)' = StatusIn(m, r)
    BY <2>1 DEF StatusIn, Conflicting, RowsOf
  <2> QED BY <1>1, <1>4, <2>1, <2>2, <2>3, ReplayAdvances
<1>8. CASE Restart
  <2>1. PICK from \in 0 .. Len(log) :
          /\ pos' = from /\ seen' = Max({seen, from})
          /\ skipped' = skipped \cup {log[i].m : i \in pos + 1 .. from}
    BY <1>8 DEF Restart
  <2>2. mail_log' = mail_log /\ log' = log
    BY <1>8 DEF Restart
  <2>3. \A i \in pos + 1 .. from : log[i].m # m
    BY <2>1
  <2> QED BY <1>4, <2>1, <2>2, <2>3, ReplayRestarts
<1>9. CASE UNCHANGED logVars \/ \E n \in Messages : Prune(n)
  <2>1. UNCHANGED <<mail_log, seen, log, pos>>
    BY <1>9 DEF logVars, Prune
  <2>2. pos' \in 0 .. pos /\ \A i \in 1 .. seen : log'[i] = log[i]
    BY <1>2, <2>1
  <2> QED BY <1>4, <2>1, <2>2, ReplayStays
<1> QED BY <1>5, <1>6, <1>7, <1>8, <1>9 DEF LogNext, App

-----------------------------------------------------------------------------
(* What the app knows of a message.                                         *)

\* Postfix adds lines, and no piece to a message that has a row.
LEMMA KnowWritten ==
  ASSUME LogTypeOK, LinesInv, RowInv, Postfix, NEW m \in Messages, Whole(m)', Whole(m) => KnowInv(m)
  PROVE  KnowInv(m)'
<1>1. /\ \A i \in 1 .. Len(log) : log'[i] = log[i]
      /\ Len(log)' >= Len(log)
      /\ UNCHANGED <<pos, seen, contexts, mail_log, skipped, lost, half>> /\ late \subseteq late'
  BY LogKept DEF app
<1>2. /\ seen \in Nat /\ pos \in Nat /\ Len(log) \in Nat
      /\ pos <= seen /\ seen <= Len(log)
  BY Sized DEF LogTypeOK
<1>3. KnowInv(m)
  BY <1>1 DEF Whole
<1>4. LinesInv' /\ LogTypeOK'
  BY LinesKept, StepIsTyped DEF LinesInv, LogNext
<1>5. Len(log)' \in Nat
  BY <1>4, Sized DEF LogTypeOK
<1>6. PICK p : p = pos
  OBVIOUS
<1>7. ToldOf(pos, m)' = ToldOf(pos, m)
  <2>1. ToldOf(p, m)' = ToldOf(p, m)
    BY <1>1, <1>2, <1>6, ToldStays
  <2> QED BY <1>1, <1>6, <2>1
<1>8. ASSUME NEW i \in RowsOf(m)' PROVE ToldOf(Len(log), m)' \subseteq mail_log'[i].has
  <2>1. i \in RowsOf(m) /\ mail_log' = mail_log
    BY <1>1, <1>8 DEF RowsOf
  <2>2. ToldOf(Len(log), m) \subseteq mail_log[i].has
    BY <1>3, <2>1 DEF KnowInv
  <2>3. PICK j \in 1 .. seen : Says(j, m, mail_log[i].recipient)
    BY <2>1, NullOutside DEF RowInv, RowsOf
  <2>4. j \in 1 .. Len(log) /\ j \in Lines' /\ Outcome(j, m)'
    BY <1>1, <1>2, <1>5, <2>3 DEF Says, Outcome, Lines
  <2>5. ToldOf(j, m)' = ToldOf(j, m)
    BY <1>1, <2>4, ToldStays
  <2>6. ToldOf(j, m) \subseteq ToldOf(Len(log), m)
    BY <1>2, <2>4, ToldGrows
  <2>7. ASSUME NEW x \in ToldOf(Len(log), m)' PROVE x \in ToldOf(j, m)'
    <3>1. PICK k \in 1 .. Len(log)' : log'[k].m = m /\ x \in Tells(log'[k].kind)
      BY <2>7 DEF ToldOf
    <3>2. k \in Lines'
      BY <3>1 DEF Lines
    <3>3. AllToldInv(m)'
      BY <1>4 DEF LinesInv
    <3> QED BY <2>4, <3>1, <3>2, <3>3 DEF AllToldInv
  <2> QED BY <2>1, <2>2, <2>5, <2>6, <2>7
<1>9. \A f \in 1 .. pos : log'[f] = log[f]
  BY <1>1, <1>2
<1>10. RowsOf(m)' = RowsOf(m)
  BY <1>1 DEF RowsOf
<1> QED BY <1>1, <1>3, <1>7, <1>8, <1>9, <1>10 DEF KnowInv, Begins, Closes

\* A line of another message is handled, or none.
LEMMA KnowStays ==
  ASSUME LogTypeOK, NEW m \in Messages, KnowInv(m), log' = log, contexts'[m] = contexts[m],
         \/ pos' = pos
         \/ pos' = pos + 1 /\ log[pos + 1].m # m,
         RowsOf(m)' = RowsOf(m), \A i \in RowsOf(m) : mail_log[i].has \subseteq mail_log'[i].has
  PROVE  KnowInv(m)'
<1>1. pos \in Nat /\ \A k \in 1 .. pos' : k \in 1 .. pos \/ log[k].m # m
  BY Sized
<1>2. \A k \in 1 .. pos : k \in 1 .. pos'
  BY <1>1
<1>3. ToldOf(pos, m)' = ToldOf(pos, m)
  BY <1>1, <1>2 DEF ToldOf
<1>4. ToldOf(Len(log), m)' = ToldOf(Len(log), m)
  BY DEF ToldOf
<1>5. (\E f \in 1 .. pos : Begins(f, m))' => \E f \in 1 .. pos : Begins(f, m)
  BY <1>1 DEF Begins
<1>6. (\E f \in 1 .. pos : Closes(f, m)) => (\E f \in 1 .. pos : Closes(f, m))'
  BY <1>2 DEF Closes
<1> QED BY <1>3, <1>4, <1>5, <1>6 DEF KnowInv

\* A line of the message itself is handled.
LEMMA KnowHandled ==
  ASSUME LogTypeOK, LinesInv, RowInv, Handle, NEW m \in Messages, log[pos + 1].m = m, Whole(m)', Whole(m) => KnowInv(m)
  PROVE  KnowInv(m)'
<1> USE DEF postfix
<1> DEFINE p == pos + 1
           l == log[p]
<1>0. LogTypeOK' /\ RowInv' /\ RowInv /\ m # Null /\ LineInv
  BY StepIsTyped, RowsKept, NullOutside DEF LinesInv, LogNext, App
<1>1. Behind /\ Apply(l) /\ pos' = p /\ log' = log /\ late' = late /\ lost' = lost /\ skipped' = skipped
  BY DEF Handle, Advance
<1>2. half \subseteq half'
  BY <1>1 DEF Apply, Note, Delivered, Rejected
<1>3. KnowInv(m) /\ Whole(m)
  BY <1>1, <1>2 DEF Whole
<1>4. /\ p \in Lines /\ pos \in Nat /\ l \in Line
      /\ l.kind \in {"delivery", "reject"} => l.to \in Recipients /\ l.status \in Outcomes
      /\ Len(log) \in Nat /\ pos <= Len(log)
  BY <1>0, <1>1, NextLine, Sized DEF Behind
<1>5. contexts \in [Messages -> {Null} \cup SUBSET Pieces] /\ Null \notin SUBSET Pieces
  BY NullOutside DEF LogTypeOK
<1>6. ToldOf(p, m) = ToldOf(pos, m) \cup Tells(l.kind)
  <2>1. \A k : k \in 1 .. p <=> k \in 1 .. pos \/ k = p
    BY <1>4
  <2>2. \A x : x \in ToldOf(p, m) <=> x \in ToldOf(pos, m) \/ x \in Tells(l.kind)
    BY <2>1, ToldBy
  <2> QED BY <2>2
<1>7. ToldOf(pos, m)' = ToldOf(p, m) /\ ToldOf(Len(log), m)' = ToldOf(Len(log), m)
  BY <1>1 DEF ToldOf
<1>8. /\ \A i \in DOMAIN mail_log :
                  /\ mail_log'[i].queueId = mail_log[i].queueId
                  /\ mail_log[i].has \subseteq mail_log'[i].has
      /\ DOMAIN mail_log \subseteq DOMAIN mail_log'
      /\ \A i \in DOMAIN mail_log' \ DOMAIN mail_log :
                  l.kind \in {"delivery", "reject"} /\ Conflicting(l.m, l.to) = {}
  BY <1>1, RowsAfter
<1> DEFINE Rows == \A i \in RowsOf(m)' : ToldOf(Len(log), m) \subseteq mail_log'[i].has
           Held == contexts'[m] # Null => ToldOf(p, m) \subseteq contexts'[m]
           Ended == contexts'[m] = Null /\ RowsOf(m)' = {} => \E k \in 1 .. p : Closes(k, m)
<1>10. Rows /\ Held /\ Ended => KnowInv(m)'
  BY <1>1, <1>7 DEF KnowInv, Closes
<1>11. ASSUME NEW i \in RowsOf(m)', i \in DOMAIN mail_log
       PROVE  i \in RowsOf(m) /\ ToldOf(Len(log), m) \subseteq mail_log'[i].has
  <2>1. i \in RowsOf(m)
    BY <1>8, <1>11 DEF RowsOf
  <2> QED BY <1>3, <1>8, <1>11, <2>1 DEF KnowInv
<1>12. RowsOf(m) # {} => RowsOf(m)' # {}
  <2>1. \A i \in RowsOf(m) : i \in RowsOf(m)'
    BY <1>8 DEF RowsOf
  <2> QED BY <2>1
<1> HIDE DEF Rows, Held, Ended
<1>13. l.kind \notin {"delivery", "reject"} => Rows
  BY <1>8, <1>11 DEF Rows, RowsOf
<1>14. CASE l.kind \in {"client", "pickup", "headers", "queued"} /\ Note(l)
  <2>1. contexts'[m] = Known(contexts[m]) \cup Tells(l.kind)
    BY <1>5, <1>14 DEF Note
  <2>2. Tells(l.kind) \subseteq Pieces
    BY <1>14 DEF Tells, Pieces
  <2>3. contexts'[m] \in SUBSET Pieces
    BY <1>5, <2>1, <2>2 DEF Known
  <2>4. Held
    <3>1. CASE contexts[m] # Null
      <4>1. ToldOf(pos, m) \subseteq contexts[m] /\ Known(contexts[m]) = contexts[m]
        BY <1>3, <3>1 DEF KnowInv, Known
      <4> QED BY <1>6, <2>1, <4>1 DEF Held
    <3>2. CASE contexts[m] = Null
      <4>1. l.kind \in {"client", "pickup"}
        BY <1>14, <3>2 DEF Note, Whole
      <4>2. Begins(p, m)
        BY <4>1 DEF Begins
      <4>3. \A j \in 1 .. pos : log[j].m # m
        BY <1>4, <4>2 DEF LinesInv, BeginInv
      <4>4. ToldOf(pos, m) = {}
        BY <4>3 DEF ToldOf
      <4> QED BY <1>6, <2>1, <4>4 DEF Held
    <3> QED BY <3>1, <3>2
  <2> QED BY <1>5, <1>10, <1>13, <1>14, <2>3, <2>4 DEF Ended
<1>15. CASE l.kind \in {"removed", "deleted"} /\ Forget(l.m)
  <2>1. contexts'[m] = Null
    BY <1>5, <1>15 DEF Forget
  <2>2. Closes(p, m)
    BY <1>15 DEF Closes
  <2>3. p \in 1 .. p
    BY <1>4
  <2> QED BY <1>10, <1>13, <1>15, <2>1, <2>2, <2>3 DEF Held, Ended
<1>16. CASE l.kind = "expired" /\ contexts' = contexts
  <2>1. Tells(l.kind) = {}
    BY <1>16 DEF Tells
  <2>2. Held
    BY <1>3, <1>6, <1>16, <2>1 DEF Held, KnowInv
  <2>3. Ended
    <3>1. ASSUME contexts[m] = Null, RowsOf(m) = {} PROVE \E k \in 1 .. p : Closes(k, m)
      <4>1. PICK f \in 1 .. p : Begins(f, m)
        BY <1>4 DEF LinesInv, BeginInv
      <4>2. f # p
        BY <1>16, <4>1 DEF Begins
      <4>3. f \in 1 .. pos
        BY <1>4, <4>1, <4>2
      <4>4. PICK k \in 1 .. pos : Closes(k, m)
        BY <1>3, <3>1, <4>1, <4>3 DEF KnowInv
      <4> QED BY <1>4, <4>4
    <3> QED BY <1>12, <1>16, <3>1 DEF Ended
  <2> QED BY <1>10, <1>13, <1>16, <2>2, <2>3
<1>17. CASE l.kind \in {"delivery", "reject"}
  <2>1. Tells(l.kind) = {} /\ Outcome(p, m)
    BY <1>17 DEF Tells, Outcome
  <2>2. ToldOf(Len(log), m) = ToldOf(p, m)
    <3>1. ASSUME NEW x \in ToldOf(Len(log), m) PROVE x \in ToldOf(p, m)
      <4>1. PICK k \in 1 .. Len(log) : log[k].m = m /\ x \in Tells(log[k].kind)
        BY <3>1, ToldBy
      <4> QED BY <1>4, <2>1, <4>1 DEF LinesInv, AllToldInv, Lines
    <3>2. ToldOf(p, m) \subseteq ToldOf(Len(log), m)
      BY <1>4, ToldGrows DEF Lines
    <3> QED BY <3>1, <3>2
  <2>3. contexts[m] = Null => RowsOf(m) # {}
    <3> SUFFICES ASSUME contexts[m] = Null, RowsOf(m) = {} PROVE FALSE
      OBVIOUS
    <3>1. PICK f \in 1 .. p : Begins(f, m)
      BY <1>4 DEF LinesInv, BeginInv
    <3>2. f # p
      BY <1>17, <3>1 DEF Begins
    <3>3. f \in 1 .. pos
      BY <1>4, <3>1, <3>2
    <3>4. PICK k \in 1 .. pos : Closes(k, m)
      BY <1>3, <3>1, <3>3 DEF KnowInv
    <3>5. k \in Lines /\ p \in k + 1 .. Len(log)
      BY <1>4, <3>4 DEF Lines
    <3> QED BY <1>3, <2>1, <3>4, <3>5 DEF LinesInv, ClosedInv, Whole
  <2>4. RowsOf(m)' # {}
    <3>1. \E i \in DOMAIN mail_log' : mail_log'[i].queueId = m
      BY <1>0, <1>1, <1>17, RowsAfter
    <3> QED BY <3>1 DEF RowsOf
  <2>5. Ended
    BY <2>4 DEF Ended
  <2>6. CASE l.kind = "delivery" /\ Delivered(l)
    <3> DEFINE c == IF contexts[m] # Null THEN contexts[m] ELSE ContextFromDb(m)
    <3>1. Upsert(m, l.to, l.status, Known(c)) /\ contexts'[m] = c
      BY <1>5, <2>6 DEF Delivered
    <3>2. c \in SUBSET Pieces /\ ToldOf(p, m) \subseteq c
      <4>1. CASE contexts[m] # Null
        BY <1>3, <1>5, <1>6, <2>1, <4>1 DEF KnowInv
      <4>2. CASE contexts[m] = Null
        <5>1. PICK i \in RowsOf(m) : ContextFromDb(m) = mail_log[i].has /\ mail_log[i] \in Row
          BY <2>3, <4>2, FromDb
        <5> QED BY <1>3, <2>2, <4>2, <5>1 DEF KnowInv, Row
      <4> QED BY <4>1, <4>2
    <3> HIDE DEF c
    <3>3. Known(c) = c
      BY <1>5, <3>2 DEF Known
    <3>4. Held
      BY <3>1, <3>2 DEF Held
    <3>5. Rows
      <4> SUFFICES ASSUME NEW i \in RowsOf(m)', i \notin DOMAIN mail_log
                   PROVE  ToldOf(Len(log), m) \subseteq mail_log'[i].has
        BY <1>11 DEF Rows
      <4>1. mail_log'[i].has = c
        <5>1. i \in DOMAIN mail_log'
          BY DEF RowsOf
        <5>2. Conflicting(m, l.to) = {}
          BY <1>8, <5>1
        <5>3. mail_log' = Append(mail_log, [queueId |-> m, recipient |-> l.to, status |-> l.status, has |-> c])
          BY <3>1, <3>3, <5>2 DEF Upsert
        <5>4. mail_log \in Seq(Row)
          BY DEF LogTypeOK
        <5>5. DOMAIN mail_log = 1 .. Len(mail_log) /\ DOMAIN mail_log' = 1 .. Len(mail_log) + 1 /\ Len(mail_log) \in Nat
              /\ mail_log'[Len(mail_log) + 1] = [queueId |-> m, recipient |-> l.to, status |-> l.status, has |-> c]
          BY <5>3, <5>4
        <5>6. i = Len(mail_log) + 1
          BY <5>1, <5>5
        <5> QED BY <5>5, <5>6
      <4> QED BY <2>2, <3>2, <4>1
    <3> QED BY <1>10, <2>5, <3>4, <3>5
  <2>7. CASE l.kind = "reject" /\ Rejected(l)
    <3> DEFINE has == {"sender", "client"} \cup Known(contexts[m])
    <3>1. Upsert(m, l.to, l.status, has) /\ contexts' = contexts
      BY <1>0, <2>7 DEF Rejected
    <3>2. Held
      BY <1>3, <1>6, <2>1, <3>1 DEF Held, KnowInv
    <3>3. Rows
      <4> SUFFICES ASSUME NEW i \in RowsOf(m)', i \notin DOMAIN mail_log
                   PROVE  ToldOf(Len(log), m) \subseteq mail_log'[i].has
        BY <1>11 DEF Rows
      <4>1. i \in DOMAIN mail_log'
        BY DEF RowsOf
      <4>2. Conflicting(m, l.to) = {}
        BY <1>8, <4>1
      <4>3. contexts[m] # Null
        <5> SUFFICES ASSUME contexts[m] = Null PROVE FALSE
          OBVIOUS
        <5>1. PICK k \in RowsOf(m) : TRUE
          BY <2>3
        <5>2. PICK j \in 1 .. seen : Says(j, m, mail_log[k].recipient)
          BY <1>0, <5>1 DEF RowInv, RowsOf
        <5>3. j \in Lines /\ Outcome(j, m)
          BY <1>4, <5>2, Sized DEF Says, Outcome, Lines, LogTypeOK
        <5>4. j = p
          BY <1>3, <1>4, <2>1, <2>7, <5>3 DEF LinesInv, QueuedInv, Whole
        <5>5. k \in Conflicting(m, l.to)
          BY <1>0, <5>1, <5>2, <5>4 DEF Conflicting, Says, RowsOf
        <5> QED BY <4>2, <5>5
      <4>4. ToldOf(p, m) \subseteq has
        BY <1>3, <1>6, <2>1, <4>3 DEF KnowInv, Known
      <4> HIDE DEF has
      <4>5. mail_log'[i].has = has
        <5>3. mail_log' = Append(mail_log, [queueId |-> m, recipient |-> l.to, status |-> l.status, has |-> has])
          BY <3>1, <4>2 DEF Upsert
        <5>4. mail_log \in Seq(Row)
          BY DEF LogTypeOK
        <5>5. DOMAIN mail_log = 1 .. Len(mail_log) /\ DOMAIN mail_log' = 1 .. Len(mail_log) + 1 /\ Len(mail_log) \in Nat
              /\ mail_log'[Len(mail_log) + 1] = [queueId |-> m, recipient |-> l.to, status |-> l.status, has |-> has]
          BY <5>3, <5>4
        <5>6. i = Len(mail_log) + 1
          BY <4>1, <5>5
        <5> QED BY <5>5, <5>6
      <4> QED BY <2>2, <4>4, <4>5
    <3> QED BY <1>10, <2>5, <3>2, <3>3
  <2> QED BY <1>1, <1>17, <2>6, <2>7 DEF Apply
<1> QED BY <1>1, <1>14, <1>15, <1>16, <1>17 DEF Apply

\* What is known, of any step.
LEMMA KnowKept ==
  ASSUME LogTypeOK, LinesInv, RowInv, [LogNext]_logVars, NEW m \in Messages, Whole(m)', Whole(m) => KnowInv(m)
  PROVE  KnowInv(m)'
<1> USE DEF postfix, app, history
<1>1. CASE Postfix
  BY <1>1, KnowWritten
<1>2. ASSUME App, lost \subseteq lost', half \subseteq half', skipped \subseteq skipped', late' = late
      PROVE  KnowInv(m)
  BY <1>2 DEF Whole
<1>3. contexts \in [Messages -> {Null} \cup SUBSET Pieces] /\ pos \in Nat /\ Len(log) \in Nat
  BY Sized DEF LogTypeOK
<1>4. CASE Handle /\ log[pos + 1].m = m
  BY <1>4, KnowHandled
<1>5. CASE Handle /\ log[pos + 1].m # m
  <2> DEFINE l == log[pos + 1]
  <2>1. Behind /\ Apply(l) /\ pos' = pos + 1 /\ log' = log /\ late' = late /\ lost' = lost /\ skipped' = skipped
    BY <1>5 DEF Handle, Advance
  <2>2. half \subseteq half'
    BY <2>1 DEF Apply, Note, Delivered, Rejected
  <2>3. KnowInv(m)
    BY <1>2, <1>5, <2>1, <2>2 DEF App
  <2>4. contexts'[m] = contexts[m]
    BY <1>3, <1>5, <2>1 DEF Apply, Note, Forget, Delivered, Rejected
  <2>5. /\ DOMAIN mail_log \subseteq DOMAIN mail_log'
        /\ \A i \in DOMAIN mail_log :
                  /\ mail_log'[i].queueId = mail_log[i].queueId
                  /\ mail_log[i].has \subseteq mail_log'[i].has
        /\ \A i \in DOMAIN mail_log' \ DOMAIN mail_log : mail_log'[i].queueId = l.m
    BY <2>1, RowsAfter
  <2>6. RowsOf(m)' = RowsOf(m) /\ \A i \in RowsOf(m) : mail_log[i].has \subseteq mail_log'[i].has
    BY <1>5, <2>5 DEF RowsOf
  <2> QED BY <1>5, <2>1, <2>3, <2>4, <2>6, KnowStays
<1>6. CASE HandleFails
  <2>1. /\ pos' = pos + 1 /\ log' = log /\ late' = late /\ lost' = lost /\ half' = half /\ mail_log' = mail_log
        /\ skipped' = skipped \cup {log[pos + 1].m}
    BY <1>6 DEF HandleFails, Advance
  <2>2. log[pos + 1].m # m
    BY <2>1 DEF Whole
  <2>3. KnowInv(m)
    BY <1>2, <1>6, <2>1 DEF App
  <2>4. contexts'[m] = contexts[m]
    BY <1>3, <1>6, <2>2 DEF HandleFails, Forget
  <2>5. RowsOf(m)' = RowsOf(m)
    BY <2>1 DEF RowsOf
  <2> QED BY <2>1, <2>2, <2>3, <2>4, <2>5, KnowStays
<1>7. CASE UNCHANGED logVars
  <2>1. UNCHANGED <<pos, log, contexts, mail_log, lost, half, skipped, late>>
    BY <1>7 DEF logVars
  <2>2. KnowInv(m)
    BY <2>1 DEF Whole
  <2>3. RowsOf(m)' = RowsOf(m)
    BY <2>1 DEF RowsOf
  <2> QED BY <2>1, <2>2, <2>3, KnowStays
<1>8. CASE Restart
  <2>1. PICK from \in 0 .. Len(log) :
          /\ UNCHANGED <<log, mail_log, half, late>> /\ pos' = from /\ contexts'[m] = Null
          /\ skipped \subseteq skipped' /\ lost' = lost \cup {n \in Told(from) : RowsOf(n) = {}}
    BY <1>8 DEF Restart
  <2>2. KnowInv(m)
    BY <1>2, <1>8, <2>1 DEF App
  <2>3. RowsOf(m)' = RowsOf(m)
    BY <2>1 DEF RowsOf
  <2>4. ToldOf(Len(log), m)' = ToldOf(Len(log), m)
    BY <2>1 DEF ToldOf
  <2>5. RowsOf(m) = {} => \A f \in 1 .. from : ~Begins(f, m)
    <3> SUFFICES ASSUME RowsOf(m) = {}, NEW f \in 1 .. from, Begins(f, m) PROVE FALSE
      OBVIOUS
    <3>1. log[f].m = m /\ Tells(log[f].kind) # {}
      BY DEF Begins, Tells
    <3>2. m \in Told(from)
      BY <3>1 DEF Told
    <3> QED BY <2>1, <3>2 DEF Whole
  <2>6. RowsOf(m) = {} => \A f \in 1 .. from : ~Begins(f, m)'
    BY <2>1, <2>5 DEF Begins
  <2> QED BY <2>1, <2>2, <2>3, <2>4, <2>6 DEF KnowInv
<1>9. ASSUME NEW n \in Messages, Prune(n) PROVE KnowInv(m)'
  <2>1. /\ UNCHANGED <<pos, log, mail_log, half, skipped, late>> /\ contexts' = [contexts EXCEPT ![n] = Null]
        /\ lost' = IF RowsOf(n) = {} THEN lost \cup {n} ELSE lost
    BY <1>9 DEF Prune, Forget
  <2>2. KnowInv(m)
    BY <1>2, <1>9, <2>1 DEF App
  <2>3. RowsOf(m)' = RowsOf(m)
    BY <2>1 DEF RowsOf
  <2>4. CASE n # m
    <3>1. contexts'[m] = contexts[m]
      BY <1>3, <2>1, <2>4
    <3> QED BY <2>1, <2>2, <2>3, <3>1, KnowStays
  <2>5. CASE n = m
    <3>1. contexts'[m] = Null /\ RowsOf(m)' # {}
      BY <1>3, <2>1, <2>3, <2>5 DEF Whole
    <3>2. ToldOf(Len(log), m)' = ToldOf(Len(log), m)
      BY <2>1 DEF ToldOf
    <3> QED BY <2>1, <2>2, <2>3, <3>1, <3>2 DEF KnowInv
  <2> QED BY <2>4, <2>5
<1> QED BY <1>1, <1>4, <1>5, <1>6, <1>7, <1>8, <1>9 DEF LogNext, App

-----------------------------------------------------------------------------
(* The theorems.                                                            *)

\* The start satisfies the invariant.
LEMMA InitLog == LogInit => LogInv
<1> SUFFICES ASSUME LogInit PROVE LogInv
  OBVIOUS
<1>1. LogTypeOK /\ LinesInv
  BY InitIsTyped, InitLines
<1>2. mail_log = <<>> /\ DOMAIN mail_log = {} /\ pos = 0 /\ seen = 0
  BY DEF LogInit
<1>3. RowInv
  BY <1>2 DEF RowInv
<1>4. ASSUME NEW m \in Messages, NEW r \in Recipients PROVE ReplayInv(m, r)
  <2>1. StatusIn(m, r) = Null
    BY <1>2 DEF StatusIn, Conflicting, RowsOf
  <2>2. LeavesWith(0, m, r, Null) /\ Leads(0, 0, m, r, Null, Null)
    BY DEF LeavesWith, Leads
  <2>3. \A k \in 0 .. 0 : k = 0
    OBVIOUS
  <2> QED BY <1>2, <2>1, <2>2, <2>3 DEF ReplayInv
<1>5. ASSUME NEW m \in Messages PROVE KnowInv(m)
  <2>1. RowsOf(m) = {} /\ contexts[m] = Null
    BY <1>2 DEF RowsOf, LogInit
  <2> QED BY <1>2, <2>1 DEF KnowInv
<1> QED BY <1>1, <1>3, <1>4, <1>5 DEF LogInv

(* LogInv is inductive: it holds at the start, and every step of Postfix   *)
(* and of the app keeps it.                                                 *)
THEOREM LogInductive == LogSpec => []LogInv
<1>1. LogInit => LogInv
  BY InitLog
<1>2. LogInv /\ [LogNext]_logVars => LogInv'
  <2> SUFFICES ASSUME LogInv, [LogNext]_logVars PROVE LogInv'
    OBVIOUS
  <2>1. LogTypeOK /\ LinesInv /\ RowInv /\ LineInv
    BY DEF LogInv, LinesInv
  <2>2. LogTypeOK' /\ LinesInv' /\ RowInv'
    BY <2>1, StepIsTyped, LinesKept, RowsKept
  <2>3. ASSUME NEW m \in Messages, m \notin skipped', NEW r \in Recipients PROVE ReplayInv(m, r)'
    BY <2>1, <2>3, ReplayKept DEF LogInv
  <2>4. ASSUME NEW m \in Messages, Whole(m)' PROVE KnowInv(m)'
    BY <2>1, <2>4, KnowKept DEF LogInv
  <2> QED BY <2>2, <2>3, <2>4 DEF LogInv
<1> QED BY <1>1, <1>2, PTL DEF LogSpec

(* The variables of the log keep their types.                               *)
THEOREM LogTypes == LogSpec => []LogTypeOK
<1>1. LogInv => LogTypeOK
  BY DEF LogInv
<1> QED BY <1>1, LogInductive, PTL

\* Where no line is to be read again, the rows say what the lines do.
LEMMA LastStatus == LogInv => StatusIsTheLast
<1> SUFFICES ASSUME LogInv, pos = seen, NEW m \in Messages \ skipped, NEW r \in Recipients
             PROVE  StatusIn(m, r) = After(pos, m, r)
  BY DEF StatusIsTheLast
<1>1. pos \in Nat
  BY Sized DEF LogInv, LogTypeOK
<1>2. PICK t \in Outcomes \cup {"expired", "deleted", Null} :
        /\ LeavesWith(seen, m, r, t)
        /\ \A k \in 0 .. pos : Leads(k, seen, m, r, StatusIn(m, r), t)
  BY DEF LogInv, ReplayInv
<1>3. Leads(pos, pos, m, r, StatusIn(m, r), t)
  BY <1>1, <1>2
<1>4. StatusIn(m, r) = t
  <2>1. pos + 1 .. pos = {}
    BY <1>1
  <2> QED BY <1>3, <2>1 DEF Leads
<1>5. After(pos, m, r) = t
  BY <1>1, <1>2, AfterIs
<1> QED BY <1>4, <1>5

(* StatusIsTheLast of every run: however often the app dies and reads      *)
(* lines again, the rows come to say what the lines said last.             *)
THEOREM StatusConverges == LogSpec => []StatusIsTheLast
BY LastStatus, LogInductive, PTL

\* The lines leave no one waiting for a message that is gone.
LEMMA NoneWaits == LogInv => DeferredIsQueued
<1> SUFFICES ASSUME LogInv, ~Behind, NEW i \in DOMAIN mail_log, mail_log[i].status = "deferred",
                    mail_log[i].queueId \notin skipped \cup late
             PROVE  stage[mail_log[i].queueId] # "gone"
  BY DEF DeferredIsQueued
<1> DEFINE m == mail_log[i].queueId
           r == mail_log[i].recipient
<1>1. /\ LogTypeOK /\ LinesInv /\ RowInv
      /\ pos \in Nat /\ pos = seen /\ pos = Len(log) /\ mail_log[i] \in Row
  BY Sized DEF LogInv, LogTypeOK, Behind
<1>2. m # Null /\ m \in Messages /\ r \in Recipients
  BY <1>1 DEF RowInv, Row
<1> HIDE DEF m, r
<1>3. StatusIn(m, r) = "deferred"
  BY <1>1, <1>2, StatusIs DEF m, r
<1>4. m \notin skipped /\ m \notin late
  BY DEF m
<1>5. PICK t \in Outcomes \cup {"expired", "deleted", Null} :
        /\ LeavesWith(seen, m, r, t)
        /\ \A k \in 0 .. pos : Leads(k, seen, m, r, StatusIn(m, r), t)
  BY <1>2, <1>4 DEF LogInv, ReplayInv
<1>6. Leads(pos, pos, m, r, "deferred", t)
  BY <1>1, <1>3, <1>5
<1>7. t = "deferred"
  <2>1. pos + 1 .. pos = {}
    BY <1>1
  <2> QED BY <1>6, <2>1 DEF Leads
<1>8. \A e : GivesUp(e, m) => log[e].kind # "deferred"
  BY DEF GivesUp
<1>9. Pending(m, r)
  <2>1. PICK k \in 1 .. seen :
          /\ Says(k, m, r) /\ \A j \in k + 1 .. seen : ~Says(j, m, r)
          /\ log[k].status = "deferred" /\ \A j \in k + 1 .. seen : ~GivesUp(j, m)
    BY <1>5, <1>7, <1>8, NullOutside DEF LeavesWith, Outcomes
  <2> QED BY <1>1, <2>1 DEF Pending, Lines
<1>10. WaitInv(m)
  BY <1>1, <1>2 DEF LinesInv
<1>11. stage[m] # "gone"
  BY <1>2, <1>4, <1>9, <1>10 DEF WaitInv
<1> QED BY <1>11 DEF m

(* DeferredIsQueued of every run: a row that says deferred, once the log   *)
(* is read, is of a message that Postfix still holds.                       *)
THEOREM DeferredWaits == LogSpec => []DeferredIsQueued
BY NoneWaits, LogInductive, PTL

\* Every row has what was told before its first line.
LEMMA RowsAreWhole == LogInv => RowsKnowTheirMessage
<1> SUFFICES ASSUME LogInv, NEW i \in DOMAIN mail_log, mail_log[i].queueId # Null, Whole(mail_log[i].queueId)
             PROVE  ToldBefore(mail_log[i].queueId, mail_log[i].recipient) \subseteq mail_log[i].has
  BY DEF RowsKnowTheirMessage, Whole
<1> DEFINE m == mail_log[i].queueId
           r == mail_log[i].recipient
<1>1. LogTypeOK /\ LinesInv /\ RowInv /\ mail_log[i] \in Row /\ seen <= Len(log) /\ seen \in Nat /\ Len(log) \in Nat
  BY Sized DEF LogInv, LogTypeOK
<1>2. m \in Messages /\ i \in RowsOf(m) /\ KnowInv(m)
  BY <1>1 DEF Row, RowsOf, LogInv
<1>3. ToldOf(Len(log), m) \subseteq mail_log[i].has
  BY <1>2 DEF KnowInv
<1> HIDE DEF m, r
<1> DEFINE rows == {j \in DOMAIN log : Says(j, m, r)}
           first == IF rows = {} THEN 0 ELSE Min(rows)
<1>4. first \in Nat /\ first <= Len(log)
  <2>1. rows \subseteq 1 .. Len(log)
    BY <1>1, Sized DEF Lines
  <2>2. rows \subseteq Nat
    BY <1>1, <2>1
  <2> HIDE DEF rows
  <2>3. rows # {} => Min(rows) \in rows
    BY <2>2, Least
  <2>4. CASE rows = {}
    BY <1>1, <2>4
  <2>5. CASE rows # {}
    <3>1. first = Min(rows) /\ Min(rows) \in 1 .. Len(log)
      BY <2>1, <2>3, <2>5
    <3> QED BY <1>1, <3>1
  <2> QED BY <2>4, <2>5
<1>5. ToldBefore(m, r) = UNION {Tells(log[j].kind) : j \in {k \in 1 .. first : log[k].m = m}}
  BY DEF ToldBefore
<1> HIDE DEF first
<1>6. ToldBefore(m, r) = ToldOf(first, m)
  BY <1>5 DEF ToldOf
<1>7. ToldOf(first, m) \subseteq ToldOf(Len(log), m)
  BY <1>1, <1>4, ToldGrows
<1> QED BY <1>3, <1>6, <1>7 DEF m, r

(* RowsKnowTheirMessage of every run: a row holds all that the log told of *)
(* its message before the row's first line, unless the message is one of   *)
(* the exceptions the property names.                                       *)
THEOREM RowsWhole == LogSpec => []RowsKnowTheirMessage
BY RowsAreWhole, LogInductive, PTL

=============================================================================
