------------------------ MODULE ConfigurationProofs ------------------------
(***************************************************************************)
(* Proofs about configuration revisions, secrets and overrides, for any    *)
(* number of administrators, environments, revisions, secrets and users    *)
(* and for any documents.                                                  *)
(*                                                                         *)
(* Every operation decides on what it read when it took the lock.  The     *)
(* invariant, ConfigInv, says that the decision is still right when it is  *)
(* carried out: a call in its transaction holds the row of its             *)
(* environment, and what it read of that environment is what is there,     *)
(* except that an override it saw in effect may have expired.  With it,    *)
(* each write is shown to preserve what the served configuration needs.    *)
(*                                                                         *)
(* The last part is about the cache through which a process reads it.      *)
(***************************************************************************)
EXTENDS ConfigurationRevisions, WellFoundedInduction, TLAPS

-----------------------------------------------------------------------------
(* The inductive invariant. *)

\* The columns of config_revisions.
Shape(row) ==
    row = [env |-> row.env, status |-> row.status, doc |-> row.doc,
           compiled |-> row.compiled, edit |-> row.edit, base |-> row.base,
           activated |-> row.activated, number |-> row.number]

\* A row of config_revisions: what is valid is compiled from its document,
\* what was activated is valid, and numbers do not outrun the rows.
GoodRow(row, r) ==
    /\ Shape(row)
    /\ row.status \in {"none", "draft", "invalid", "valid", "discarded"}
    /\ row.env \in Environments \cup {Nobody}
    /\ row.status = "none" <=> row.env = Nobody
    /\ row.activated \in BOOLEAN
    /\ row.activated => row.status = "valid"
    /\ row.status = "valid" => row.compiled = row.doc
    /\ row.number \in Nat /\ row.number <= r

RowsGood ==
    /\ revision = [r \in Revisions |-> revision[r]]
    /\ \A r \in Revisions : GoodRow(revision[r], r)

\* Rows are used from the first on.
RowsContiguous ==
    \A r, x \in Revisions : revision[r].status = "none" /\ r < x => revision[x].status = "none"

SecretRecord == [version : Nat, state : {"none", "current", "destroyed"}]
OverrideRecord == [plan : Plans \cup {NoPlan}, state : {"none", "effective", "expired"}]

TablesTyped ==
    /\ active \in [Environments -> 0 .. MaxRevisions]
    /\ secret \in [Environments -> [Secrets -> SecretRecord]]
    /\ override \in [Environments -> [Users -> OverrideRecord]]
    /\ lock \in [Environments -> Admins \cup {Nobody}]

\* An operation in flight: it names an environment and, where it is about a
\* revision, one of that environment; what it carries is of its operation.
RowOperations == {"replace", "discard", "activate", "rebase", "validate"}

GoodCall(c) ==
    \/ c = NoCall
    \/ /\ c = [op |-> c.op, env |-> c.env, rev |-> c.rev, doc |-> c.doc, arg |-> c.arg,
               pc |-> c.pc, view |-> c.view, etag |-> c.etag]
       /\ c.env \in Environments
       /\ c.op \in RowOperations => c.rev \in Revisions /\ revision[c.rev].env = c.env
       /\ c.op = "rollback" => c.rev \in Revisions
       /\ c.op \in {"createSecret", "rotate", "destroy"} => c.arg.name \in Secrets
       /\ c.op = "override" => c.arg.user \in Users /\ c.arg.plan \in Plans \cup {NoPlan}

CallsGood ==
    /\ call = [a \in Admins |-> call[a]]
    /\ \A a \in Admins : GoodCall(call[a])

\* What was read of an environment and what is there.
Agrees(view, e) ==
    /\ \A r \in Revisions : revision[r].env = e \/ view.revision[r].env = e
                               => view.revision[r] = revision[r]
    /\ view.active[e] = active[e]
    /\ view.secret[e] = secret[e]
    /\ \A u \in Users : override[e][u].state = "effective"
                           => view.override[e][u] = override[e][u]

\* A transaction holds its environment, and what it read still stands.
LockedAgree ==
    \A a \in Admins : call[a].pc = "locked" =>
        /\ lock[call[a].env] = a
        /\ Agrees(call[a].view, call[a].env)

\* SecretsPresent, with the secrets known by name.
RefsPresent ==
    \A r \in Revisions : revision[r].status = "valid" =>
        \A n \in revision[r].doc.refs : n \in Secrets /\ secret[revision[r].env][n].state = "current"

ConfigInv ==
    /\ RowsGood /\ RowsContiguous /\ TablesTyped /\ CallsGood /\ LockedAgree
    /\ RefsPresent /\ OverridesPlanned /\ ServesItsDocument /\ NumbersUnique

-----------------------------------------------------------------------------
(* What a transaction knows. *)

LEMMA LockedCall ==
    ASSUME ConfigInv, NEW a \in Admins, call[a].pc = "locked"
    PROVE  LET e == call[a].env
               view == call[a].view
           IN /\ e \in Environments
              /\ lock[e] = a /\ a # Nobody
              /\ \A r \in Revisions : revision[r].env = e \/ view.revision[r].env = e
                               => view.revision[r] = revision[r]
              /\ view.active[e] = active[e]
              /\ view.secret[e] = secret[e]
              /\ \A u \in Users : override[e][u].state = "effective"
                           => view.override[e][u] = override[e][u]
<1>1. call[a] # NoCall
  BY DEF NoCall
<1>2. call[a].env \in Environments
  BY <1>1 DEF ConfigInv, CallsGood, GoodCall
<1> QED BY <1>2, NobodyIsNobody DEF ConfigInv, LockedAgree, Agrees

\* The row an operation is about, as it read it and as it is.
LEMMA LockedRow ==
    ASSUME ConfigInv, NEW a \in Admins, call[a].pc = "locked", call[a].op \in RowOperations
    PROVE  LET r == call[a].rev
           IN /\ r \in Revisions
              /\ revision[r].env = call[a].env
              /\ Row(a) = revision[r]
              /\ GoodRow(revision[r], r)
<1>1. call[a] # NoCall
  BY DEF NoCall
<1>2. call[a].rev \in Revisions /\ revision[call[a].rev].env = call[a].env
  BY <1>1 DEF ConfigInv, CallsGood, GoodCall
<1> QED BY <1>2, LockedCall DEF ConfigInv, RowsGood, Row

\* The serving row of an environment.
LEMMA ServingRow ==
    ASSUME ConfigInv, NEW e \in Environments, active[e] # 0
    PROVE  /\ active[e] \in Revisions /\ revision[active[e]].env = e
           /\ revision[active[e]].status = "valid" /\ revision[active[e]].activated
           /\ revision[active[e]].compiled = revision[active[e]].doc
<1>1. active[e] \in 0 .. MaxRevisions
  BY DEF ConfigInv, TablesTyped
<1>2. active[e] \in Revisions
  BY <1>1, RevisionBound DEF Revisions
<1> QED BY <1>2 DEF ConfigInv, ServesItsDocument

-----------------------------------------------------------------------------
(* The end of a transaction. *)

\* When a commits, having changed rows of its environment only, the other
\* calls stand as before.
LEMMA CommitKeepsOthers ==
    ASSUME ConfigInv, NEW a \in Admins, call[a].pc = "locked", Done(a),
           NEW e, e = call[a].env,
           \A r \in Revisions : revision'[r] = revision[r]
                                \/ (revision[r].env \in {e, Nobody} /\ revision'[r].env = e),
           \A f \in Environments \ {e} : /\ active'[f] = active[f] /\ secret'[f] = secret[f]
                                         /\ override'[f] = override[f]
    PROVE  CallsGood' /\ LockedAgree' /\ lock' \in [Environments -> Admins \cup {Nobody}]
<1>1. e \in Environments /\ lock[e] = a /\ a # Nobody
  BY LockedCall
<1>2. call' = [call EXCEPT ![a] = NoCall] /\ lock' = [lock EXCEPT ![e] = IF @ = a THEN Nobody ELSE @]
  BY DEF Done
<1>3. lock \in [Environments -> Admins \cup {Nobody}] /\ call = [b \in Admins |-> call[b]]
  BY DEF ConfigInv, TablesTyped, CallsGood
<1>4. lock' \in [Environments -> Admins \cup {Nobody}] /\ \A f \in Environments \ {e} : lock'[f] = lock[f]
  BY <1>1, <1>2, <1>3
<1>5. /\ call' = [b \in Admins |-> call'[b]]
      /\ call'[a] = NoCall
      /\ \A b \in Admins \ {a} : call'[b] = call[b]
  BY <1>2, <1>3
<1>6. CallsGood'
  <2> SUFFICES ASSUME NEW b \in Admins PROVE GoodCall(call[b])'
    BY <1>5 DEF CallsGood
  <2>1. CASE b = a
    BY <2>1, <1>5 DEF GoodCall, NoCall
  <2>2. CASE b # a
    <3>1. call'[b] = call[b] /\ GoodCall(call[b])
      BY <2>2, <1>5 DEF ConfigInv, CallsGood
    <3>2. ASSUME NEW r \in Revisions, NEW f \in Environments, revision[r].env = f
          PROVE  revision'[r].env = f
      BY <3>2, NobodyIsNobody
    <3> QED BY <3>1, <3>2 DEF GoodCall
  <2> QED BY <2>1, <2>2
<1>7. LockedAgree'
  <2> SUFFICES ASSUME NEW b \in Admins, call'[b].pc = "locked"
               PROVE  /\ lock'[call'[b].env] = b
                      /\ Agrees(call[b].view, call[b].env)'
    BY DEF LockedAgree
  <2>1. b # a /\ call'[b] = call[b]
    BY <1>5 DEF NoCall
  <2> DEFINE f == call[b].env
             view == call[b].view
  <2>2. /\ f \in Environments /\ lock[f] = b
        /\ \A r \in Revisions : revision[r].env = f \/ view.revision[r].env = f
                               => view.revision[r] = revision[r]
        /\ view.active[f] = active[f]
        /\ view.secret[f] = secret[f]
        /\ \A u \in Users : override[f][u].state = "effective"
                           => view.override[f][u] = override[f][u]
    BY <2>1, LockedCall
  <2> HIDE DEF f, view
  <2>3. f # e
    BY <2>1, <2>2, <1>1
  <2>4. lock'[f] = b
    BY <2>2, <2>3, <1>4
  <2>5. \A r \in Revisions : revision'[r].env = f \/ view.revision[r].env = f
                               => view.revision[r] = revision'[r]
    BY <2>2, <2>3, NobodyIsNobody
  <2>6. /\ view.active[f] = active'[f]
        /\ view.secret[f] = secret'[f]
        /\ override'[f] = override[f]
    BY <2>2, <2>3
  <2> QED BY <2>1, <2>2, <2>4, <2>5, <2>6 DEF Agrees, f, view
<1> QED BY <1>4, <1>6, <1>7

-----------------------------------------------------------------------------
(* Writing one revision. *)

\* Row r of environment e may become row: an edit of a revision that never
\* served, or the first use of the next free row under a new number.
MayWrite(e, r, row) ==
    /\ revision[r].env \in {e, Nobody} /\ row.env = e
    /\ ~revision[r].activated
    /\ GoodRow(row, r)
    /\ \/ revision[r].env = e /\ row.number = revision[r].number
       \/ /\ \A x \in Revisions : x < r => revision[x].status # "none"
          /\ \A x \in Revisions : revision[x].env = e => revision[x].number < row.number
    /\ row.status = "valid" =>
           \A n \in row.doc.refs : n \in Secrets /\ secret[e][n].state = "current"

\* And may serve from then on: its plans satisfy the overrides in effect.
MayServe(e, row) ==
    /\ row.status = "valid" /\ row.activated
    /\ \A u \in Users : override[e][u].state = "effective" => override[e][u].plan \in row.compiled.plans

LEMMA RowWrite ==
    ASSUME ConfigInv, NEW a \in Admins, call[a].pc = "locked", Done(a),
           NEW e, e = call[a].env, NEW q \in Revisions, NEW row, MayWrite(e, q, row),
           revision' = [revision EXCEPT ![q] = row], UNCHANGED <<secret, override>>,
           \/ active' = active /\ ~row.activated
           \/ active' = [active EXCEPT ![e] = q] /\ MayServe(e, row)
    PROVE  ConfigInv' /\ KeepsActivated
<1>1. e \in Environments /\ e # Nobody
  BY LockedCall, NobodyIsNobody
<1>2. /\ revision = [r \in Revisions |-> revision[r]]
      /\ \A r \in Revisions : GoodRow(revision[r], r)
      /\ active \in [Environments -> 0 .. MaxRevisions]
  BY DEF ConfigInv, RowsGood, TablesTyped
<1>3. /\ revision' = [r \in Revisions |-> revision'[r]]
      /\ revision'[q] = row
      /\ \A r \in Revisions \ {q} : revision'[r] = revision[r]
  BY <1>2
<1>4. /\ active' \in [Environments -> 0 .. MaxRevisions]
      /\ \A f \in Environments \ {e} : active'[f] = active[f]
  BY <1>1, <1>2, RevisionBound DEF Revisions
<1>5. /\ revision[q].env \in {e, Nobody} /\ row.env = e /\ ~revision[q].activated
      /\ GoodRow(row, q)
      /\ row.status # "none"
  BY <1>1 DEF MayWrite, GoodRow
<1>6. \A f \in Environments : active[f] # q
  BY <1>5, ServingRow, RevisionBound DEF Revisions
<1>7. RowsGood'
  BY <1>2, <1>3, <1>5 DEF RowsGood, GoodRow
<1>8. RowsContiguous'
  <2> SUFFICES ASSUME NEW r \in Revisions, NEW x \in Revisions, revision'[r].status = "none", r < x
               PROVE  revision'[x].status = "none"
    BY DEF RowsContiguous
  <2>1. r # q /\ revision[r].status = "none"
    BY <1>3, <1>5
  <2>2. revision[x].status = "none"
    BY <2>1 DEF ConfigInv, RowsContiguous
  <2>3. x # q
    BY <2>1, <2>2, <1>1, <1>2 DEF MayWrite, GoodRow
  <2> QED BY <2>2, <2>3, <1>3
<1>9. CallsGood' /\ LockedAgree' /\ lock' \in [Environments -> Admins \cup {Nobody}]
  <2>1. \A r \in Revisions : revision'[r] = revision[r]
                                \/ (revision[r].env \in {e, Nobody} /\ revision'[r].env = e)
    BY <1>3, <1>5
  <2> QED BY <2>1, <1>4, CommitKeepsOthers
<1>10. TablesTyped'
  BY <1>4, <1>9 DEF ConfigInv, TablesTyped
<1>11. RefsPresent'
  <2> SUFFICES ASSUME NEW r \in Revisions, revision'[r].status = "valid", NEW n \in revision'[r].doc.refs
               PROVE  n \in Secrets /\ secret[revision'[r].env][n].state = "current"
    BY DEF RefsPresent
  <2>1. CASE r = q
    BY <2>1, <1>3, <1>5 DEF MayWrite
  <2>2. CASE r # q
    BY <2>2, <1>3 DEF ConfigInv, RefsPresent
  <2> QED BY <2>1, <2>2
<1>12. ASSUME NEW f \in Environments, active'[f] # 0
       PROVE  \/ f = e /\ active'[f] = q /\ MayServe(e, row)
              \/ /\ active'[f] = active[f] /\ active[f] \in Revisions
                 /\ revision'[active[f]] = revision[active[f]]
  <2>1. CASE active'[f] = active[f]
    BY <2>1, <1>12, ServingRow, <1>6, <1>3
  <2>2. CASE active'[f] # active[f]
    BY <2>2, <1>1, <1>2
  <2> QED BY <2>1, <2>2
<1>13. OverridesPlanned'
  <2> SUFFICES ASSUME NEW f \in Environments, NEW u \in Users, override[f][u].state = "effective"
               PROVE  active'[f] # 0 /\ override[f][u].plan \in revision'[active'[f]].compiled.plans
    BY DEF OverridesPlanned
  <2>1. active[f] # 0 /\ override[f][u].plan \in revision[active[f]].compiled.plans
    BY DEF ConfigInv, OverridesPlanned
  <2>2. active'[f] # 0
    BY <2>1, <1>1, <1>2, RevisionBound DEF Revisions
  <2> QED BY <2>1, <2>2, <1>12, <1>3 DEF MayServe
<1>14. ServesItsDocument'
  <2> SUFFICES ASSUME NEW f \in Environments, active'[f] # 0
               PROVE  /\ revision'[active'[f]].env = f /\ revision'[active'[f]].status = "valid"
                      /\ revision'[active'[f]].activated
                      /\ revision'[active'[f]].compiled = revision'[active'[f]].doc
    BY DEF ServesItsDocument
  <2>1. CASE f = e /\ active'[f] = q /\ MayServe(e, row)
    BY <2>1, <1>3, <1>5 DEF MayServe, GoodRow
  <2>2. CASE /\ active'[f] = active[f] /\ active[f] \in Revisions
             /\ revision'[active[f]] = revision[active[f]]
    BY <2>2, ServingRow
  <2> QED BY <2>1, <2>2, <1>12
<1>15. NumbersUnique'
  <2> SUFFICES ASSUME NEW r \in Revisions, NEW t \in Revisions, r # t,
                      revision'[r].env = revision'[t].env,
                      revision'[r].number = revision'[t].number,
                      revision'[r].number # 0
               PROVE  FALSE
    BY DEF NumbersUnique
  <2>1. \A x \in Revisions \ {q} : revision[x].env = e => revision[x].number # row.number \/ row.number = 0
    BY <1>2, <1>5 DEF MayWrite, GoodRow, ConfigInv, NumbersUnique
  <2>2. r # q /\ t # q
    BY <2>1, <1>3, <1>5
  <2> QED BY <2>2, <1>3 DEF ConfigInv, NumbersUnique
<1>16. KeepsActivated
  BY <1>3, <1>5 DEF KeepsActivated
<1> QED BY <1>7, <1>8, <1>9, <1>10, <1>11, <1>13, <1>14, <1>15, <1>16 DEF ConfigInv

-----------------------------------------------------------------------------
(* Creation: the next number of the environment. *)

LEMMA GreatestExists ==
    ASSUME NEW b \in Nat, NEW S \in SUBSET (0 .. b), S # {}
    PROVE  \E m \in S : \A k \in S : k <= m
<1> DEFINE R == OpToRel(<, Nat)
           T == {b - k : k \in S}
<1>1. IsWellFoundedOn(R, Nat)
  BY NatLessThanWellFounded
<1>2. \A x, y \in Nat : x < y => <<x, y>> \in R
  BY DEF OpToRel
<1> HIDE DEF R
<1>3. T \subseteq Nat /\ T # {}
  <2>1. \A k \in S : k \in Nat /\ k <= b /\ b - k \in Nat
    OBVIOUS
  <2>2. PICK k \in S : TRUE
    OBVIOUS
  <2>3. b - k \in T
    OBVIOUS
  <2>4. \A x \in T : \E n \in S : x = b - n
    OBVIOUS
  <2> HIDE DEF T
  <2> QED BY <2>1, <2>3, <2>4
<1>4. \E x \in T : \A y \in T : ~ (<<y, x>> \in R)
  <2> HIDE DEF T
  <2> QED BY <1>1, <1>3, WFMin
<1>5. PICK x \in T : \A y \in T : ~ (<<y, x>> \in R)
  BY <1>4
<1>6. PICK m \in S : x = b - m
  BY <1>5
<1>7. \A k \in S : k <= m
  <2> SUFFICES ASSUME NEW k \in S PROVE k <= m
    OBVIOUS
  <2>1. b - k \in T /\ b - k \in Nat /\ x \in Nat
    BY <1>3, <1>5
  <2>2. ~ (b - k < x)
    BY <2>1, <1>2, <1>5
  <2> QED BY <2>2, <1>6
<1> QED BY <1>7

LEMMA InsertSafe ==
    ASSUME ConfigInv, NEW a \in Admins, call[a].pc = "locked", NEW doc, Insert(a, doc), Done(a),
           UNCHANGED <<active, secret, override>>
    PROVE  ConfigInv' /\ KeepsActivated
<1> DEFINE e == call[a].env
           view == call[a].view
           used == {x \in Revisions : view.revision[x].env = e}
           numbers == {view.revision[r].number : r \in used}
           last == IF numbers = {} THEN 0 ELSE CHOOSE m \in numbers : \A k \in numbers : k <= m
           row == [env |-> e, status |-> "draft", doc |-> doc, compiled |-> Empty, edit |-> 1,
                   base |-> view.active[e], activated |-> FALSE, number |-> 1 + last]
<1>1. PICK q \in Revisions :
         /\ revision[q].status = "none"
         /\ \A x \in Revisions : x < q => revision[x].status # "none"
         /\ revision' = [revision EXCEPT ![q] = row]
  BY DEF Insert
<1>2. /\ e \in Environments /\ e # Nobody
      /\ \A r \in Revisions : revision[r].env = e \/ view.revision[r].env = e
                               => view.revision[r] = revision[r]
  BY LockedCall, NobodyIsNobody
<1>3. \A r \in Revisions : GoodRow(revision[r], r)
  BY DEF ConfigInv, RowsGood
<1>4. \A x \in Revisions : revision[x].env = e => x < q
  <2> SUFFICES ASSUME NEW x \in Revisions, revision[x].env = e PROVE x < q
    OBVIOUS
  <2>1. revision[x].status # "none"
    BY <1>2, <1>3 DEF GoodRow
  <2>2. ~ (q < x) /\ x # q
    BY <2>1, <1>1 DEF ConfigInv, RowsContiguous
  <2> QED BY <2>2, RevisionBound DEF Revisions
<1>5. /\ \A x \in used : view.revision[x].number \in 0 .. (q - 1)
      /\ \A x \in Revisions : revision[x].env = e => revision[x].number \in numbers
  <2>1. \A x \in used : view.revision[x] = revision[x] /\ revision[x].env = e
    BY <1>2
  <2>2. \A x \in Revisions : revision[x].env = e => x \in used /\ view.revision[x] = revision[x]
    BY <1>2
  <2>3. \A x \in Revisions : revision[x].number \in Nat /\ revision[x].number <= x
    BY <1>3 DEF GoodRow
  <2>4. \A x \in used : revision[x].number \in 0 .. (q - 1)
    BY <2>1, <2>3, <1>4, RevisionBound DEF Revisions
  <2> QED BY <2>1, <2>2, <2>4
<1>6. numbers \in SUBSET (0 .. (q - 1))
  BY <1>5
<1>7. last \in 0 .. (q - 1) /\ \A k \in numbers : k <= last
  <2> HIDE DEF numbers
  <2>1. q - 1 \in Nat
    BY RevisionBound DEF Revisions
  <2>2. CASE numbers = {}
    BY <2>1, <2>2
  <2>3. CASE numbers # {}
    <3>1. \E m \in numbers : \A k \in numbers : k <= m
      BY <2>1, <2>3, <1>6, GreatestExists
    <3>2. last \in numbers /\ \A k \in numbers : k <= last
      BY <2>3, <3>1
    <3> QED BY <3>2, <1>6
  <2> QED BY <2>2, <2>3
<1> HIDE DEF last
<1>8. \A x \in Revisions : revision[x].env = e => revision[x].number < 1 + last
  <2> SUFFICES ASSUME NEW x \in Revisions, revision[x].env = e PROVE revision[x].number < 1 + last
    OBVIOUS
  <2>1. revision[x].number \in Nat /\ revision[x].number <= last
    BY <1>3, <1>5, <1>7 DEF GoodRow
  <2> QED BY <2>1, <1>7
<1>9. row = [env |-> e, status |-> "draft", doc |-> doc, compiled |-> Empty, edit |-> 1,
             base |-> view.active[e], activated |-> FALSE, number |-> 1 + last]
  OBVIOUS
<1>10. 1 + last \in Nat /\ 1 + last <= q
  BY <1>7, RevisionBound DEF Revisions
<1> HIDE DEF row
<1>11. MayWrite(e, q, row) /\ ~row.activated
  <2>1. /\ row.env = e /\ row.status = "draft" /\ row.activated = FALSE
        /\ row.number = 1 + last
    BY <1>9
  <2>2. GoodRow(row, q)
    BY <1>2, <1>9, <1>10, <2>1 DEF GoodRow, Shape
  <2>3. revision[q].env = Nobody /\ ~revision[q].activated
    BY <1>1, <1>3 DEF GoodRow
  <2> QED BY <2>1, <2>2, <2>3, <1>1, <1>8 DEF MayWrite
<1> QED BY <1>1, <1>11, RowWrite

-----------------------------------------------------------------------------
(* Operations on one revision. *)

\* A row as it was read, with what an operation sets of it.
Rewritten(row, status, doc, compiled, edit, base, activated) ==
    [env |-> row.env, status |-> status, doc |-> doc, compiled |-> compiled, edit |-> edit,
     base |-> base, activated |-> activated, number |-> row.number]

LEMMA RewrittenFields ==
    ASSUME NEW row, NEW status, NEW doc, NEW compiled, NEW edit, NEW base, NEW activated, NEW new,
           new = Rewritten(row, status, doc, compiled, edit, base, activated)
    PROVE  /\ new.env = row.env /\ new.status = status /\ new.doc = doc
           /\ new.compiled = compiled /\ new.activated = activated /\ new.number = row.number
           /\ new.edit = edit /\ new.base = base
           /\ Shape(new)
BY DEF Rewritten, Shape

\* The same for one field at a time.
LEMMA OneField ==
    ASSUME NEW row, Shape(row), NEW v
    PROVE  /\ [row EXCEPT !.status = v]
                = Rewritten(row, v, row.doc, row.compiled, row.edit, row.base, row.activated)
           /\ [row EXCEPT !.doc = v]
                = Rewritten(row, row.status, v, row.compiled, row.edit, row.base, row.activated)
           /\ [row EXCEPT !.compiled = v]
                = Rewritten(row, row.status, row.doc, v, row.edit, row.base, row.activated)
           /\ [row EXCEPT !.edit = v]
                = Rewritten(row, row.status, row.doc, row.compiled, v, row.base, row.activated)
           /\ [row EXCEPT !.base = v]
                = Rewritten(row, row.status, row.doc, row.compiled, row.edit, v, row.activated)
           /\ [row EXCEPT !.activated = v]
                = Rewritten(row, row.status, row.doc, row.compiled, row.edit, row.base, v)
<1>1. row \in [env : {row.env}, status : {row.status}, doc : {row.doc}, compiled : {row.compiled},
              edit : {row.edit}, base : {row.base}, activated : {row.activated},
              number : {row.number}]
  <2>1. row = [env |-> row.env, status |-> row.status, doc |-> row.doc,
              compiled |-> row.compiled, edit |-> row.edit, base |-> row.base,
              activated |-> row.activated, number |-> row.number]
    BY DEF Shape
  <2> DEFINE e == row.env
             s == row.status
             d == row.doc
             c == row.compiled
             n == row.edit
             b == row.base
             a == row.activated
             m == row.number
  <2> HIDE DEF e, s, d, c, n, b, a, m
  <2>2. [env |-> e, status |-> s, doc |-> d, compiled |-> c, edit |-> n, base |-> b, activated |-> a,
         number |-> m]
          \in [env : {e}, status : {s}, doc : {d}, compiled : {c}, edit : {n}, base : {b},
               activated : {a}, number : {m}]
    OBVIOUS
  <2> QED BY <2>1, <2>2 DEF e, s, d, c, n, b, a, m
<1>2. [row EXCEPT !.status = v]
        = Rewritten(row, v, row.doc, row.compiled, row.edit, row.base, row.activated)
  BY <1>1 DEF Rewritten
<1>3. [row EXCEPT !.doc = v]
        = Rewritten(row, row.status, v, row.compiled, row.edit, row.base, row.activated)
  BY <1>1 DEF Rewritten
<1>4. [row EXCEPT !.compiled = v]
        = Rewritten(row, row.status, row.doc, v, row.edit, row.base, row.activated)
  BY <1>1 DEF Rewritten
<1>5. [row EXCEPT !.edit = v]
        = Rewritten(row, row.status, row.doc, row.compiled, v, row.base, row.activated)
  BY <1>1 DEF Rewritten
<1>6. [row EXCEPT !.base = v]
        = Rewritten(row, row.status, row.doc, row.compiled, row.edit, v, row.activated)
  BY <1>1 DEF Rewritten
<1>7. [row EXCEPT !.activated = v]
        = Rewritten(row, row.status, row.doc, row.compiled, row.edit, row.base, v)
  BY <1>1 DEF Rewritten
<1> QED BY <1>2, <1>3, <1>4, <1>5, <1>6, <1>7

LEMMA TwoFields ==
    ASSUME NEW row, Shape(row), NEW status, NEW compiled
    PROVE  [row EXCEPT !.status = status, !.compiled = compiled]
             = Rewritten(row, status, row.doc, compiled, row.edit, row.base, row.activated)
<1> DEFINE mid == [row EXCEPT !.status = status]
<1>1. mid = Rewritten(row, status, row.doc, row.compiled, row.edit, row.base, row.activated)
  BY OneField
<1>2. [row EXCEPT !.status = status, !.compiled = compiled] = [mid EXCEPT !.compiled = compiled]
  OBVIOUS
<1> HIDE DEF mid
<1>3. /\ mid.env = row.env /\ mid.status = status /\ mid.doc = row.doc /\ mid.number = row.number
      /\ mid.edit = row.edit /\ mid.base = row.base /\ mid.activated = row.activated /\ Shape(mid)
  BY <1>1, RewrittenFields
<1>4. [mid EXCEPT !.compiled = compiled]
        = Rewritten(mid, mid.status, mid.doc, compiled, mid.edit, mid.base, mid.activated)
  BY <1>3, OneField
<1> QED BY <1>2, <1>3, <1>4 DEF Rewritten

LEMMA EditedIsRewritten ==
    ASSUME NEW row, Shape(row), NEW doc, NEW base
    PROVE  Edited(row, doc, base)
             = Rewritten(row, "draft", doc, Empty, row.edit + 1, base, row.activated)
<1> DEFINE x == [row EXCEPT !.doc = doc]
           y == [x EXCEPT !.edit = row.edit + 1]
           z == [y EXCEPT !.base = base]
<1>1. Edited(row, doc, base) = [z EXCEPT !.status = "draft", !.compiled = Empty]
  BY DEF Edited
<1>2. x = Rewritten(row, row.status, doc, row.compiled, row.edit, row.base, row.activated)
  BY OneField
<1> HIDE DEF x
<1>3. /\ x.env = row.env /\ x.status = row.status /\ x.doc = doc /\ x.compiled = row.compiled
      /\ x.edit = row.edit /\ x.base = row.base /\ x.activated = row.activated
      /\ x.number = row.number /\ Shape(x)
  BY <1>2, RewrittenFields
<1>4. y = Rewritten(x, x.status, x.doc, x.compiled, row.edit + 1, x.base, x.activated)
  BY <1>3, OneField
<1> HIDE DEF y
<1>5. /\ y.env = row.env /\ y.status = row.status /\ y.doc = doc /\ y.compiled = row.compiled
      /\ y.edit = row.edit + 1 /\ y.base = row.base /\ y.activated = row.activated
      /\ y.number = row.number /\ Shape(y)
  BY <1>3, <1>4, RewrittenFields
<1>6. z = Rewritten(y, y.status, y.doc, y.compiled, y.edit, base, y.activated)
  BY <1>5, OneField
<1> HIDE DEF z
<1>7. /\ z.env = row.env /\ z.doc = doc
      /\ z.edit = row.edit + 1 /\ z.base = base /\ z.activated = row.activated
      /\ z.number = row.number /\ Shape(z)
  BY <1>5, <1>6, RewrittenFields
<1>8. [z EXCEPT !.status = "draft", !.compiled = Empty]
        = Rewritten(z, "draft", z.doc, Empty, z.edit, z.base, z.activated)
  BY <1>7, TwoFields
<1> QED BY <1>1, <1>7, <1>8 DEF Rewritten

LEMMA DiscardedIsRewritten ==
    ASSUME NEW row, Shape(row)
    PROVE  DiscardedRow(row)
             = Rewritten(row, "discarded", row.doc, Empty, row.edit, row.base, row.activated)
BY TwoFields DEF DiscardedRow

\* A transaction that rewrites its row without putting it in service.
Rewrites(a, status, doc, compiled, edit, base) ==
    /\ call[a].pc = "locked" /\ call[a].op \in RowOperations
    /\ ~Row(a).activated
    /\ status \in {"draft", "invalid", "valid", "discarded"}
    /\ status = "valid" => /\ compiled = doc
                           /\ doc.refs \subseteq SecretNames(call[a].view, call[a].env)
    /\ revision' = [revision EXCEPT ![call[a].rev] =
                        Rewritten(Row(a), status, doc, compiled, edit, base, Row(a).activated)]
    /\ Done(a)
    /\ UNCHANGED <<active, secret, override>>

LEMMA RewriteSafe ==
    ASSUME ConfigInv, NEW a \in Admins, NEW status, NEW doc, NEW compiled, NEW edit, NEW base,
           Rewrites(a, status, doc, compiled, edit, base)
    PROVE  ConfigInv' /\ KeepsActivated
<1> /\ call[a].pc = "locked" /\ call[a].op \in RowOperations
    /\ ~Row(a).activated
    /\ status \in {"draft", "invalid", "valid", "discarded"}
    /\ status = "valid" => /\ compiled = doc
                           /\ doc.refs \subseteq SecretNames(call[a].view, call[a].env)
    /\ revision' = [revision EXCEPT ![call[a].rev] =
                        Rewritten(Row(a), status, doc, compiled, edit, base, Row(a).activated)]
    /\ Done(a)
    /\ UNCHANGED <<active, secret, override>>
  BY DEF Rewrites
<1> DEFINE e == call[a].env
           r == call[a].rev
           row == Rewritten(Row(a), status, doc, compiled, edit, base, Row(a).activated)
<1>1. /\ e \in Environments /\ e # Nobody
      /\ call[a].view.secret[e] = secret[e]
  BY LockedCall, NobodyIsNobody
<1>2. /\ r \in Revisions /\ revision[r].env = e /\ Row(a) = revision[r]
      /\ GoodRow(revision[r], r)
  BY LockedRow
<1>3. /\ row.env = e /\ row.status = status /\ row.doc = doc /\ row.compiled = compiled
      /\ row.activated = revision[r].activated /\ row.number = revision[r].number
      /\ Shape(row)
  BY <1>2, RewrittenFields
<1>4. revision' = [revision EXCEPT ![r] = row]
  OBVIOUS
<1> HIDE DEF e, r, row
<1>5. revision[r].activated \in BOOLEAN /\ ~revision[r].activated
  BY <1>2 DEF GoodRow
<1>6. GoodRow(row, r)
  BY <1>1, <1>2, <1>3, <1>5 DEF GoodRow
<1>7. row.status = "valid" => \A n \in row.doc.refs : n \in Secrets /\ secret[e][n].state = "current"
  BY <1>1, <1>3 DEF SecretNames, e
<1>8. MayWrite(e, r, row) /\ ~row.activated
  BY <1>2, <1>3, <1>5, <1>6, <1>7 DEF MayWrite
<1> QED BY <1>2, <1>4, <1>8, RowWrite DEF e

LEMMA ReplaceSafe ==
    ASSUME ConfigInv, NEW a \in Admins, ReplaceDraft(a)
    PROVE  ConfigInv' /\ KeepsActivated
<1>1. /\ call[a].pc = "locked" /\ call[a].op \in RowOperations /\ Done(a)
      /\ UNCHANGED <<active, secret, override>>
  BY DEF ReplaceDraft, Locked, RowOperations
<1>2. GoodRow(Row(a), call[a].rev)
  BY <1>1, LockedRow
<1>3. ~Row(a).activated
  BY <1>2 DEF ReplaceDraft, EditableRevision, GoodRow
<1>4. revision' = [revision EXCEPT ![call[a].rev] =
                     Rewritten(Row(a), "draft", call[a].doc, Empty, Row(a).edit + 1, Row(a).base,
                               Row(a).activated)]
  BY <1>2, EditedIsRewritten DEF ReplaceDraft, GoodRow
<1>5. Rewrites(a, "draft", call[a].doc, Empty, Row(a).edit + 1, Row(a).base)
  BY <1>1, <1>3, <1>4 DEF Rewrites
<1> QED BY <1>5, RewriteSafe

LEMMA RebaseSafe ==
    ASSUME ConfigInv, NEW a \in Admins, Rebase(a)
    PROVE  ConfigInv' /\ KeepsActivated
<1> DEFINE view == call[a].view
           live == view.active[call[a].env]
           merged == Merged(BaseOf(view, call[a].rev), Row(a).doc, view.revision[live].doc,
                            call[a].arg.side)
<1>1. /\ call[a].pc = "locked" /\ call[a].op \in RowOperations /\ Done(a)
      /\ UNCHANGED <<active, secret, override>>
      /\ EditableRevision(Row(a))
      /\ revision' = [revision EXCEPT ![call[a].rev] = Edited(Row(a), merged, live)]
  BY DEF Rebase, Locked, RowOperations
<1> HIDE DEF live, merged
<1>2. GoodRow(Row(a), call[a].rev)
  BY <1>1, LockedRow
<1>3. ~Row(a).activated
  BY <1>1, <1>2 DEF EditableRevision, GoodRow
<1>4. revision' = [revision EXCEPT ![call[a].rev] =
                     Rewritten(Row(a), "draft", merged, Empty, Row(a).edit + 1, live, Row(a).activated)]
  BY <1>1, <1>2, EditedIsRewritten DEF GoodRow
<1>5. Rewrites(a, "draft", merged, Empty, Row(a).edit + 1, live)
  BY <1>1, <1>3, <1>4 DEF Rewrites
<1> QED BY <1>5, RewriteSafe

LEMMA DiscardSafe ==
    ASSUME ConfigInv, NEW a \in Admins, DiscardRevision(a)
    PROVE  ConfigInv' /\ KeepsActivated
<1>1. /\ call[a].pc = "locked" /\ call[a].op \in RowOperations /\ Done(a)
      /\ UNCHANGED <<active, secret, override>>
  BY DEF DiscardRevision, Locked, RowOperations
<1>2. GoodRow(Row(a), call[a].rev)
  BY <1>1, LockedRow
<1>3. ~Row(a).activated
  BY <1>2 DEF DiscardRevision, EditableRevision, GoodRow
<1>4. revision' = [revision EXCEPT ![call[a].rev] =
                     Rewritten(Row(a), "discarded", Row(a).doc, Empty, Row(a).edit, Row(a).base,
                               Row(a).activated)]
  BY <1>2, DiscardedIsRewritten DEF DiscardRevision, GoodRow
<1>5. Rewrites(a, "discarded", Row(a).doc, Empty, Row(a).edit, Row(a).base)
  BY <1>1, <1>3, <1>4 DEF Rewrites
<1> QED BY <1>5, RewriteSafe

LEMMA ValidateSafe ==
    ASSUME ConfigInv, NEW a \in Admins, ValidateRevision(a)
    PROVE  ConfigInv' /\ KeepsActivated
<1> DEFINE r == call[a].rev
           valid == Valid(Row(a).doc, SecretNames(call[a].view, call[a].env))
           status == IF valid THEN "valid" ELSE "invalid"
           compiled == IF valid THEN Row(a).doc ELSE Empty
<1>1. /\ call[a].pc = "locked" /\ call[a].op \in RowOperations /\ Done(a)
      /\ UNCHANGED <<active, secret, override>>
      /\ Row(a).status \in {"draft", "invalid"}
      /\ revision' = [revision EXCEPT ![r].status = status, ![r].compiled = compiled]
  BY DEF ValidateRevision, Locked, RowOperations
<1>2. /\ status \in {"draft", "invalid", "valid", "discarded"}
      /\ status = "valid" => /\ compiled = Row(a).doc
                             /\ Row(a).doc.refs \subseteq SecretNames(call[a].view, call[a].env)
  BY DEF Valid
<1>3. r \in Revisions /\ Row(a) = revision[r] /\ GoodRow(revision[r], r)
  BY <1>1, LockedRow
<1> HIDE DEF status, compiled, valid, r
<1>4. ~Row(a).activated
  BY <1>1, <1>3 DEF GoodRow
<1>5. revision' = [revision EXCEPT ![r] = [revision[r] EXCEPT !.status = status, !.compiled = compiled]]
  BY <1>1, <1>3 DEF ConfigInv, RowsGood
<1>6. [revision[r] EXCEPT !.status = status, !.compiled = compiled]
        = Rewritten(revision[r], status, revision[r].doc, compiled, revision[r].edit, revision[r].base,
                    revision[r].activated)
  BY <1>3, TwoFields DEF GoodRow
<1>7. revision' = [revision EXCEPT ![call[a].rev] =
                     Rewritten(Row(a), status, Row(a).doc, compiled, Row(a).edit, Row(a).base,
                               Row(a).activated)]
  BY <1>3, <1>5, <1>6 DEF r
<1>8. Rewrites(a, status, Row(a).doc, compiled, Row(a).edit, Row(a).base)
  BY <1>1, <1>2, <1>4, <1>7 DEF Rewrites
<1> QED BY <1>8, RewriteSafe

LEMMA ActivateSafe ==
    ASSUME ConfigInv, NEW a \in Admins, ActivateRevision(a)
    PROVE  ConfigInv' /\ KeepsActivated
<1> DEFINE e == call[a].env
           r == call[a].rev
           old == revision[r]
           row == Rewritten(old, old.status, old.doc, old.compiled, old.edit, old.base, TRUE)
<1>1. /\ call[a].pc = "locked" /\ call[a].op \in RowOperations /\ Done(a)
      /\ UNCHANGED <<secret, override>>
      /\ Row(a).status = "valid" /\ ~Row(a).activated
      /\ OverridesSatisfied(call[a].view, e, Row(a).compiled)
      /\ revision' = [revision EXCEPT ![r].activated = TRUE]
      /\ active' = [active EXCEPT ![e] = r]
  BY DEF ActivateRevision, Locked, RowOperations
<1>2. r \in Revisions /\ Row(a) = old /\ GoodRow(old, r) /\ old.env = e
  BY <1>1, LockedRow
<1>3. /\ e \in Environments
      /\ \A u \in Users : override[e][u].state = "effective"
                           => call[a].view.override[e][u] = override[e][u]
  BY <1>1, LockedCall
<1>4. /\ row.env = e /\ row.status = "valid" /\ row.doc = old.doc /\ row.compiled = old.compiled
      /\ row.activated = TRUE /\ row.number = old.number
      /\ Shape(row)
  BY <1>1, <1>2 DEF Rewritten, Shape
<1>5. [old EXCEPT !.activated = TRUE] = row
  BY <1>2, OneField DEF GoodRow
<1>6. revision' = [revision EXCEPT ![r] = row]
  BY <1>1, <1>5
<1> HIDE DEF e, r, row
<1>7. GoodRow(row, r)
  BY <1>1, <1>2, <1>4 DEF GoodRow
<1>8. \A n \in row.doc.refs : n \in Secrets /\ secret[e][n].state = "current"
  BY <1>1, <1>2, <1>4 DEF ConfigInv, RefsPresent
<1>9. MayWrite(e, r, row)
  BY <1>1, <1>2, <1>4, <1>7, <1>8 DEF MayWrite
<1>10. MayServe(e, row)
  BY <1>1, <1>2, <1>3, <1>4 DEF MayServe, OverridesSatisfied
<1> QED BY <1>1, <1>2, <1>6, <1>9, <1>10, RowWrite DEF e

-----------------------------------------------------------------------------
(* Operations that leave the revisions alone. *)

\* With the same rows, their part of the invariant stands.
LEMMA RowsStand ==
    ASSUME ConfigInv, UNCHANGED revision
    PROVE  RowsGood' /\ RowsContiguous' /\ NumbersUnique' /\ KeepsActivated
BY DEF ConfigInv, RowsGood, RowsContiguous, NumbersUnique, KeepsActivated, GoodRow

LEMMA RollbackSafe ==
    ASSUME ConfigInv, NEW a \in Admins, Rollback(a)
    PROVE  ConfigInv' /\ KeepsActivated
<1> DEFINE e == call[a].env
           r == call[a].rev
           view == call[a].view
<1>1. /\ call[a].pc = "locked" /\ call[a].op = "rollback" /\ Done(a)
      /\ UNCHANGED <<revision, secret, override>>
      /\ view.revision[r].env = e /\ view.revision[r].status = "valid" /\ view.revision[r].activated
      /\ OverridesSatisfied(view, e, view.revision[r].compiled)
      /\ active' = [active EXCEPT ![e] = r]
  BY DEF Rollback, Locked, Row
<1>2. /\ e \in Environments
      /\ \A x \in Revisions : revision[x].env = e \/ view.revision[x].env = e
                               => view.revision[x] = revision[x]
      /\ \A u \in Users : override[e][u].state = "effective"
                           => view.override[e][u] = override[e][u]
  BY <1>1, LockedCall
<1>3. r \in Revisions
  BY <1>1 DEF ConfigInv, CallsGood, GoodCall, NoCall
<1>4. /\ revision[r].env = e /\ revision[r].status = "valid" /\ revision[r].activated
      /\ view.revision[r] = revision[r] /\ GoodRow(revision[r], r)
  BY <1>1, <1>2, <1>3 DEF ConfigInv, RowsGood
<1> HIDE DEF e, r, view
<1>5. /\ active \in [Environments -> 0 .. MaxRevisions] /\ active' \in [Environments -> 0 .. MaxRevisions]
      /\ active'[e] = r /\ \A f \in Environments \ {e} : active'[f] = active[f]
      /\ r # 0
  BY <1>1, <1>2, <1>3, RevisionBound DEF Revisions, ConfigInv, TablesTyped
<1>6. CallsGood' /\ LockedAgree' /\ lock' \in [Environments -> Admins \cup {Nobody}]
  BY <1>1, <1>5, CommitKeepsOthers DEF e
<1>7. TablesTyped' /\ RefsPresent'
  BY <1>1, <1>5, <1>6 DEF ConfigInv, TablesTyped, RefsPresent
<1>8. OverridesPlanned'
  <2> SUFFICES ASSUME NEW f \in Environments, NEW u \in Users, override[f][u].state = "effective"
               PROVE  active'[f] # 0 /\ override[f][u].plan \in revision[active'[f]].compiled.plans
    BY <1>1 DEF OverridesPlanned
  <2>1. CASE f = e
    BY <2>1, <1>1, <1>2, <1>4, <1>5 DEF OverridesSatisfied
  <2>2. CASE f # e
    BY <2>2, <1>5 DEF ConfigInv, OverridesPlanned
  <2> QED BY <2>1, <2>2
<1>9. ServesItsDocument'
  <2> SUFFICES ASSUME NEW f \in Environments, active'[f] # 0
               PROVE  /\ revision[active'[f]].env = f /\ revision[active'[f]].status = "valid"
                      /\ revision[active'[f]].activated
                      /\ revision[active'[f]].compiled = revision[active'[f]].doc
    BY <1>1 DEF ServesItsDocument
  <2>1. CASE f = e
    BY <2>1, <1>4, <1>5 DEF GoodRow
  <2>2. CASE f # e
    BY <2>2, <1>5, ServingRow
  <2> QED BY <2>1, <2>2
<1> QED BY <1>1, <1>6, <1>7, <1>8, <1>9, RowsStand DEF ConfigInv

\* One secret of the transaction's environment is written; unless it is
\* current then, no usable revision refers to it.
LEMMA SecretWrite ==
    ASSUME ConfigInv, NEW a \in Admins, call[a].pc = "locked",
           call[a].op \in {"createSecret", "rotate", "destroy"},
           NEW row \in SecretRecord, SetSecret(a, row),
           \/ row.state = "current"
           \/ \A r \in Revisions : revision[r].env = call[a].env /\ revision[r].status = "valid"
                                      => call[a].arg.name \notin revision[r].doc.refs
    PROVE  ConfigInv' /\ KeepsActivated
<1> DEFINE e == call[a].env
           n == call[a].arg.name
<1>1. e \in Environments
  BY LockedCall
<1>2. n \in Secrets
  BY DEF ConfigInv, CallsGood, GoodCall, NoCall
<1>3. /\ secret' = [secret EXCEPT ![e][n] = row] /\ Done(a)
      /\ UNCHANGED <<revision, active, override>>
      /\ \/ row.state = "current"
         \/ \A r \in Revisions : revision[r].env = e /\ revision[r].status = "valid"
                                      => n \notin revision[r].doc.refs
  BY DEF SetSecret
<1> HIDE DEF e, n
<1>4. secret \in [Environments -> [Secrets -> SecretRecord]]
  BY DEF ConfigInv, TablesTyped
<1>5. /\ secret' \in [Environments -> [Secrets -> SecretRecord]]
      /\ secret'[e][n] = row /\ \A m \in Secrets \ {n} : secret'[e][m] = secret[e][m]
      /\ \A f \in Environments \ {e} : secret'[f] = secret[f]
  BY <1>1, <1>2, <1>3, <1>4
<1>6. CallsGood' /\ LockedAgree' /\ lock' \in [Environments -> Admins \cup {Nobody}]
  BY <1>3, <1>5, CommitKeepsOthers DEF e
<1>7. TablesTyped'
  BY <1>3, <1>5, <1>6 DEF ConfigInv, TablesTyped
<1>8. RefsPresent'
  <2> SUFFICES ASSUME NEW r \in Revisions, revision[r].status = "valid", NEW m \in revision[r].doc.refs
               PROVE  m \in Secrets /\ secret'[revision[r].env][m].state = "current"
    BY <1>3 DEF RefsPresent
  <2>1. m \in Secrets /\ secret[revision[r].env][m].state = "current" /\ revision[r].env \in Environments
    BY DEF ConfigInv, RefsPresent, RowsGood, GoodRow
  <2>2. CASE revision[r].env = e /\ m = n
    BY <2>2, <2>1, <1>3, <1>5
  <2>3. CASE ~(revision[r].env = e /\ m = n)
    BY <2>3, <2>1, <1>5
  <2> QED BY <2>2, <2>3
<1>9. OverridesPlanned' /\ ServesItsDocument'
  BY <1>3 DEF ConfigInv, OverridesPlanned, ServesItsDocument
<1> QED BY <1>3, <1>6, <1>7, <1>8, <1>9, RowsStand DEF ConfigInv

\* The secret an operation is about, as it read it and as it is.
LEMMA LockedSecret ==
    ASSUME ConfigInv, NEW a \in Admins, call[a].pc = "locked",
           call[a].op \in {"createSecret", "rotate", "destroy"}
    PROVE  /\ SecretRow(a) = secret[call[a].env][call[a].arg.name]
           /\ SecretRow(a) \in SecretRecord
           /\ call[a].env \in Environments /\ call[a].arg.name \in Secrets
<1>1. call[a].arg.name \in Secrets
  BY DEF ConfigInv, CallsGood, GoodCall, NoCall
<1> QED BY <1>1, LockedCall DEF ConfigInv, TablesTyped, SecretRow

LEMMA CreateSecretSafe ==
    ASSUME ConfigInv, NEW a \in Admins, CreateSecret(a)
    PROVE  ConfigInv' /\ KeepsActivated
<1> DEFINE row == [version |-> 1, state |-> "current"]
<1>1. row \in SecretRecord /\ row.state = "current"
  BY DEF SecretRecord
<1>2. call[a].pc = "locked" /\ call[a].op = "createSecret" /\ SetSecret(a, row)
  BY DEF CreateSecret, Locked
<1> HIDE DEF row
<1> QED BY <1>1, <1>2, SecretWrite

LEMMA RotateSecretSafe ==
    ASSUME ConfigInv, NEW a \in Admins, RotateSecret(a)
    PROVE  ConfigInv' /\ KeepsActivated
<1> DEFINE row == [version |-> SecretRow(a).version + 1, state |-> "current"]
<1>1. call[a].pc = "locked" /\ call[a].op = "rotate" /\ SetSecret(a, row)
  BY DEF RotateSecret, Locked
<1>2. SecretRow(a) \in SecretRecord
  BY <1>1, LockedSecret
<1>3. row \in SecretRecord /\ row.state = "current"
  BY <1>2 DEF SecretRecord
<1> HIDE DEF row
<1> QED BY <1>1, <1>3, SecretWrite

LEMMA DestroySecretSafe ==
    ASSUME ConfigInv, NEW a \in Admins, DestroySecret(a)
    PROVE  ConfigInv' /\ KeepsActivated
<1> DEFINE e == call[a].env
           n == call[a].arg.name
           view == call[a].view
           row == [SecretRow(a) EXCEPT !.state = "destroyed"]
<1>1. /\ call[a].pc = "locked" /\ call[a].op = "destroy" /\ SetSecret(a, row)
      /\ SecretRow(a).state # "none"
      /\ SecretRow(a).state = "current" => ~Referenced(view, e, n)
  BY DEF DestroySecret, Locked
<1>2. SecretRow(a) \in SecretRecord /\ SecretRow(a) = secret[e][n]
  BY <1>1, LockedSecret
<1>3. row \in SecretRecord
  BY <1>2 DEF SecretRecord
<1>4. \A r \in Revisions : revision[r].env = e /\ revision[r].status = "valid"
                              => n \notin revision[r].doc.refs
  <2> SUFFICES ASSUME NEW r \in Revisions, revision[r].env = e, revision[r].status = "valid",
                      n \in revision[r].doc.refs
               PROVE  FALSE
    OBVIOUS
  <2>1. SecretRow(a).state = "current"
    BY <1>2 DEF ConfigInv, RefsPresent
  <2>2. view.revision[r] = revision[r]
    BY <1>1, LockedCall
  <2> QED BY <2>1, <2>2, <1>1 DEF Referenced
<1> HIDE DEF row
<1> QED BY <1>1, <1>3, <1>4, SecretWrite

\* One override of the transaction's environment is written.
LEMMA OverrideWrite ==
    ASSUME ConfigInv, NEW a \in Admins, call[a].pc = "locked", call[a].op = "override",
           NEW row \in OverrideRecord, SetOverride(a, row),
           row.state = "effective" =>
               /\ active[call[a].env] # 0
               /\ row.plan \in revision[active[call[a].env]].compiled.plans
    PROVE  ConfigInv' /\ KeepsActivated
<1> DEFINE e == call[a].env
           u == call[a].arg.user
<1>1. e \in Environments
  BY LockedCall
<1>2. u \in Users
  BY DEF ConfigInv, CallsGood, GoodCall, NoCall
<1>3. /\ override' = [override EXCEPT ![e][u] = row] /\ Done(a)
      /\ UNCHANGED <<revision, active, secret>>
      /\ row.state = "effective" => active[e] # 0 /\ row.plan \in revision[active[e]].compiled.plans
  BY DEF SetOverride
<1> HIDE DEF e, u
<1>4. override \in [Environments -> [Users -> OverrideRecord]]
  BY DEF ConfigInv, TablesTyped
<1>5. /\ override' \in [Environments -> [Users -> OverrideRecord]]
      /\ override'[e][u] = row /\ \A v \in Users \ {u} : override'[e][v] = override[e][v]
      /\ \A f \in Environments \ {e} : override'[f] = override[f]
  BY <1>1, <1>2, <1>3, <1>4
<1>6. CallsGood' /\ LockedAgree' /\ lock' \in [Environments -> Admins \cup {Nobody}]
  BY <1>3, <1>5, CommitKeepsOthers DEF e
<1>7. TablesTyped' /\ RefsPresent' /\ ServesItsDocument'
  BY <1>3, <1>5, <1>6 DEF ConfigInv, TablesTyped, RefsPresent, ServesItsDocument
<1>8. OverridesPlanned'
  <2> SUFFICES ASSUME NEW f \in Environments, NEW v \in Users, override'[f][v].state = "effective"
               PROVE  active[f] # 0 /\ override'[f][v].plan \in revision[active[f]].compiled.plans
    BY <1>3 DEF OverridesPlanned
  <2>1. CASE f = e /\ v = u
    BY <2>1, <1>3, <1>5
  <2>2. CASE ~(f = e /\ v = u)
    BY <2>2, <1>5 DEF ConfigInv, OverridesPlanned
  <2> QED BY <2>1, <2>2
<1> QED BY <1>3, <1>6, <1>7, <1>8, RowsStand DEF ConfigInv

LEMMA ReplaceOverrideSafe ==
    ASSUME ConfigInv, NEW a \in Admins, ReplaceOverride(a)
    PROVE  ConfigInv' /\ KeepsActivated
<1> DEFINE e == call[a].env
           view == call[a].view
           plan == call[a].arg.plan
           row == [plan |-> plan, state |-> "effective"]
<1>1. /\ call[a].pc = "locked" /\ call[a].op = "override" /\ SetOverride(a, row)
      /\ view.active[e] # 0 /\ plan \in view.revision[view.active[e]].compiled.plans
  BY DEF ReplaceOverride, Locked
<1>2. e \in Environments /\ view.active[e] = active[e]
  BY <1>1, LockedCall
<1>3. view.revision[active[e]] = revision[active[e]]
  BY <1>1, <1>2, LockedCall, ServingRow
<1>4. plan \in Plans \cup {NoPlan}
  BY <1>1 DEF ConfigInv, CallsGood, GoodCall, NoCall
<1>5. row \in OverrideRecord /\ row.plan = plan
  BY <1>4 DEF OverrideRecord
<1>6. active[e] # 0 /\ row.plan \in revision[active[e]].compiled.plans
  BY <1>1, <1>2, <1>3, <1>5
<1> HIDE DEF row
<1> QED BY <1>1, <1>5, <1>6, OverrideWrite

LEMMA ClearOverrideSafe ==
    ASSUME ConfigInv, NEW a \in Admins, ClearOverride(a)
    PROVE  ConfigInv' /\ KeepsActivated
<1>1. call[a].pc = "locked" /\ call[a].op = "override" /\ SetOverride(a, NoOverride)
  BY DEF ClearOverride, Locked
<1>2. NoOverride \in OverrideRecord /\ NoOverride.state # "effective"
  BY DEF OverrideRecord, NoOverride
<1> QED BY <1>1, <1>2, OverrideWrite

\* An override that expires under a transaction is no longer one it must heed.
LEMMA ExpirySafe ==
    ASSUME ConfigInv, NEW e \in Environments, NEW u \in Users, OverrideExpires(e, u)
    PROVE  ConfigInv' /\ KeepsActivated
<1>1. /\ override' = [override EXCEPT ![e][u].state = "expired"]
      /\ UNCHANGED <<revision, active, secret, lock, call>>
  BY DEF OverrideExpires
<1>2. override \in [Environments -> [Users -> OverrideRecord]]
  BY DEF ConfigInv, TablesTyped
<1>3. [override[e][u] EXCEPT !.state = "expired"] \in OverrideRecord
  BY <1>2 DEF OverrideRecord
<1>4. [override[e][u] EXCEPT !.state = "expired"].state = "expired"
  BY <1>2 DEF OverrideRecord
<1> DEFINE row == [override[e][u] EXCEPT !.state = "expired"]
<1>5. override' = [override EXCEPT ![e][u] = row]
  BY <1>1
<1> HIDE DEF row
<1>6. /\ override' \in [Environments -> [Users -> OverrideRecord]]
      /\ override'[e][u] = row
      /\ \A f \in Environments, v \in Users : (f # e \/ v # u) => override'[f][v] = override[f][v]
  BY <1>2, <1>3, <1>5 DEF row
<1>7. \A f \in Environments, v \in Users :
         override'[f][v].state = "effective" => override'[f][v] = override[f][v]
  BY <1>4, <1>6 DEF row
<1>8. CallsGood' /\ RefsPresent' /\ ServesItsDocument'
  BY <1>1 DEF ConfigInv, CallsGood, GoodCall, RefsPresent, ServesItsDocument
<1>9. TablesTyped'
  BY <1>1, <1>6 DEF ConfigInv, TablesTyped
<1>10. OverridesPlanned'
  BY <1>1, <1>7 DEF ConfigInv, OverridesPlanned
<1>11. LockedAgree'
  <2> SUFFICES ASSUME NEW b \in Admins, call[b].pc = "locked"
               PROVE  lock[call[b].env] = b /\ Agrees(call[b].view, call[b].env)'
    BY <1>1 DEF LockedAgree
  <2>1. call[b].env \in Environments
    BY LockedCall
  <2>2. lock[call[b].env] = b /\ Agrees(call[b].view, call[b].env)
    BY DEF ConfigInv, LockedAgree
  <2> QED BY <2>1, <2>2, <1>1, <1>7 DEF Agrees
<1> QED BY <1>1, <1>8, <1>9, <1>10, <1>11, RowsStand DEF ConfigInv

-----------------------------------------------------------------------------
(* The beginning and the end of an operation. *)

LEMMA TablesStand ==
    ASSUME ConfigInv, UNCHANGED <<revision, active, secret, override>>
    PROVE  /\ RowsGood' /\ RowsContiguous' /\ NumbersUnique' /\ KeepsActivated
           /\ RefsPresent' /\ OverridesPlanned' /\ ServesItsDocument'
           /\ lock' \in [Environments -> Admins \cup {Nobody}] => TablesTyped'
BY RowsStand DEF ConfigInv, RefsPresent, OverridesPlanned, ServesItsDocument, TablesTyped

\* What an operation starts with is about rows that exist.
LEMMA FieldsGood ==
    ASSUME ConfigInv, NEW op, NEW e \in Environments, NEW r, NEW doc, NEW arg,
           op \in RowOperations => r \in Revisions /\ revision[r].env = e,
           op # "rollback",
           op \in {"createSecret", "rotate", "destroy"} => arg.name \in Secrets,
           op = "override" => arg.user \in Users /\ arg.plan \in Plans \cup {NoPlan}
    PROVE  LET c == Fields(op, e, r, doc, arg)
           IN GoodCall(c) /\ c # NoCall /\ c.env = e /\ c.pc = "chosen"
<1> DEFINE etag == RevisionETag(IF r = 0 THEN NoRevision ELSE revision[r])
           c == [op |-> op, env |-> e, rev |-> r, doc |-> doc, arg |-> arg, pc |-> "chosen",
                 view |-> 0, etag |-> etag]
<1>1. Fields(op, e, r, doc, arg) = c
  BY DEF Fields
<1> HIDE DEF etag
<1>2. /\ c.op = op /\ c.env = e /\ c.rev = r /\ c.doc = doc /\ c.arg = arg /\ c.pc = "chosen"
      /\ c.view = 0 /\ c.etag = etag
  OBVIOUS
<1>3. c = [op |-> c.op, env |-> c.env, rev |-> c.rev, doc |-> c.doc, arg |-> c.arg,
           pc |-> c.pc, view |-> c.view, etag |-> c.etag]
  OBVIOUS
<1> HIDE DEF c
<1>4. GoodCall(c) /\ c # NoCall
  BY <1>2, <1>3 DEF GoodCall, NoCall
<1> QED BY <1>1, <1>2, <1>4

LEMMA ChooseSafe ==
    ASSUME ConfigInv, NEW a \in Admins, NEW c, GoodCall(c), c.pc # "locked", Choose(a, c)
    PROVE  ConfigInv' /\ KeepsActivated
<1>1. /\ call' = [call EXCEPT ![a] = c]
      /\ UNCHANGED <<revision, active, secret, override, lock>>
  BY DEF Choose
<1>2. call = [b \in Admins |-> call[b]] /\ \A b \in Admins : GoodCall(call[b])
  BY DEF ConfigInv, CallsGood
<1>3. /\ call' = [b \in Admins |-> call'[b]] /\ call'[a] = c
      /\ \A b \in Admins \ {a} : call'[b] = call[b]
  BY <1>1, <1>2
<1>4. CallsGood'
  BY <1>1, <1>2, <1>3 DEF CallsGood, GoodCall
<1>5. LockedAgree'
  BY <1>1, <1>3 DEF ConfigInv, LockedAgree, Agrees
<1>6. lock' \in [Environments -> Admins \cup {Nobody}]
  BY <1>1 DEF ConfigInv, TablesTyped
<1> QED BY <1>1, <1>4, <1>5, <1>6, TablesStand DEF ConfigInv

\* The lock was free, and what is read under it is what is there.
LEMMA LockSafe ==
    ASSUME ConfigInv, NEW a \in Admins, NEW c, GoodCall(c), c # NoCall, Lock(a, c)
    PROVE  ConfigInv' /\ KeepsActivated
<1> DEFINE e == c.env
           new == [c EXCEPT !.view = View, !.pc = "locked"]
           same == [op |-> c.op, env |-> c.env, rev |-> c.rev, doc |-> c.doc, arg |-> c.arg,
                    pc |-> "locked", view |-> View, etag |-> c.etag]
<1>1. /\ lock[e] = Nobody /\ lock' = [lock EXCEPT ![e] = a]
      /\ call' = [call EXCEPT ![a] = new]
      /\ UNCHANGED <<revision, active, secret, override>>
  BY DEF Lock, EnvironmentFree
<1>2. /\ c = [op |-> c.op, env |-> c.env, rev |-> c.rev, doc |-> c.doc, arg |-> c.arg,
              pc |-> c.pc, view |-> c.view, etag |-> c.etag]
      /\ e \in Environments
      /\ c.op \in RowOperations => c.rev \in Revisions /\ revision[c.rev].env = e
      /\ c.op = "rollback" => c.rev \in Revisions
      /\ c.op \in {"createSecret", "rotate", "destroy"} => c.arg.name \in Secrets
      /\ c.op = "override" => c.arg.user \in Users /\ c.arg.plan \in Plans \cup {NoPlan}
  BY DEF GoodCall
<1>3. new = same
  <2> DEFINE x1 == c.op
             x2 == c.env
             x3 == c.rev
             x4 == c.doc
             x5 == c.arg
             x6 == c.pc
             x7 == c.view
             x8 == c.etag
  <2> HIDE DEF x1, x2, x3, x4, x5, x6, x7, x8
  <2>1. [op |-> x1, env |-> x2, rev |-> x3, doc |-> x4, arg |-> x5, pc |-> x6, view |-> x7, etag |-> x8]
          \in [op : {x1}, env : {x2}, rev : {x3}, doc : {x4}, arg : {x5}, pc : {x6}, view : {x7},
               etag : {x8}]
    OBVIOUS
  <2>2. c \in [op : {c.op}, env : {c.env}, rev : {c.rev}, doc : {c.doc}, arg : {c.arg}, pc : {c.pc},
               view : {c.view}, etag : {c.etag}]
    BY <2>1, <1>2 DEF x1, x2, x3, x4, x5, x6, x7, x8
  <2> DEFINE seen == View
             mid == [c EXCEPT !.view = seen]
  <2> HIDE DEF seen
  <2>3. mid = [op |-> c.op, env |-> c.env, rev |-> c.rev, doc |-> c.doc, arg |-> c.arg,
               pc |-> c.pc, view |-> seen, etag |-> c.etag]
    BY <2>2
  <2>4. new = [mid EXCEPT !.pc = "locked"]
    BY DEF seen
  <2> HIDE DEF mid, new
  <2>5. mid \in [op : {c.op}, env : {c.env}, rev : {c.rev}, doc : {c.doc}, arg : {c.arg}, pc : {c.pc},
                 view : {seen}, etag : {c.etag}]
    BY <2>3
  <2>6. [mid EXCEPT !.pc = "locked"] = [op |-> c.op, env |-> c.env, rev |-> c.rev, doc |-> c.doc,
               arg |-> c.arg, pc |-> "locked", view |-> seen, etag |-> c.etag]
    BY <2>5
  <2> QED BY <2>4, <2>6 DEF seen
<1>4. /\ same.op = c.op /\ same.env = e /\ same.rev = c.rev /\ same.arg = c.arg
      /\ same.pc = "locked" /\ same.view = View
  OBVIOUS
<1>5. same = [op |-> same.op, env |-> same.env, rev |-> same.rev, doc |-> same.doc, arg |-> same.arg,
              pc |-> same.pc, view |-> same.view, etag |-> same.etag]
  OBVIOUS
<1>6. /\ View.revision = revision /\ View.active = active
      /\ View.secret = secret /\ View.override = override
  BY DEF View
<1> HIDE DEF e, new, same
<1>7. GoodCall(same)
  BY <1>2, <1>4, <1>5 DEF GoodCall
<1>8. Agrees(same.view, e)
  BY <1>4, <1>6 DEF Agrees
<1>9. /\ lock \in [Environments -> Admins \cup {Nobody}]
      /\ call = [b \in Admins |-> call[b]] /\ \A b \in Admins : GoodCall(call[b])
  BY DEF ConfigInv, CallsGood, TablesTyped
<1>10. /\ lock' \in [Environments -> Admins \cup {Nobody}] /\ lock'[e] = a
       /\ \A f \in Environments \ {e} : lock'[f] = lock[f]
       /\ call' = [b \in Admins |-> call'[b]] /\ call'[a] = same
       /\ \A b \in Admins \ {a} : call'[b] = call[b]
  BY <1>1, <1>2, <1>3, <1>9
<1>11. CallsGood'
  BY <1>1, <1>7, <1>9, <1>10 DEF CallsGood, GoodCall
<1>12. LockedAgree'
  <2> SUFFICES ASSUME NEW b \in Admins, call'[b].pc = "locked"
               PROVE  lock'[call'[b].env] = b /\ Agrees(call[b].view, call[b].env)'
    BY DEF LockedAgree
  <2>1. CASE b = a
    BY <2>1, <1>1, <1>4, <1>8, <1>10 DEF Agrees
  <2>2. CASE b # a
    <3>1. /\ call'[b] = call[b] /\ call[b].env \in Environments
          /\ lock[call[b].env] = b /\ b # Nobody
      BY <2>2, <1>10, LockedCall
    <3>2. Agrees(call[b].view, call[b].env)
      BY <3>1 DEF ConfigInv, LockedAgree
    <3>3. call[b].env # e
      BY <3>1, <1>1
    <3> QED BY <3>1, <3>2, <3>3, <1>1, <1>10 DEF Agrees
  <2> QED BY <2>1, <2>2
<1> QED BY <1>1, <1>10, <1>11, <1>12, TablesStand DEF ConfigInv

LEMMA AbandonSafe ==
    ASSUME ConfigInv, NEW a \in Admins, Abandon(a)
    PROVE  ConfigInv' /\ KeepsActivated
<1> DEFINE e == call[a].env
<1>1. /\ call' = [call EXCEPT ![a] = NoCall]
      /\ lock' = [lock EXCEPT ![e] = IF @ = a THEN Nobody ELSE @]
      /\ UNCHANGED <<revision, active, secret, override>>
      /\ call[a] # NoCall
  BY DEF Abandon, Done, NoCall
<1>2. /\ lock \in [Environments -> Admins \cup {Nobody}]
      /\ call = [b \in Admins |-> call[b]] /\ \A b \in Admins : GoodCall(call[b])
  BY DEF ConfigInv, CallsGood, TablesTyped
<1>3. e \in Environments
  BY <1>1, <1>2 DEF GoodCall
<1> HIDE DEF e
<1>4. /\ lock' \in [Environments -> Admins \cup {Nobody}]
      /\ \A f \in Environments : lock[f] # a => lock'[f] = lock[f]
      /\ call' = [b \in Admins |-> call'[b]] /\ call'[a] = NoCall
      /\ \A b \in Admins \ {a} : call'[b] = call[b]
  BY <1>1, <1>2, <1>3
<1>5. CallsGood'
  BY <1>1, <1>2, <1>4 DEF CallsGood, GoodCall, NoCall
<1>6. LockedAgree'
  <2> SUFFICES ASSUME NEW b \in Admins, call'[b].pc = "locked"
               PROVE  lock'[call'[b].env] = b /\ Agrees(call[b].view, call[b].env)'
    BY DEF LockedAgree
  <2>1. b # a /\ call'[b] = call[b]
    BY <1>4 DEF NoCall
  <2>2. call[b].env \in Environments /\ lock[call[b].env] = b
    BY <2>1, LockedCall
  <2>3. Agrees(call[b].view, call[b].env)
    BY <2>1 DEF ConfigInv, LockedAgree
  <2> QED BY <2>1, <2>2, <2>3, <1>1, <1>4 DEF Agrees
<1> QED BY <1>1, <1>4, <1>5, <1>6, TablesStand DEF ConfigInv

LEMMA ChosenSafe ==
    ASSUME ConfigInv, NEW a \in Admins, Chosen(a)
    PROVE  ConfigInv' /\ KeepsActivated
<1>1. \A r \in Revisions : revision[r].status # "none" => revision[r].env \in Environments
  BY DEF ConfigInv, RowsGood, GoodRow
<1>2. CASE \E r \in Revisions : LET e == revision[r].env IN
             /\ revision[r].status # "none"
             /\ \/ \E doc \in Documents : Choose(a, Fields("replace", e, r, doc, 0))
                \/ \E op \in {"discard", "activate"} : Choose(a, Fields(op, e, r, Empty, 0))
                \/ \E side \in {"draft", "live"} :
                     Choose(a, Fields("rebase", e, r, Empty, [side |-> side, live |-> active[e]]))
  <2>1. PICK r \in Revisions :
             /\ revision[r].status # "none"
             /\ \E op \in RowOperations : \E doc, arg :
                    Choose(a, Fields(op, revision[r].env, r, doc, arg))
    BY <1>2 DEF RowOperations
  <2>2. PICK op \in RowOperations : \E doc, arg : Choose(a, Fields(op, revision[r].env, r, doc, arg))
    BY <2>1
  <2>3. PICK doc, arg : Choose(a, Fields(op, revision[r].env, r, doc, arg))
    BY <2>2
  <2> DEFINE c == Fields(op, revision[r].env, r, doc, arg)
  <2>4. GoodCall(c) /\ c.pc = "chosen"
    BY <1>1, <2>1, <2>2, FieldsGood DEF RowOperations
  <2> HIDE DEF c
  <2> QED BY <2>3, <2>4, ChooseSafe DEF c
<1>3. CASE \E e \in Environments, r \in Revisions :
             /\ active[e] \notin {0, r} /\ revision[r].activated
             /\ Choose(a, [Fields("rollback", e, active[e], Empty, 0) EXCEPT !.rev = r])
  <2>1. PICK e \in Environments, r \in Revisions :
             Choose(a, [Fields("rollback", e, active[e], Empty, 0) EXCEPT !.rev = r])
    BY <1>3
  <2> DEFINE etag == RevisionETag(IF active[e] = 0 THEN NoRevision ELSE revision[active[e]])
             live == active[e]
             first == [op |-> "rollback", env |-> e, rev |-> live, doc |-> Empty, arg |-> 0,
                       pc |-> "chosen", view |-> 0, etag |-> etag]
             c == [op |-> "rollback", env |-> e, rev |-> r, doc |-> Empty, arg |-> 0,
                   pc |-> "chosen", view |-> 0, etag |-> etag]
  <2>2. Fields("rollback", e, active[e], Empty, 0) = first
    BY DEF Fields
  <2> HIDE DEF etag, live
  <2>3. [first EXCEPT !.rev = r] = c
    OBVIOUS
  <2>4. c.op = "rollback" /\ c.env = e /\ c.rev = r /\ c.pc = "chosen"
    OBVIOUS
  <2>5. c = [op |-> c.op, env |-> c.env, rev |-> c.rev, doc |-> c.doc, arg |-> c.arg,
             pc |-> c.pc, view |-> c.view, etag |-> c.etag]
    OBVIOUS
  <2>6. Choose(a, c)
    BY <2>1, <2>2, <2>3
  <2> HIDE DEF c
  <2>7. GoodCall(c)
    BY <2>4, <2>5 DEF GoodCall, RowOperations
  <2> QED BY <2>4, <2>6, <2>7, ChooseSafe
<1>4. CASE \E e \in Environments, n \in Secrets, op \in {"rotate", "destroy"} :
             Choose(a, Fields(op, e, 0, Empty, [name |-> n, version |-> secret[e][n].version]))
  <2>1. PICK e \in Environments, n \in Secrets, op \in {"rotate", "destroy"} :
             Choose(a, Fields(op, e, 0, Empty, [name |-> n, version |-> secret[e][n].version]))
    BY <1>4
  <2> DEFINE arg == [name |-> n, version |-> secret[e][n].version]
             c == Fields(op, e, 0, Empty, arg)
  <2>2. arg.name \in Secrets
    OBVIOUS
  <2> HIDE DEF arg
  <2>3. GoodCall(c) /\ c.pc = "chosen"
    BY <2>1, <2>2, FieldsGood DEF RowOperations
  <2> HIDE DEF c
  <2> QED BY <2>1, <2>3, ChooseSafe DEF c, arg
<1> QED BY <1>2, <1>3, <1>4 DEF Chosen

LEMMA LockChosenSafe ==
    ASSUME ConfigInv, NEW a \in Admins, LockChosen(a)
    PROVE  ConfigInv' /\ KeepsActivated
<1>1. GoodCall(call[a]) /\ call[a] # NoCall /\ Lock(a, call[a])
  BY DEF LockChosen, NoCall, ConfigInv, CallsGood
<1> QED BY <1>1, LockSafe

LEMMA StartSafe ==
    ASSUME ConfigInv, NEW a \in Admins, Start(a)
    PROVE  ConfigInv' /\ KeepsActivated
<1>1. \A r \in Revisions : revision[r].status # "none" => revision[r].env \in Environments
  BY DEF ConfigInv, RowsGood, GoodRow
<1>2. CASE \E r \in Revisions : /\ revision[r].status # "none"
                               /\ Lock(a, Fields("validate", revision[r].env, r, Empty, 0))
  <2>1. PICK r \in Revisions : /\ revision[r].status # "none"
                               /\ Lock(a, Fields("validate", revision[r].env, r, Empty, 0))
    BY <1>2
  <2> DEFINE c == Fields("validate", revision[r].env, r, Empty, 0)
  <2>2. GoodCall(c) /\ c # NoCall
    BY <1>1, <2>1, FieldsGood DEF RowOperations
  <2> HIDE DEF c
  <2> QED BY <2>1, <2>2, LockSafe DEF c
<1>3. CASE \E e \in Environments, op \in {"create", "promote"} : \E doc, arg :
               Lock(a, Fields(op, e, 0, doc, arg))
  <2>1. PICK e \in Environments, op \in {"create", "promote"} : \E doc, arg :
               Lock(a, Fields(op, e, 0, doc, arg))
    BY <1>3
  <2>2. PICK doc, arg : Lock(a, Fields(op, e, 0, doc, arg))
    BY <2>1
  <2> DEFINE c == Fields(op, e, 0, doc, arg)
  <2>3. GoodCall(c) /\ c # NoCall
    BY <2>1, FieldsGood DEF RowOperations
  <2> HIDE DEF c
  <2> QED BY <2>2, <2>3, LockSafe DEF c
<1>4. CASE \E e \in Environments, n \in Secrets :
               Lock(a, Fields("createSecret", e, 0, Empty, [name |-> n]))
  <2>1. PICK e \in Environments, n \in Secrets :
               Lock(a, Fields("createSecret", e, 0, Empty, [name |-> n]))
    BY <1>4
  <2> DEFINE arg == [name |-> n]
             c == Fields("createSecret", e, 0, Empty, arg)
  <2>2. arg.name \in Secrets
    OBVIOUS
  <2> HIDE DEF arg
  <2>3. GoodCall(c) /\ c # NoCall
    BY <2>1, <2>2, FieldsGood DEF RowOperations
  <2> HIDE DEF c
  <2> QED BY <2>1, <2>3, LockSafe DEF c, arg
<1>5. CASE \E e \in Environments, u \in Users, p \in Plans \cup {NoPlan} :
               Lock(a, Fields("override", e, 0, Empty, [user |-> u, plan |-> p]))
  <2>1. PICK e \in Environments, u \in Users, p \in Plans \cup {NoPlan} :
               Lock(a, Fields("override", e, 0, Empty, [user |-> u, plan |-> p]))
    BY <1>5
  <2> DEFINE arg == [user |-> u, plan |-> p]
             c == Fields("override", e, 0, Empty, arg)
  <2>2. arg.user \in Users /\ arg.plan \in Plans \cup {NoPlan}
    OBVIOUS
  <2> HIDE DEF arg
  <2>3. GoodCall(c) /\ c # NoCall
    BY <2>1, <2>2, FieldsGood DEF RowOperations
  <2> HIDE DEF c
  <2> QED BY <2>1, <2>3, LockSafe DEF c, arg
<1> QED BY <1>2, <1>3, <1>4, <1>5 DEF Start

-----------------------------------------------------------------------------
(* The theorems. *)

LEMMA ConfigInvInit ==
    ASSUME Init
    PROVE  ConfigInv
<1>1. \A r \in Revisions : revision[r] = NoRevision
  BY DEF Init
<1>2. /\ NoRevision.env = Nobody /\ NoRevision.status = "none"
      /\ NoRevision.activated \in BOOLEAN /\ ~NoRevision.activated
      /\ NoRevision.number = 0 /\ Shape(NoRevision)
  BY DEF NoRevision, Shape
<1>3. \A r \in Revisions : GoodRow(NoRevision, r)
  <2>1. \A r \in Revisions : 0 \in Nat /\ 0 <= r
    BY RevisionBound DEF Revisions
  <2> QED BY <1>2, <2>1 DEF GoodRow
<1>4. RowsGood
  BY <1>1, <1>3 DEF Init, RowsGood
<1>5. RowsContiguous /\ RefsPresent /\ NumbersUnique
  BY <1>1, <1>2 DEF RowsContiguous, RefsPresent, NumbersUnique
<1>6. TablesTyped
  <2>1. NoSecret \in SecretRecord /\ NoOverride \in OverrideRecord
    BY DEF NoSecret, SecretRecord, NoOverride, OverrideRecord
  <2> QED BY <2>1, RevisionBound DEF Init, TablesTyped
<1>7. CallsGood
  BY DEF Init, CallsGood, GoodCall
<1>8. LockedAgree
  BY DEF Init, LockedAgree, NoCall
<1>9. OverridesPlanned
  BY DEF Init, OverridesPlanned, NoOverride
<1>10. ServesItsDocument
  BY DEF Init, ServesItsDocument
<1> QED BY <1>4, <1>5, <1>6, <1>7, <1>8, <1>9, <1>10 DEF ConfigInv

LEMMA ConfigInvNext ==
    ASSUME ConfigInv, [Next]_vars
    PROVE  ConfigInv' /\ [KeepsActivated]_vars
<1>1. CASE UNCHANGED vars
  <2>1. UNCHANGED <<revision, active, secret, override>> /\ UNCHANGED <<lock, call>>
    BY <1>1 DEF vars
  <2>2. CallsGood' /\ LockedAgree' /\ lock' \in [Environments -> Admins \cup {Nobody}]
    BY <2>1 DEF ConfigInv, CallsGood, GoodCall, LockedAgree, Agrees, TablesTyped
  <2> QED BY <1>1, <2>1, <2>2, TablesStand DEF ConfigInv
<1>2. ASSUME NEW a \in Admins, Step(a)
      PROVE  ConfigInv' /\ KeepsActivated
  <2>1. CASE CreateRevision(a)
    <3>1. /\ call[a].pc = "locked" /\ Insert(a, call[a].doc) /\ Done(a)
          /\ UNCHANGED <<active, secret, override>>
      BY <2>1 DEF CreateRevision, Locked
    <3> QED BY <3>1, InsertSafe
  <2>2. CASE Promote(a)
    <3>1. /\ call[a].pc = "locked" /\ Done(a) /\ UNCHANGED <<active, secret, override>>
          /\ \E doc : Insert(a, doc)
      BY <2>2 DEF Promote, Locked
    <3> QED BY <3>1, InsertSafe
  <2>3. CASE \/ Chosen(a) \/ LockChosen(a) \/ Start(a) \/ Abandon(a)
    BY <2>3, ChosenSafe, LockChosenSafe, StartSafe, AbandonSafe
  <2>4. CASE \/ ReplaceDraft(a) \/ Rebase(a) \/ ValidateRevision(a) \/ DiscardRevision(a)
             \/ ActivateRevision(a) \/ Rollback(a)
    BY <2>4, ReplaceSafe, RebaseSafe, ValidateSafe, DiscardSafe, ActivateSafe, RollbackSafe
  <2>5. CASE \/ CreateSecret(a) \/ RotateSecret(a) \/ DestroySecret(a)
             \/ ReplaceOverride(a) \/ ClearOverride(a)
    BY <2>5, CreateSecretSafe, RotateSecretSafe, DestroySecretSafe, ReplaceOverrideSafe,
       ClearOverrideSafe
  <2> QED BY <1>2, <2>1, <2>2, <2>3, <2>4, <2>5 DEF Step
<1>3. ASSUME NEW e \in Environments, NEW u \in Users, OverrideExpires(e, u)
      PROVE  ConfigInv' /\ KeepsActivated
  BY <1>3, ExpirySafe
<1> QED BY <1>1, <1>2, <1>3 DEF Next

LEMMA ConfigInvariant == Spec => []ConfigInv
<1>1. Init => ConfigInv
  BY ConfigInvInit
<1>2. ConfigInv /\ [Next]_vars => ConfigInv'
  BY ConfigInvNext
<1> QED BY <1>1, <1>2, PTL DEF Spec

\* What serves is a valid revision compiled from its own document, every
\* secret a usable revision names is present, every override in effect names
\* a plan of what serves, and no number is given twice, for any number of
\* administrators whose edits, reviews, activations, rollbacks, secret
\* destructions and overrides interleave (configuration/store.go,
\* draft_lifecycle.go, secrets/manager.go, useroverride/store.go).
THEOREM ActiveSound == Spec => []ActiveIsSound
<1>1. ConfigInv => ActiveIsSound
  BY DEF ConfigInv, ActiveIsSound, RefsPresent, SecretsPresent
<1> QED BY <1>1, ConfigInvariant, PTL

\* The row of a revision that was ever activated keeps its document, its
\* compiled form and its status: what a rollback restores is what served
\* (editableRevision, store.go).
THEOREM ActivatedStays == Spec => ActivatedImmutable
<1>1. ConfigInv /\ [Next]_vars => [KeepsActivated]_vars
  BY ConfigInvNext
<1> QED BY <1>1, ConfigInvariant, PTL DEF Spec, ActivatedImmutable

-----------------------------------------------------------------------------
(* What serves is read through each process's cache of snapshots and the    *)
(* memo of each request.                                                    *)

CONSTANTS Readers, Snapshots, SnapshotSize, CacheCapacity, CacheBytes, MaxMoves
VARIABLES pointer, moves, putting, entries, bytes, loads, reading

Cache == INSTANCE SnapshotCache WITH
    Requests <- Readers, Keys <- Environments, Revisions <- Snapshots, Size <- SnapshotSize,
    Capacity <- CacheCapacity, MaxBytes <- CacheBytes, active <- pointer, pending <- putting,
    refresh <- loads, call <- reading

SomeSnapshot == Snapshots \cup {0}
Reading == [pc : {"idle", "missed", "waiting", "given", "answered"}, key : Environments \cup {0},
            want : SomeSnapshot, rev : SomeSnapshot, memo : [Environments -> SomeSnapshot],
            during : [Environments -> SUBSET SomeSnapshot],
            given : [Environments -> SUBSET SomeSnapshot]]
Load == [pc : {"none", "begun", "loaded", "closing"}, want : SomeSnapshot, rev : SomeSnapshot]

\* What a request has been told of an environment is its memo and nothing else,
\* and the memo was active while it was read.
MemoGood(row) ==
    \A k \in Environments :
        /\ row.memo[k] = 0 => row.given[k] = {}
        /\ row.memo[k] # 0 => row.memo[k] \in row.during[k] /\ row.given[k] = {row.memo[k]}

\* A call that is still reading has among the revisions active during it the one
\* it wants and the present one; what a load gives is compared with these two.
RowGood(row, at) ==
    /\ MemoGood(row)
    /\ row.pc # "idle" => row.key \in Environments
    /\ row.pc \in {"missed", "waiting", "given"} =>
        /\ row.memo[row.key] = 0
        /\ row.want \in row.during[row.key] /\ at[row.key] \in row.during[row.key]
    /\ row.pc = "given" => row.rev # 0
    /\ row.pc = "answered" => row.rev # 0 /\ row.rev = row.memo[row.key]

CacheInv ==
    /\ pointer \in [Environments -> SomeSnapshot]
    /\ loads \in [Environments -> Load]
    /\ reading \in [Readers -> Reading]
    /\ \A c \in Readers : RowGood(reading[c], pointer)

\* The answer goes to the memo and to what was given.
LEMMA AnsweredGood ==
    ASSUME NEW row \in Reading, NEW r \in SomeSnapshot, NEW at, row.key \in Environments, r # 0,
           MemoGood(row), row.memo[row.key] = 0 \/ row.memo[row.key] = r,
           r \in row.during[row.key]
    PROVE  Cache!Answered(row, r) \in Reading /\ RowGood(Cache!Answered(row, r), at)
<1> DEFINE k == row.key
           memo == [row.memo EXCEPT ![k] = r]
           given == [row.given EXCEPT ![k] = row.given[k] \cup {r}]
           after == Cache!Answered(row, r)
<1>1. memo \in [Environments -> SomeSnapshot] /\ given \in [Environments -> SUBSET SomeSnapshot]
  BY DEF Reading
<1>2. after = [row EXCEPT !.pc = "answered", !.rev = r, !.memo = memo, !.given = given]
  BY DEF Cache!Answered
<1> HIDE DEF after, memo, given
<1>3. /\ after \in Reading /\ after.pc = "answered" /\ after.key = k /\ after.rev = r
      /\ after.memo = memo /\ after.during = row.during /\ after.given = given
  BY <1>1, <1>2 DEF Reading
<1> USE DEF memo, given
<1>4. row.given[k] \cup {r} = {r}
  BY DEF MemoGood
<1>5. MemoGood(after)
  <2>1. row.memo \in [Environments -> SomeSnapshot]
        /\ row.given \in [Environments -> SUBSET SomeSnapshot]
    BY DEF Reading
  <2>2. memo[k] = r /\ given[k] = {r}
    BY <1>4, <2>1
  <2>3. ASSUME NEW e \in Environments, e # k
        PROVE  memo[e] = row.memo[e] /\ given[e] = row.given[e]
    BY <2>1, <2>3
  <2> HIDE DEF memo, given
  <2> QED BY <1>3, <2>2, <2>3 DEF MemoGood, k
<1>6. memo[k] = r
  BY DEF Reading
<1> HIDE DEF memo, given
<1> QED BY <1>3, <1>5, <1>6 DEF RowGood, after

\* A request between calls keeps what it was told.
LEMMA IdleGood ==
    ASSUME NEW row \in Reading, MemoGood(row), NEW at
    PROVE  Cache!Idle(row) \in Reading /\ RowGood(Cache!Idle(row), at)
<1> DEFINE after == Cache!Idle(row)
<1>1. /\ after \in Reading /\ after.pc = "idle" /\ after.memo = row.memo
      /\ after.during = row.during /\ after.given = row.given
  BY DEF Cache!Idle, Reading, SomeSnapshot
<1> HIDE DEF after
<1>2. RowGood(after, at)
  BY <1>1 DEF RowGood, MemoGood
<1> QED BY <1>1, <1>2 DEF after

LEMMA NoCallGood ==
    ASSUME NEW at
    PROVE  Cache!NoCall \in Reading /\ RowGood(Cache!NoCall, at)
BY DEF Cache!NoCall, Reading, SomeSnapshot, RowGood, MemoGood

LEMMA CacheInvInit == Cache!Init => CacheInv
<1> SUFFICES ASSUME Cache!Init PROVE CacheInv
  OBVIOUS
<1>1. \A c \in Readers : reading[c] = Cache!NoCall
  BY DEF Cache!Init
<1>2. reading \in [Readers -> Reading]
  BY NoCallGood DEF Cache!Init
<1>3. loads \in [Environments -> Load]
  BY DEF Cache!Init, Cache!NoRefresh, Load, SomeSnapshot
<1> QED BY <1>1, <1>2, <1>3, NoCallGood DEF Cache!Init, CacheInv, SomeSnapshot

\* The pointer moves under the calls that are reading, and they note it.
LEMMA MoveSafe ==
    ASSUME CacheInv, NEW k \in Environments, NEW r \in SomeSnapshot, Cache!Move(k, r),
           loads' = loads
    PROVE  CacheInv'
<1>1. pointer' = [pointer EXCEPT ![k] = r] /\ pointer' \in [Environments -> SomeSnapshot]
  BY DEF Cache!Move, CacheInv
<1>2. ASSUME NEW c \in Readers
      PROVE  reading'[c] \in Reading /\ RowGood(reading'[c], pointer')
  <2> DEFINE row == reading[c]
             busy == row.pc \in {"missed", "waiting", "given"} /\ row.key = k
             during == [row.during EXCEPT ![k] = row.during[k] \cup {r}]
             noted == [row EXCEPT !.during = during]
  <2>1. row \in Reading /\ RowGood(row, pointer)
    BY DEF CacheInv
  <2>2. CASE busy
    <3>1. reading'[c] = noted
      BY <2>2 DEF Cache!Move
    <3>2. during \in [Environments -> SUBSET SomeSnapshot]
      BY <2>1 DEF Reading
    <3>4. /\ row.during[k] \subseteq during[k] /\ r \in during[k]
          /\ \A e \in Environments : row.during[e] \subseteq during[e]
      BY <2>1 DEF Reading
    <3> HIDE DEF during, row
    <3>5. /\ noted \in Reading /\ noted.during = during
          /\ noted.pc = row.pc /\ noted.key = row.key /\ noted.want = row.want
          /\ noted.rev = row.rev /\ noted.memo = row.memo /\ noted.given = row.given
      BY <2>1, <3>2 DEF Reading
    <3>6. pointer'[k] = r
      BY <1>1 DEF CacheInv
    <3> HIDE DEF noted
    <3>7. MemoGood(noted)
      BY <2>1, <3>4, <3>5 DEF RowGood, MemoGood
    <3> QED BY <2>1, <2>2, <3>1, <3>4, <3>5, <3>6, <3>7 DEF RowGood
  <2>3. CASE ~busy
    <3>1. reading'[c] = row
      BY <2>3 DEF Cache!Move
    <3>2. row.pc \in {"missed", "waiting", "given"} => pointer'[row.key] = pointer[row.key]
      BY <1>1, <2>1, <2>3 DEF CacheInv, RowGood
    <3> QED BY <2>1, <3>1, <3>2 DEF RowGood
  <2> QED BY <2>2, <2>3
<1>3. reading' \in [Readers -> Reading]
  BY <1>2 DEF Cache!Move
<1> QED BY <1>1, <1>2, <1>3 DEF CacheInv

\* A load changes no call until it closes, and then gives only a candidate.
LEMMA LoadSafe ==
    ASSUME CacheInv, NEW k \in Environments,
           \/ Cache!RefreshLoad(k) \/ Cache!RefreshPut(k) \/ Cache!RefreshFails(k)
           \/ Cache!RefreshClose(k)
    PROVE  CacheInv'
<1>1. pointer' = pointer
  BY DEF Cache!RefreshLoad, Cache!RefreshPut, Cache!RefreshFails, Cache!RefreshClose
<1>2. loads' \in [Environments -> Load]
  <2>1. loads[k] \in Load /\ pointer[k] \in SomeSnapshot
    BY DEF CacheInv
  <2>2. \A load \in Load, rev \in SomeSnapshot, pc \in {"loaded", "closing"} :
            /\ [load EXCEPT !.pc = pc, !.rev = rev] \in Load
            /\ [load EXCEPT !.pc = pc] \in Load
    BY DEF Load
  <2>3. \A load \in Load : loads' = [loads EXCEPT ![k] = load] => loads' \in [Environments -> Load]
    BY DEF CacheInv
  <2>4. CASE Cache!RefreshLoad(k)
    <3>1. PICK rev \in SomeSnapshot, pc \in {"loaded", "closing"} :
              loads' = [loads EXCEPT ![k] = [loads[k] EXCEPT !.pc = pc, !.rev = rev]]
      <4>1. CASE Cache!Hit(k, loads[k].want)
        BY <2>1, <2>4, <4>1 DEF Cache!RefreshLoad, Load
      <4>2. CASE ~Cache!Hit(k, loads[k].want)
        BY <2>1, <2>4, <4>2 DEF Cache!RefreshLoad, SomeSnapshot
      <4> QED BY <4>1, <4>2
    <3> QED BY <2>1, <2>2, <2>3, <3>1
  <2>5. CASE Cache!RefreshPut(k)
    <3>1. loads' = [loads EXCEPT ![k] = [loads[k] EXCEPT !.pc = "closing"]]
      BY <2>5 DEF Cache!RefreshPut
    <3> QED BY <2>1, <2>2, <2>3, <3>1
  <2>6. CASE Cache!RefreshFails(k)
    <3>1. loads' = [loads EXCEPT ![k] = [loads[k] EXCEPT !.pc = "closing", !.rev = 0]]
      BY <2>6 DEF Cache!RefreshFails
    <3> QED BY <2>1, <2>2, <2>3, <3>1 DEF SomeSnapshot
  <2>7. CASE Cache!RefreshClose(k)
    BY <2>3, <2>7 DEF Cache!RefreshClose, Cache!NoRefresh, Load, SomeSnapshot
  <2> QED BY <2>4, <2>5, <2>6, <2>7
<1>3. CASE reading' = reading
  BY <1>1, <1>2, <1>3 DEF CacheInv
<1>4. CASE Cache!RefreshClose(k)
  <2>1. ASSUME NEW c \in Readers
        PROVE  reading'[c] \in Reading /\ RowGood(reading'[c], pointer)
    <3>1. /\ reading[c] \in Reading /\ loads[k].rev \in SomeSnapshot
          /\ RowGood(reading[c], pointer)
      BY DEF CacheInv, Load
    <3>2. reading'[c] = IF reading[c].pc = "waiting" /\ reading[c].key = k
                        THEN IF loads[k].rev = 0 THEN Cache!Idle(reading[c])
                             ELSE [reading[c] EXCEPT !.pc = "given", !.rev = loads[k].rev]
                        ELSE reading[c]
      BY <1>4 DEF Cache!RefreshClose
    <3>3. CASE reading[c].pc = "waiting" /\ reading[c].key = k /\ loads[k].rev # 0
      <4> DEFINE row == reading[c]
                 told == [pc |-> "given", key |-> row.key, want |-> row.want,
                          rev |-> loads[k].rev, memo |-> row.memo, during |-> row.during,
                          given |-> row.given]
      <4>1. reading'[c] = told
        BY <3>1, <3>2, <3>3 DEF Reading
      <4>2. told \in Reading
        BY <3>1 DEF Reading
      <4>3. RowGood(told, pointer)
        BY <3>1, <3>3 DEF RowGood, MemoGood
      <4> QED BY <4>1, <4>2, <4>3
    <3>4. CASE reading[c].pc = "waiting" /\ reading[c].key = k /\ loads[k].rev = 0
      <4>1. reading'[c] = Cache!Idle(reading[c]) /\ MemoGood(reading[c])
        BY <3>1, <3>2, <3>4 DEF RowGood
      <4> QED BY <3>1, <4>1, IdleGood
    <3>5. CASE ~(reading[c].pc = "waiting" /\ reading[c].key = k)
      BY <3>1, <3>2, <3>5
    <3> QED BY <3>3, <3>4, <3>5
  <2>2. reading' \in [Readers -> Reading]
    BY <1>4, <2>1 DEF Cache!RefreshClose
  <2> QED BY <1>1, <1>2, <2>1, <2>2 DEF CacheInv
<1> QED BY <1>3, <1>4 DEF Cache!RefreshLoad, Cache!RefreshPut, Cache!RefreshFails

\* A call is answered from the memo, or reads the pointer, waits and compares
\* what it was given; the request asks again, or leaves.
LEMMA ReaderSafe ==
    ASSUME CacheInv, NEW c \in Readers,
           \/ \E k \in Environments : Cache!Recall(c, k) \/ Cache!ReadPointer(c, k)
           \/ Cache!JoinOrStart(c) \/ Cache!Compare(c) \/ Cache!Use(c) \/ Cache!Leave(c)
    PROVE  CacheInv'
<1> DEFINE row == reading[c]
           Becomes(new) == reading' = [reading EXCEPT ![c] = new]
<1>1. pointer' = pointer
  BY DEF Cache!Recall, Cache!ReadPointer, Cache!JoinOrStart, Cache!Compare, Cache!Use, Cache!Leave
<1>2. row \in Reading /\ RowGood(row, pointer) /\ MemoGood(row)
  BY DEF CacheInv, RowGood
<1>3. loads' \in [Environments -> Load]
  <2>1. CASE Cache!JoinOrStart(c)
    <3>1. row.key \in Environments /\ row.want \in SomeSnapshot
      BY <1>2, <2>1 DEF RowGood, Reading, Cache!JoinOrStart
    <3> QED BY <2>1, <3>1 DEF CacheInv, Cache!JoinOrStart, Load, SomeSnapshot
  <2> QED BY <2>1 DEF CacheInv, Cache!Recall, Cache!ReadPointer, Cache!Compare, Cache!Use, Cache!Leave
<1>4. \E new \in Reading : Becomes(new) /\ RowGood(new, pointer)
  <2>1. ASSUME NEW k \in Environments, Cache!Recall(c, k)
        PROVE  \E new \in Reading : Becomes(new) /\ RowGood(new, pointer)
    <3> DEFINE asking == [row EXCEPT !.key = k]
    <3>1. /\ Becomes(Cache!Answered(asking, row.memo[k])) /\ row.memo[k] # 0
      BY <2>1 DEF Cache!Recall
    <3>2. /\ asking \in Reading /\ asking.key = k /\ asking.memo = row.memo
          /\ asking.during = row.during /\ asking.given = row.given
      BY <1>2 DEF Reading
    <3>3. row.memo[k] \in SomeSnapshot /\ row.memo[k] \in row.during[k]
      BY <1>2, <3>1 DEF Reading, MemoGood
    <3> HIDE DEF asking, row
    <3>4. MemoGood(asking)
      BY <1>2, <3>2 DEF MemoGood
    <3>5. /\ Cache!Answered(asking, row.memo[k]) \in Reading
          /\ RowGood(Cache!Answered(asking, row.memo[k]), pointer)
      BY <3>1, <3>2, <3>3, <3>4, AnsweredGood
    <3> QED BY <3>1, <3>5
  <2>2. ASSUME NEW k \in Environments, Cache!ReadPointer(c, k)
        PROVE  \E new \in Reading : Becomes(new) /\ RowGood(new, pointer)
    <3> DEFINE during == [row.during EXCEPT ![k] = {pointer[k]}]
               asking == [row EXCEPT !.pc = "missed", !.key = k, !.want = pointer[k],
                                     !.during = during]
    <3>1. pointer[k] \in SomeSnapshot /\ pointer[k] # 0 /\ row.memo[k] = 0
      BY <2>2 DEF CacheInv, Cache!ReadPointer
    <3>2. Becomes(Cache!Answered(asking, pointer[k])) \/ Becomes(asking)
      BY <2>2 DEF Cache!ReadPointer
    <3>3. /\ during \in [Environments -> SUBSET SomeSnapshot] /\ during[k] = {pointer[k]}
          /\ \A e \in Environments : e # k => during[e] = row.during[e]
      BY <1>2, <3>1 DEF Reading
    <3> HIDE DEF during, row
    <3>4. /\ asking \in Reading /\ asking.pc = "missed" /\ asking.key = k
          /\ asking.want = pointer[k] /\ asking.during = during
          /\ asking.memo = row.memo /\ asking.given = row.given
      BY <1>2, <3>1, <3>3 DEF Reading
    <3> HIDE DEF asking
    <3>5. MemoGood(asking)
      BY <1>2, <3>1, <3>3, <3>4 DEF MemoGood
    <3>6. RowGood(asking, pointer)
      BY <3>1, <3>3, <3>4, <3>5 DEF RowGood
    <3>7. /\ Cache!Answered(asking, pointer[k]) \in Reading
          /\ RowGood(Cache!Answered(asking, pointer[k]), pointer)
      BY <3>1, <3>3, <3>4, <3>5, AnsweredGood
    <3> QED BY <3>2, <3>4, <3>6, <3>7
  <2>3. CASE Cache!JoinOrStart(c)
    <3> DEFINE new == [row EXCEPT !.pc = "waiting"]
    <3>1. Becomes(new) /\ row.pc = "missed"
      BY <2>3 DEF Cache!JoinOrStart
    <3>2. /\ new \in Reading /\ new.pc = "waiting" /\ new.key = row.key /\ new.want = row.want
          /\ new.memo = row.memo /\ new.during = row.during /\ new.given = row.given
      BY <1>2 DEF Reading
    <3> HIDE DEF new, row
    <3>3. RowGood(new, pointer)
      BY <1>2, <3>1, <3>2 DEF RowGood, MemoGood
    <3> QED BY <3>1, <3>2, <3>3
  <2>4. CASE Cache!Compare(c)
    <3>1. /\ row.pc = "given" /\ row.key \in Environments /\ row.rev # 0
          /\ row.memo[row.key] = 0
          /\ row.want \in row.during[row.key] /\ pointer[row.key] \in row.during[row.key]
      BY <1>2, <2>4 DEF RowGood, Cache!Compare
    <3>2. pointer[row.key] \in SomeSnapshot /\ row.rev \in SomeSnapshot
      BY <1>2, <3>1 DEF CacheInv, Reading
    <3>3. CASE Cache!Accepts(c)
      <4>1. Becomes(Cache!Answered(row, row.rev))
        BY <2>4, <3>3 DEF Cache!Compare
      <4>2. row.rev \in row.during[row.key]
        BY <3>1, <3>3 DEF Cache!Accepts
      <4> HIDE DEF row
      <4>3. /\ Cache!Answered(row, row.rev) \in Reading
            /\ RowGood(Cache!Answered(row, row.rev), pointer)
        BY <1>2, <3>1, <3>2, <4>2, AnsweredGood
      <4> QED BY <4>1, <4>3
    <3>4. CASE ~Cache!Accepts(c) /\ pointer[row.key] = 0
      <4>1. Becomes(Cache!Idle(row))
        BY <2>4, <3>4 DEF Cache!Compare
      <4> HIDE DEF row
      <4> QED BY <1>2, <4>1, IdleGood
    <3>5. CASE ~Cache!Accepts(c) /\ pointer[row.key] # 0
      <4> DEFINE new == [row EXCEPT !.pc = "missed", !.want = pointer[row.key]]
      <4>1. Becomes(new)
        BY <2>4, <3>5 DEF Cache!Compare, Cache!Retries
      <4>2. /\ new \in Reading /\ new.pc = "missed" /\ new.key = row.key
            /\ new.want = pointer[row.key]
            /\ new.memo = row.memo /\ new.during = row.during /\ new.given = row.given
        BY <1>2, <3>2 DEF Reading
      <4> HIDE DEF new, row
      <4>3. RowGood(new, pointer)
        BY <1>2, <3>1, <4>2 DEF RowGood, MemoGood
      <4> QED BY <4>1, <4>2, <4>3
    <3> QED BY <3>3, <3>4, <3>5
  <2>5. CASE Cache!Use(c)
    <3>1. Becomes(Cache!Idle(row))
      BY <2>5 DEF Cache!Use
    <3> HIDE DEF row
    <3> QED BY <1>2, <3>1, IdleGood
  <2>6. CASE Cache!Leave(c)
    <3>1. Becomes(Cache!NoCall)
      BY <2>6 DEF Cache!Leave
    <3> QED BY <3>1, NoCallGood
  <2> QED BY <2>1, <2>2, <2>3, <2>4, <2>5, <2>6
<1>5. PICK new \in Reading : Becomes(new) /\ RowGood(new, pointer)
  BY <1>4
<1>6. /\ reading' \in [Readers -> Reading]
      /\ \A d \in Readers : reading'[d] = IF d = c THEN new ELSE reading[d]
  BY <1>5 DEF CacheInv
<1>7. \A d \in Readers : RowGood(reading'[d], pointer')
  BY <1>1, <1>5, <1>6 DEF CacheInv
<1> QED BY <1>1, <1>3, <1>6, <1>7 DEF CacheInv

\* Every answer that a request gets is a revision that was active at some moment
\* of its first call for the environment, and all its answers are the same one:
\* for any number of requests, environments and moves of the pointer, and
\* whatever the cache keeps, evicts or shares meanwhile (active_cache.go:235,
\* Store.ActiveSnapshot).
THEOREM AnsweredWhileActive ==
    Cache!Spec => [](Cache!ActiveWhenAsked /\ Cache!OneRevisionPerRequest)
<1>1. ASSUME CacheInv, [Cache!Next]_(Cache!vars)
      PROVE  CacheInv'
  <2>1. CASE UNCHANGED Cache!vars
    BY <1>1, <2>1 DEF Cache!vars, CacheInv
  <2>2. ASSUME NEW k \in Environments, NEW r \in SomeSnapshot,
               \/ r \in Snapshots /\ Cache!ActivateHere(k, r)
               \/ Cache!ActivateElsewhere(k, r)
        PROVE  CacheInv'
    BY <1>1, <2>2, MoveSafe DEF Cache!ActivateHere, Cache!ActivateElsewhere
  <2>3. ASSUME NEW k \in Environments,
               Cache!Age(k) \/ \E r \in Snapshots : Cache!PutActivated(k, r)
        PROVE  CacheInv'
    <3>1. UNCHANGED <<pointer, loads, reading>>
      BY <2>3 DEF Cache!Age, Cache!PutActivated
    <3> QED BY <1>1, <3>1 DEF CacheInv
  <2> QED BY <1>1, <2>1, <2>2, <2>3, LoadSafe, ReaderSafe DEF Cache!Next, SomeSnapshot
<1>2. CacheInv => Cache!ActiveWhenAsked /\ Cache!OneRevisionPerRequest
  <2> SUFFICES ASSUME CacheInv
               PROVE  Cache!ActiveWhenAsked /\ Cache!OneRevisionPerRequest
    OBVIOUS
  <2>1. ASSUME NEW c \in Readers, reading[c].pc = "answered"
        PROVE  reading[c].rev \in reading[c].during[reading[c].key]
    BY <2>1 DEF CacheInv, RowGood, MemoGood
  <2>2. ASSUME NEW c \in Readers, NEW k \in Environments
        PROVE  \A r, s \in reading[c].given[k] : r = s
    BY DEF CacheInv, RowGood, MemoGood
  <2> QED BY <2>1, <2>2 DEF Cache!ActiveWhenAsked, Cache!OneRevisionPerRequest
<1> QED BY <1>1, <1>2, CacheInvInit, PTL DEF Cache!Spec

=============================================================================
