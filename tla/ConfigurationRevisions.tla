----------------------- MODULE ConfigurationRevisions -----------------------
(***************************************************************************)
(* Configuration revisions and drafts (internal/configuration/store.go and *)
(* draft_lifecycle.go) with what they refer to: the secrets of an          *)
(* environment (internal/secrets/manager.go) and the limit-plan overrides  *)
(* of its users (internal/useroverride/store.go).                          *)
(*                                                                         *)
(* A document is the set of limit plans it defines and the set of secrets  *)
(* it refers to; one without plans stands for a document the semantic      *)
(* checks refuse.  Every operation is one transaction that locks the       *)
(* environment row and reads, then checks, writes and commits; between the *)
(* administrator's choice and the lock any other operation may run.        *)
(***************************************************************************)
EXTENDS Naturals, FiniteSets

CONSTANTS Admins, Environments, Plans, Secrets, Users,
          Documents,      \* what an administrator may write
          MaxRevisions, MaxEdits, MaxVersions

VARIABLES revision,   \* config_revisions
          active,     \* active_config_revisions
          secret,     \* secret_records: the last version of a name
          override,   \* user_overrides: the row that is not revoked
          lock,       \* the environment row's lock
          call        \* an administrator's operation in flight

vars == <<revision, active, secret, override, lock, call>>

Revisions == 1..MaxRevisions
Nobody == "nobody"
NoPlan == "no plan"

ASSUME NobodyIsNobody == Nobody \notin Admins \cup Environments
ASSUME RevisionBound == MaxRevisions \in Nat

Empty == [plans |-> {}, refs |-> {}]
NoRevision == [env |-> Nobody, status |-> "none", doc |-> Empty, compiled |-> Empty, edit |-> 0,
               base |-> 0, activated |-> FALSE, number |-> 0]
NoSecret == [version |-> 0, state |-> "none"]
NoOverride == [plan |-> NoPlan, state |-> "none"]
NoCall == [op |-> "none", pc |-> "idle"]

(***************************************************************************)
(* Reading.                                                                *)
(***************************************************************************)
\* Strong ETag of a revision: its edit version and document.
RevisionETag(row) == <<row.edit, row.doc>>

\* Slip: an activated revision is as editable as any valid one.
EditableWhenValid(row) == row.status \in {"draft", "invalid", "valid"}

EditableRevision(row) ==
    row.status \in {"draft", "invalid"} \/ (row.status = "valid" /\ ~row.activated)

\* What a transaction reads once it holds the environment row.
View == [revision |-> revision, active |-> active, secret |-> secret, override |-> override]

\* Names a document may refer to: neither rotated away nor destroyed.
SecretNames(view, e) == {n \in Secrets : view.secret[e][n].state = "current"}

\* Validator.Validate: cross-references, secret references and semantics.
Valid(doc, names) == doc.plans # {} /\ doc.refs \subseteq names

\* Slip: an override that expires some day is not waited for.
OverridesIgnored(view, e, doc) == TRUE

\* validateActiveUserOverrides
OverridesSatisfied(view, e, doc) ==
    \A u \in Users : view.override[e][u].state = "effective" => view.override[e][u].plan \in doc.plans

\* Slip: only the revision that serves blocks destruction.
ReferencedByActive(view, e, n) ==
    view.active[e] # 0 /\ n \in view.revision[view.active[e]].doc.refs

\* secretReferencedByUsableConfiguration
Referenced(view, e, n) ==
    \E r \in Revisions : /\ view.revision[r].env = e /\ view.revision[r].status = "valid"
                         /\ n \in view.revision[r].doc.refs

\* pendingDraft
Pending(view, e) ==
    \E r \in Revisions :
        /\ view.revision[r].env = e /\ ~view.revision[r].activated
        /\ view.revision[r].status \notin {"none", "discarded"}
        /\ view.active[e] # 0 => view.revision[r].number > view.revision[view.active[e]].number

(***************************************************************************)
(* threeWayMerge, by plan; secret references are atomic (a sensitive key). *)
(***************************************************************************)
BaseOf(view, r) ==
    IF view.revision[r].base = 0 THEN Empty ELSE view.revision[view.revision[r].base].doc

MergedPlans(base, draft, live) ==
    {p \in Plans : p \in (IF (p \in draft) = (p \in base) THEN live ELSE draft)}

Conflicts(base, draft, live) ==
    draft.refs # live.refs /\ base.refs # draft.refs /\ base.refs # live.refs

Merged(base, draft, live, side) ==
    [plans |-> MergedPlans(base.plans, draft.plans, live.plans),
     refs |-> CASE Conflicts(base, draft, live) -> IF side = "draft" THEN draft.refs ELSE live.refs
                [] base.refs = draft.refs -> live.refs
                [] OTHER -> draft.refs]

\* promoteDocument: plans come from the source, environment-bound entries and
\* their secret references stay the target's where it has them.
Promoted(source, target) ==
    [plans |-> source.plans, refs |-> IF target.refs = {} THEN source.refs ELSE target.refs]

(***************************************************************************)
(* An operation starts by locking the environment row.  One that carries   *)
(* what its administrator read before (an ETag, the live revision, a       *)
(* secret's record) is chosen in a step of its own.                        *)
(***************************************************************************)
Fields(op, e, r, doc, arg) ==
    [op |-> op, env |-> e, rev |-> r, doc |-> doc, arg |-> arg, pc |-> "chosen", view |-> 0,
     etag |-> RevisionETag(IF r = 0 THEN NoRevision ELSE revision[r])]

Choose(a, fields) ==
    /\ call[a].op = "none"
    /\ call' = [call EXCEPT ![a] = fields]
    /\ UNCHANGED <<revision, active, secret, override, lock>>

\* Slip: the environment row is read without FOR UPDATE.
EnvironmentUnlocked(e) == TRUE

EnvironmentFree(e) == lock[e] = Nobody

\* environment(..., forUpdate), lockSecretEnvironment, lockActiveEnvironment.
Lock(a, fields) ==
    /\ EnvironmentFree(fields.env)
    /\ lock' = [lock EXCEPT ![fields.env] = a]
    /\ call' = [call EXCEPT ![a] = [fields EXCEPT !.view = View, !.pc = "locked"]]
    /\ UNCHANGED <<revision, active, secret, override>>

Chosen(a) ==
    \/ \E r \in Revisions : LET e == revision[r].env IN
        /\ revision[r].status # "none"
        /\ \/ \E doc \in Documents : Choose(a, Fields("replace", e, r, doc, 0))
           \/ \E op \in {"discard", "activate"} : Choose(a, Fields(op, e, r, Empty, 0))
           \/ \E side \in {"draft", "live"} :
                Choose(a, Fields("rebase", e, r, Empty, [side |-> side, live |-> active[e]]))
    \/ \E e \in Environments, r \in Revisions :
        /\ active[e] \notin {0, r} /\ revision[r].activated
        /\ Choose(a, [Fields("rollback", e, active[e], Empty, 0) EXCEPT !.rev = r])
    \/ \E e \in Environments, n \in Secrets, op \in {"rotate", "destroy"} :
        Choose(a, Fields(op, e, 0, Empty, [name |-> n, version |-> secret[e][n].version]))

LockChosen(a) == call[a].pc = "chosen" /\ Lock(a, call[a])

Start(a) ==
    /\ call[a].op = "none"
    /\ \/ \E r \in Revisions : /\ revision[r].status # "none"
                               /\ Lock(a, Fields("validate", revision[r].env, r, Empty, 0))
       \/ \E e \in Environments :
            \/ \E doc \in Documents : Lock(a, Fields("create", e, 0, doc, 0))
            \/ \E src \in Environments \ {e} : Lock(a, Fields("promote", e, 0, Empty, src))
            \/ \E n \in Secrets : Lock(a, Fields("createSecret", e, 0, Empty, [name |-> n]))
            \/ \E u \in Users, p \in Plans \cup {NoPlan} :
                    Lock(a, Fields("override", e, 0, Empty, [user |-> u, plan |-> p]))

Done(a) ==
    /\ call' = [call EXCEPT ![a] = NoCall]
    /\ lock' = [lock EXCEPT ![call[a].env] = IF @ = a THEN Nobody ELSE @]

\* Any check that fails, and any error, rolls back.
Abandon(a) ==
    /\ call[a].op # "none"
    /\ Done(a)
    /\ UNCHANGED <<revision, active, secret, override>>

Locked(a, op) == call[a].op = op /\ call[a].pc = "locked"
Row(a) == call[a].view.revision[call[a].rev]
Matches(a) == RevisionETag(Row(a)) = call[a].etag

(***************************************************************************)
(* Revisions.                                                              *)
(***************************************************************************)
\* Insert with the next revision number of the environment.
Insert(a, doc) ==
    LET e == call[a].env
        view == call[a].view
        numbers == {view.revision[r].number : r \in {x \in Revisions : view.revision[x].env = e}}
    IN \E r \in Revisions :
        /\ revision[r].status = "none"
        /\ \A x \in Revisions : x < r => revision[x].status # "none"
        /\ revision' = [revision EXCEPT ![r] =
                [env |-> e, status |-> "draft", doc |-> doc, compiled |-> Empty, edit |-> 1,
                 base |-> view.active[e], activated |-> FALSE,
                 number |-> 1 + (IF numbers = {} THEN 0
                                 ELSE CHOOSE m \in numbers : \A k \in numbers : k <= m)]]

CreateRevision(a) ==
    /\ Locked(a, "create")
    /\ Insert(a, call[a].doc)
    /\ Done(a)
    /\ UNCHANGED <<active, secret, override>>

Promote(a) ==
    LET view == call[a].view
        source == view.active[call[a].arg]
        target == view.active[call[a].env]
    IN /\ Locked(a, "promote")
       /\ source # 0
       /\ ~Pending(view, call[a].env)
       /\ Insert(a, Promoted(view.revision[source].doc,
                             IF target = 0 THEN Empty ELSE view.revision[target].doc))
       /\ Done(a)
       /\ UNCHANGED <<active, secret, override>>

\* The update of ReplaceDraft and Rebase: back to a draft, nothing compiled.
Edited(row, doc, base) ==
    [row EXCEPT !.doc = doc, !.edit = @ + 1, !.base = base, !.status = "draft", !.compiled = Empty]

ReplaceDraft(a) ==
    /\ Locked(a, "replace")
    /\ EditableRevision(Row(a)) /\ Matches(a)
    /\ Row(a).edit < MaxEdits
    /\ revision' = [revision EXCEPT ![call[a].rev] = Edited(Row(a), call[a].doc, Row(a).base)]
    /\ Done(a)
    /\ UNCHANGED <<active, secret, override>>

Rebase(a) ==
    LET view == call[a].view
        live == view.active[call[a].env]
        base == BaseOf(view, call[a].rev)
    IN /\ Locked(a, "rebase")
       /\ EditableRevision(Row(a)) /\ live # 0 /\ live = call[a].arg.live
       /\ Matches(a)
       /\ Row(a).base # live
       /\ Row(a).edit < MaxEdits
       /\ revision' = [revision EXCEPT ![call[a].rev] =
              Edited(Row(a), Merged(base, Row(a).doc, view.revision[live].doc, call[a].arg.side), live)]
       /\ Done(a)
       /\ UNCHANGED <<active, secret, override>>

\* A valid revision keeps its report; others are compiled or marked invalid.
ValidateRevision(a) ==
    LET valid == Valid(Row(a).doc, SecretNames(call[a].view, call[a].env)) IN
    /\ Locked(a, "validate")
    /\ Row(a).status \in {"draft", "invalid"}
    /\ revision' = [revision EXCEPT
            ![call[a].rev].status = IF valid THEN "valid" ELSE "invalid",
            ![call[a].rev].compiled = IF valid THEN Row(a).doc ELSE Empty]
    /\ Done(a)
    /\ UNCHANGED <<active, secret, override>>

\* Slip: a state the table does not know.
DeletedRow(row) == [row EXCEPT !.status = "deleted", !.compiled = Empty]

DiscardedRow(row) == [row EXCEPT !.status = "discarded", !.compiled = Empty]

DiscardRevision(a) ==
    /\ Locked(a, "discard")
    /\ EditableRevision(Row(a)) /\ Matches(a)
    /\ revision' = [revision EXCEPT ![call[a].rev] = DiscardedRow(Row(a))]
    /\ Done(a)
    /\ UNCHANGED <<active, secret, override>>

ActivateRevision(a) ==
    LET e == call[a].env
        view == call[a].view
    IN /\ Locked(a, "activate")
       /\ Matches(a) /\ Row(a).status = "valid"
       /\ ~Row(a).activated /\ Row(a).base = view.active[e]
       /\ OverridesSatisfied(view, e, Row(a).compiled)
       /\ revision' = [revision EXCEPT ![call[a].rev].activated = TRUE]
       /\ active' = [active EXCEPT ![e] = call[a].rev]
       /\ Done(a)
       /\ UNCHANGED <<secret, override>>

\* The row of the target is not touched.
Rollback(a) ==
    LET e == call[a].env
        view == call[a].view
    IN /\ Locked(a, "rollback")
       /\ view.active[e] # 0 /\ RevisionETag(view.revision[view.active[e]]) = call[a].etag
       /\ view.active[e] # call[a].rev
       /\ Row(a).env = e /\ Row(a).status = "valid" /\ Row(a).activated
       /\ OverridesSatisfied(view, e, Row(a).compiled)
       /\ active' = [active EXCEPT ![e] = call[a].rev]
       /\ Done(a)
       /\ UNCHANGED <<revision, secret, override>>

(***************************************************************************)
(* Secrets; a name that was destroyed is never used again.                 *)
(***************************************************************************)
SecretRow(a) == call[a].view.secret[call[a].env][call[a].arg.name]

SetSecret(a, row) ==
    /\ secret' = [secret EXCEPT ![call[a].env][call[a].arg.name] = row]
    /\ Done(a)
    /\ UNCHANGED <<revision, active, override>>

CreateSecret(a) ==
    /\ Locked(a, "createSecret")
    /\ SecretRow(a).state = "none"
    /\ SetSecret(a, [version |-> 1, state |-> "current"])

RotateSecret(a) ==
    /\ Locked(a, "rotate")
    /\ SecretRow(a).state = "current" /\ SecretRow(a).version = call[a].arg.version
    /\ SecretRow(a).version < MaxVersions
    /\ SetSecret(a, [version |-> SecretRow(a).version + 1, state |-> "current"])

\* Destroying what is destroyed succeeds for the record that was current.
DestroySecret(a) ==
    /\ Locked(a, "destroy")
    /\ SecretRow(a).state # "none" /\ SecretRow(a).version = call[a].arg.version
    /\ SecretRow(a).state = "current" => ~Referenced(call[a].view, call[a].env, call[a].arg.name)
    /\ SetSecret(a, [SecretRow(a) EXCEPT !.state = "destroyed"])

(***************************************************************************)
(* Overrides.                                                              *)
(***************************************************************************)
SetOverride(a, row) ==
    /\ override' = [override EXCEPT ![call[a].env][call[a].arg.user] = row]
    /\ Done(a)
    /\ UNCHANGED <<revision, active, secret>>

ReplaceOverride(a) ==
    LET view == call[a].view
        live == view.active[call[a].env]
    IN /\ Locked(a, "override") /\ call[a].arg.plan # NoPlan
       /\ live # 0 /\ call[a].arg.plan \in view.revision[live].compiled.plans
       /\ SetOverride(a, [plan |-> call[a].arg.plan, state |-> "effective"])

ClearOverride(a) ==
    /\ Locked(a, "override") /\ call[a].arg.plan = NoPlan
    /\ SetOverride(a, NoOverride)

\* expires_at passes; the row stays until it is replaced or cleared.
OverrideExpires(e, u) ==
    /\ override[e][u].state = "effective"
    /\ override' = [override EXCEPT ![e][u].state = "expired"]
    /\ UNCHANGED <<revision, active, secret, lock, call>>

(***************************************************************************)
Init ==
    /\ revision = [r \in Revisions |-> NoRevision]
    /\ active = [e \in Environments |-> 0]
    /\ secret = [e \in Environments |-> [n \in Secrets |-> NoSecret]]
    /\ override = [e \in Environments |-> [u \in Users |-> NoOverride]]
    /\ lock = [e \in Environments |-> Nobody]
    /\ call = [a \in Admins |-> NoCall]

Step(a) ==
    \/ Chosen(a) \/ LockChosen(a) \/ Start(a) \/ Abandon(a)
    \/ CreateRevision(a) \/ Promote(a) \/ ReplaceDraft(a) \/ Rebase(a)
    \/ ValidateRevision(a) \/ DiscardRevision(a) \/ ActivateRevision(a) \/ Rollback(a)
    \/ CreateSecret(a) \/ RotateSecret(a) \/ DestroySecret(a)
    \/ ReplaceOverride(a) \/ ClearOverride(a)

Next ==
    \/ \E a \in Admins : Step(a)
    \/ \E e \in Environments, u \in Users : OverrideExpires(e, u)

Spec == Init /\ [][Next]_vars

(***************************************************************************)
(* Properties.                                                             *)
(***************************************************************************)
TypeOK ==
    /\ \A r \in Revisions :
        /\ revision[r].status \in {"none", "draft", "invalid", "valid", "discarded"}
        /\ revision[r].edit \in 0..MaxEdits /\ revision[r].base \in 0..MaxRevisions
    /\ active \in [Environments -> 0..MaxRevisions]
    /\ secret \in [Environments -> [Secrets -> [version : 0..MaxVersions,
                                                state : {"none", "current", "destroyed"}]]]
    /\ \A e \in Environments, u \in Users :
        override[e][u].state \in {"none", "effective", "expired"}
    /\ lock \in [Environments -> Admins \cup {Nobody}]

\* No usable revision (valid, serving or once served) refers to a secret that
\* was destroyed, although validation and destruction race (store.go:293,
\* manager.go:676): what serves, and what a rollback restores, finds its secrets.
SecretsPresent ==
    \A r \in Revisions : revision[r].status = "valid" =>
        \A n \in revision[r].doc.refs : secret[revision[r].env][n].state = "current"

\* No activation, rollback or override leaves a user on a limit plan that the
\* serving revision does not define (validateActiveUserOverrides).
OverridesPlanned ==
    \A e \in Environments, u \in Users : override[e][u].state = "effective" =>
        active[e] # 0 /\ override[e][u].plan \in revision[active[e]].compiled.plans

\* What serves is a valid revision compiled from its own document, whatever
\* edits, rebases and validations of it other administrators had in flight.
ServesItsDocument ==
    \A e \in Environments : active[e] # 0 =>
        LET row == revision[active[e]] IN
        row.env = e /\ row.status = "valid" /\ row.activated /\ row.compiled = row.doc

\* Revision numbers of an environment are never used twice.
NumbersUnique ==
    \A r, t \in Revisions :
        revision[r].env = revision[t].env /\ revision[r].number = revision[t].number
            /\ revision[r].number # 0 => r = t

\* The active revision serves the document that was reviewed under its number,
\* with every secret it names present and every override naming one of its
\* plans, although edits, reviews, deletions and activations interleave.
ActiveIsSound == SecretsPresent /\ OverridesPlanned /\ ServesItsDocument /\ NumbersUnique

\* The row of a revision that was ever activated keeps its document.
KeepsActivated ==
    \A r \in Revisions : revision[r].activated =>
         /\ revision'[r].doc = revision[r].doc /\ revision'[r].compiled = revision[r].compiled
         /\ revision'[r].status = revision[r].status

\* The document of a revision that was ever activated never changes, so that a
\* rollback restores what was served (editableRevision).
ActivatedImmutable == [][KeepsActivated]_vars
=============================================================================
