-------------------------- MODULE AttestationKeys --------------------------
(***************************************************************************)
(* The stored App Attest key of a device and its assertion counter         *)
(* (internal/attestation: app_attest.go, app_attest_postgresql.go; the     *)
(* link to a session in internal/session/store.go, the revocation of       *)
(* pending keys in internal/controlplane/store.go).                        *)
(*                                                                         *)
(* One credential of one device.  The device attests its key once and then *)
(* signs assertions with a counter that only rises; each piece of evidence *)
(* is over the binding of one session challenge.  Verifying a piece writes *)
(* the key row in a transaction of its own, whose commit may be            *)
(* acknowledged, lost on the way or lost on the way back, before the       *)
(* transaction that opens the session links the row.                       *)
(* Certificates, signatures and CBOR are external: evidence in `made' is   *)
(* genuine, and evidence over another binding does not verify.             *)
(***************************************************************************)
EXTENDS Naturals, FiniteSets

CONSTANTS Calls,       \* verifications in progress
          Bindings,    \* session challenges
          HolderOf,    \* the user and proof key a challenge is bound to
          None,
          MaxCounter   \* bound: assertions the device signs

VARIABLES challenge,   \* the state of each challenge
          made,        \* evidence the device produced
          key,         \* the row of attestation_keys
          receipts,    \* commit receipts not deleted yet, one token per transaction
          expired,     \* the receipts that are a day old
          scope,       \* the application and environment are active
          call,        \* the verifications
          tx,          \* their transactions as the database has them
          top,         \* the highest counter ever committed
          sessions     \* challenges that opened a session

vars == <<challenge, made, key, receipts, expired, scope, call, tx, top, sessions>>

Holders == {HolderOf[b] : b \in Bindings}
NoKey == [status |-> "absent", holder |-> None, counter |-> 0, hash |-> None,
          linked |-> FALSE, old |-> FALSE]
NoCall == [step |-> "idle", evidence |-> None, binding |-> None]
NoTx == [state |-> "none", next |-> NoKey, inserts |-> FALSE, evidence |-> None]

Evidence == [kind : {"attestation", "assertion"}, counter : 0..MaxCounter, binding : Bindings]

TypeOK ==
    /\ challenge \in [Bindings -> {"new", "open", "consumed", "expired"}]
    /\ made \subseteq Evidence
    /\ key \in [status : {"absent", "active", "revoked"}, holder : Holders \cup {None},
                counter : 0..MaxCounter, hash : Bindings \cup {None},
                linked : BOOLEAN, old : BOOLEAN]
    \* validateAppAttestStoredKey, without which the row is not usable again
    /\ (key.counter = 0) = (key.hash = None)
    /\ expired \subseteq receipts /\ receipts \subseteq Calls \X Evidence
    /\ scope \in {"active", "disabled"} /\ top \in 0..MaxCounter /\ sessions \subseteq Bindings
    /\ \A k \in Calls : /\ call[k].step \in {"idle", "begun", "written", "committing", "resolving", "verified"}
                        /\ tx[k].state \in {"none", "open", "in_flight", "committed", "aborted"}

-----------------------------------------------------------------------------
(* The client. *)

OpenChallenge(b) ==
    /\ challenge[b] = "new" /\ scope = "active"
    /\ challenge' = [challenge EXCEPT ![b] = "open"]
    /\ UNCHANGED <<made, key, receipts, expired, scope, call, tx, top, sessions>>

AttestKey(b) ==
    /\ challenge[b] = "open" /\ made = {}
    /\ made' = {[kind |-> "attestation", counter |-> 0, binding |-> b]}
    /\ UNCHANGED <<challenge, key, receipts, expired, scope, call, tx, top, sessions>>

SignAssertion(b) ==
    /\ challenge[b] = "open" /\ made # {} /\ Cardinality(made) <= MaxCounter
    /\ made' = made \cup {[kind |-> "assertion", counter |-> Cardinality(made), binding |-> b]}
    /\ UNCHANGED <<challenge, key, receipts, expired, scope, call, tx, top, sessions>>

-----------------------------------------------------------------------------
(* Verification. *)

\* A transaction's random commit token: a call writes a piece of evidence once.
Token(k) == <<k, tx[k].evidence>>

\* Slip: the object is taken for whatever challenge it is sent with.
SignedAnyhow(e, b) == TRUE

\* The nonce of a certificate and the signature of an assertion are over the
\* binding hash.
Signed(e, b) == e.binding = b

\* Verify up to the store: the challenge was read as open.
Verify(k, e, b) ==
    /\ call[k].step = "idle" /\ tx[k].state # "in_flight"
    /\ challenge[b] = "open" /\ Signed(e, b)
    /\ call' = [call EXCEPT ![k] = [step |-> "begun", evidence |-> e, binding |-> b]]
    /\ tx' = [tx EXCEPT ![k] = NoTx]
    /\ UNCHANGED <<challenge, made, key, receipts, expired, scope, top, sessions>>

\* A transaction that has not ended holds the advisory lock of the key.
LockHeld == \E k \in Calls : tx[k].state \in {"open", "in_flight"}

\* sameAppAttestRegistration: the same unused key in the same scope.
SameRegistration(b) == key.status = "active" /\ key.counter = 0 /\ key.holder = HolderOf[b]

\* A counter that was used is accepted again only for the assertion it was
\* used with.
SameAssertion(e, b) == e.counter = key.counter /\ key.hash = b
Advances(e) == e.counter > key.counter

\* What the callback makes of the locked row.
Decision(e, b) ==
    CASE e.kind = "attestation" /\ key.status = "absent" -> "insert"
      [] e.kind = "attestation" /\ SameRegistration(b) -> "replay"
      [] e.kind = "assertion" /\ key.status = "active" /\ key.holder = HolderOf[b]
            /\ e.counter # 0 /\ SameAssertion(e, b) -> "replay"
      [] e.kind = "assertion" /\ key.status = "active" /\ key.holder = HolderOf[b]
            /\ e.counter # 0 /\ Advances(e) -> "update"
      [] OTHER -> "refuse"

\* The insertion keeps the application and environment FOR SHARE.
ScopeAllowsInsert == scope = "active"

\* TransactAppAttestKey up to its commit.
Transact(k) ==
    LET e == call[k].evidence
        b == call[k].binding
        decision == Decision(e, b) IN
    /\ call[k].step = "begun" /\ ~LockHeld
    /\ \/ /\ decision = "refuse" \/ (decision = "insert" /\ ~ScopeAllowsInsert)
          /\ call' = [call EXCEPT ![k] = NoCall] /\ UNCHANGED tx
       \/ /\ decision = "replay"
          /\ call' = [call EXCEPT ![k].step = "verified"] /\ UNCHANGED tx
       \/ /\ decision = "insert" /\ ScopeAllowsInsert
          /\ call' = [call EXCEPT ![k].step = "written"]
          /\ tx' = [tx EXCEPT ![k] = [state |-> "open", inserts |-> TRUE, evidence |-> e,
                       next |-> [NoKey EXCEPT !.status = "active", !.holder = HolderOf[b]]]]
       \/ /\ decision = "update"
          /\ call' = [call EXCEPT ![k].step = "written"]
          /\ tx' = [tx EXCEPT ![k] = [state |-> "open", inserts |-> FALSE, evidence |-> e,
                       next |-> [key EXCEPT !.counter = e.counter, !.hash = b]]]
    /\ UNCHANGED <<challenge, made, key, receipts, expired, scope, top, sessions>>

\* The caller is cancelled, or the connection breaks, before the commit.
Cancel(k) ==
    /\ call[k].step \in {"begun", "written"}
    /\ call' = [call EXCEPT ![k] = NoCall]
    /\ tx' = [tx EXCEPT ![k].state = IF @ = "open" THEN "aborted" ELSE @]
    /\ UNCHANGED <<challenge, made, key, receipts, expired, scope, top, sessions>>

SendCommit(k) ==
    /\ call[k].step = "written"
    /\ call' = [call EXCEPT ![k].step = "committing"]
    /\ tx' = [tx EXCEPT ![k].state = "in_flight"]
    /\ UNCHANGED <<challenge, made, key, receipts, expired, scope, top, sessions>>

\* The database commits what the transaction wrote, its receipt included.
DatabaseCommits(k) ==
    /\ tx[k].state = "in_flight"
    /\ tx' = [tx EXCEPT ![k].state = "committed"]
    /\ key' = tx[k].next /\ top' = IF tx[k].next.counter > top THEN tx[k].next.counter ELSE top
    /\ receipts' = receipts \cup {Token(k)}
    /\ UNCHANGED <<challenge, made, scope, expired, call, sessions>>

\* The commit never reached it.
DatabaseAborts(k) ==
    /\ tx[k].state = "in_flight"
    /\ tx' = [tx EXCEPT ![k].state = "aborted"]
    /\ UNCHANGED <<challenge, made, key, receipts, expired, scope, call, top, sessions>>

\* deleteAppAttestCommitReceipt, whose failure is ignored.
ReceiptDeleted(k) ==
    \/ receipts' = receipts \ {Token(k)} /\ expired' = expired \ {Token(k)}
    \/ UNCHANGED <<receipts, expired>>

Acknowledged(k) ==
    /\ call[k].step = "committing" /\ tx[k].state = "committed"
    /\ call' = [call EXCEPT ![k].step = "verified"]
    /\ ReceiptDeleted(k)
    /\ UNCHANGED <<challenge, made, key, scope, tx, top, sessions>>

\* The answer to the commit is an error, whatever the database does or did.
AnswerLost(k) ==
    /\ call[k].step = "committing"
    /\ call' = [call EXCEPT ![k].step = "resolving"]
    /\ UNCHANGED <<challenge, made, key, receipts, expired, scope, tx, top, sessions>>

\* Slip: the receipt is read at once.
ReceiptAtOnce(k) == TRUE

\* The receipt is looked up under the lock of the key, so that the commit is
\* not still in flight.
ReceiptSettled(k) == ~LockHeld

\* hasAppAttestCommitReceipt.
Resolve(k) ==
    /\ call[k].step = "resolving" /\ ReceiptSettled(k)
    /\ IF Token(k) \in receipts \ expired
       THEN /\ call' = [call EXCEPT ![k].step = "verified"]
            /\ ReceiptDeleted(k)
       ELSE /\ call' = [call EXCEPT ![k] = NoCall]
            /\ UNCHANGED <<receipts, expired>>
    /\ UNCHANGED <<challenge, made, key, scope, tx, top, sessions>>

\* The lookup fails or times out, and so does the call.
ResolveFails(k) ==
    /\ call[k].step = "resolving"
    /\ call' = [call EXCEPT ![k] = NoCall]
    /\ UNCHANGED <<challenge, made, key, receipts, expired, scope, tx, top, sessions>>

-----------------------------------------------------------------------------
(* The session. *)

RowLocked == \E k \in Calls : tx[k].state \in {"open", "in_flight"} /\ ~tx[k].inserts
Linkable(b) == key.status = "active" /\ key.holder = HolderOf[b]

\* Exchange: the challenge is consumed and the key linked in one transaction.
ExchangeSession(k) ==
    LET b == call[k].binding IN
    /\ call[k].step = "verified" /\ ~RowLocked
    /\ IF challenge[b] = "open" /\ scope = "active" /\ Linkable(b)
       THEN /\ challenge' = [challenge EXCEPT ![b] = "consumed"]
            /\ key' = [key EXCEPT !.linked = TRUE]
            /\ sessions' = sessions \cup {b}
       ELSE UNCHANGED <<challenge, key, sessions>>
    /\ call' = [call EXCEPT ![k] = NoCall]
    /\ UNCHANGED <<made, receipts, expired, scope, tx, top>>

\* The transaction of the session fails, after the key was written.
ExchangeFails(k) ==
    /\ call[k].step = "verified"
    /\ call' = [call EXCEPT ![k] = NoCall]
    /\ UNCHANGED <<challenge, made, key, receipts, expired, scope, tx, top, sessions>>

-----------------------------------------------------------------------------
(* Administration and maintenance. *)

\* Slip: the insertion only reads them.
ScopeNotShared == FALSE

\* An insertion not ended shares the application and environment.
ScopeShared == \E k \in Calls : tx[k].state \in {"open", "in_flight"} /\ tx[k].inserts

\* revokeScopedCredentials: keys not linked are revoked, challenges closed.
DisableScope ==
    /\ scope = "active" /\ ~ScopeShared /\ ~RowLocked
    /\ scope' = "disabled"
    /\ key' = IF key.status = "active" /\ ~key.linked THEN [key EXCEPT !.status = "revoked"] ELSE key
    /\ challenge' = [b \in Bindings |-> IF challenge[b] = "open" THEN "consumed" ELSE challenge[b]]
    /\ UNCHANGED <<made, receipts, expired, call, tx, top, sessions>>

EnableScope ==
    /\ scope = "disabled"
    /\ scope' = "active"
    /\ UNCHANGED <<challenge, made, key, receipts, expired, call, tx, top, sessions>>

\* More than any call or challenge lasts.
DayPasses ==
    /\ \A k \in Calls : call[k].step = "idle" /\ tx[k].state \notin {"open", "in_flight"}
    /\ challenge' = [b \in Bindings |-> IF challenge[b] = "open" THEN "expired" ELSE challenge[b]]
    /\ expired' = receipts
    /\ key' = [key EXCEPT !.old = key.status # "absent"]
    /\ UNCHANGED <<made, receipts, scope, call, tx, top, sessions>>

\* Slip: the age of the key is not looked at.
AbandonedAtAnyAge == key.status = "active" /\ ~key.linked /\ receipts \subseteq expired

\* A key no session was opened with, a day after its creation, and without a
\* receipt that a call may still look for.
Abandoned == key.status = "active" /\ ~key.linked /\ key.old /\ receipts \subseteq expired

\* DeleteExpired; locked rows are skipped.
DeleteExpired ==
    /\ expired # {} \/ (Abandoned /\ ~RowLocked)
    /\ receipts' = receipts \ expired /\ expired' = {}
    /\ key' = IF Abandoned /\ ~RowLocked THEN NoKey ELSE key
    /\ UNCHANGED <<challenge, made, scope, call, tx, top, sessions>>

-----------------------------------------------------------------------------
Init ==
    /\ challenge = [b \in Bindings |-> "new"] /\ made = {} /\ key = NoKey
    /\ receipts = {} /\ expired = {} /\ scope = "active"
    /\ call = [k \in Calls |-> NoCall] /\ tx = [k \in Calls |-> NoTx]
    /\ top = 0 /\ sessions = {}

Next ==
    \/ \E b \in Bindings : OpenChallenge(b) \/ AttestKey(b) \/ SignAssertion(b)
    \/ \E k \in Calls :
          \/ \E e \in made, b \in Bindings : Verify(k, e, b)
          \/ Transact(k) \/ Cancel(k) \/ SendCommit(k) \/ Acknowledged(k) \/ AnswerLost(k)
          \/ DatabaseCommits(k) \/ DatabaseAborts(k) \/ Resolve(k) \/ ResolveFails(k)
          \/ ExchangeSession(k) \/ ExchangeFails(k)
    \/ DisableScope \/ EnableScope \/ DayPasses \/ DeleteExpired

Spec == Init /\ [][Next]_vars

-----------------------------------------------------------------------------
(* Properties. *)

\* The counter of a stored key never falls behind what was once committed for
\* it, not by a lost answer, a late commit, or a key deleted and registered
\* again: an assertion once passed over is never accepted later.
CounterKept == key.status = "active" => key.counter = top

\* Whoever is told that evidence was verified finds it in the store: either
\* as the last that advanced the counter, or overtaken by a later one.
VerifiedIsDurable ==
    \A k \in Calls : call[k].step = "verified" =>
        /\ Signed(call[k].evidence, call[k].binding)
        /\ call[k].evidence.counter <= top
        /\ key.status # "absent" /\ key.counter = call[k].evidence.counter =>
              key.counter = 0 \/ key.hash = call[k].evidence.binding

\* A call that has ended, refused or not, has no commit still under way
\* unless its lookup itself failed: a missing receipt is conclusive.
ResolutionIsConclusive(k) ==
    call[k].step = "resolving" /\ call'[k].step = "idle" /\ Resolve(k) =>
        tx[k].state = "aborted" \/ (tx[k].state = "committed" /\ Token(k) \in expired)
ResolutionsAreConclusive == \A k \in Calls : ResolutionIsConclusive(k)

\* While an application or environment is disabled no key waits for a session,
\* although a registration was under way when it was disabled.
DisabledHoldsNoPending == scope = "disabled" => ~(key.status = "active" /\ ~key.linked)

\* Evidence for a challenge that is still open can be sent again after any
\* failure, as long as nothing newer was used and nobody disabled the scope:
\* neither a lost answer nor maintenance strands the device.
RetryAccepted ==
    \A e \in made : challenge[e.binding] = "open" =>
        /\ key.status = "active" /\ key.holder = HolderOf[e.binding] /\ e.counter = key.counter
              => Decision(e, e.binding) = "replay"
        /\ e.kind = "attestation" /\ (\E k \in Calls : tx[k].state = "committed" /\ tx[k].evidence = e)
              => key.status # "absent"

\* A session opened with a key keeps it, and no other user's challenge opened
\* a session with it.
SessionsKeepKey ==
    sessions # {} => /\ key.status # "absent" /\ key.linked
                     /\ \A b \in sessions : HolderOf[b] = key.holder
=============================================================================
