---------------------------- MODULE AccountPurge ----------------------------
(* The life of the accounts of one mailbox, from sign-up to physical deletion: *)
(*   src/src/lib/user-lifecycle.ts               (softDeleteUser, reactivate)  *)
(*   src/src/auth.ts, src/src/app/api/auth/signup/route.ts, src/src/db/adapter.ts *)
(*   src/src/app/api/cron/user-purge/route.ts    (the daily sweep)             *)
(* The sweep runs under the lease of CronLease; sign-ins, sign-ups and         *)
(* deletions run beside it.  Several addresses normalise to the mailbox.       *)
EXTENDS CronLease, FiniteSets

CONSTANTS
  Users,      \* user ids, one row each at most
  Addresses,  \* addresses with this mailbox's emailNormalized
  Grace,      \* GRACE_PERIOD_DAYS, in days of the model
  Handlers    \* concurrent sign-ins

ASSUME PurgeAssumption == Grace \in Nat \ {0}

VARIABLES
  account,  \* User rows
  grantors, \* the accounts some StructuralAliasGrant row names as grantedBy
  todo,     \* the users each sweep has listed and not yet dealt with
  signin,   \* the tombstone each sign-in has read and is about to revive
  refused   \* history: sign-ins within the grace period that ended in an error

vars == <<leaseVars, account, grantors, todo, signin, refused>>

Absent == [kind |-> "absent"]
Idle == [kind |-> "idle"]
NotListed == [kind |-> "not listed"]
Listed(S) == [kind |-> "listed", users |-> S]

(* tagged: emailNormalized carries the suffix #deleted-...; left: days until   *)
(* purgePendingUntil.                                                          *)
Live(a) == [kind |-> "row", email |-> a, deleted |-> FALSE, tagged |-> FALSE, left |-> 0]

Existing == {u \in Users : account[u] # Absent}
LiveUsers == {u \in Existing : ~account[u].deleted}
Holders == {u \in Existing : ~account[u].tagged}     \* of the mailbox's index entry
InGrace(u) == u \in Existing /\ account[u].deleted /\ account[u].left > 0
Overdue(u) == u \in Existing /\ account[u].deleted /\ account[u].left = 0

TypeOK ==
  /\ LeaseTypeOK
  /\ \A u \in Users : account[u] \in {Absent} \union
       [kind: {"row"}, email: Addresses, deleted: BOOLEAN, tagged: BOOLEAN, left: 0..Grace]
  /\ grantors \subseteq Existing                             \* ON DELETE RESTRICT
  /\ \A c \in Callers : todo[c] # NotListed => Running(c) /\ todo[c].users \subseteq Users
  /\ \A h \in Handlers : signin[h] \in {Idle} \union [kind: {"revive"}, user: Users]
  /\ Cardinality(Holders) <= 1                              \* User_emailNormalized_unique
  /\ \A u, v \in Existing : account[u].email = account[v].email => u = v

Init ==
  /\ LeaseInit
  /\ account = [u \in Users |-> Absent]
  /\ grantors = {}
  /\ todo = [c \in Callers |-> NotListed]
  /\ signin = [h \in Handlers |-> Idle]
  /\ refused = FALSE

-----------------------------------------------------------------------------
(* Requests *)

(* Mutant: the mailbox of the address is not looked at. *)
SignUpByAddress(a) ==
  /\ \A u \in Existing : account[u].email # a
  /\ \E u \in Users \ Existing : account' = [account EXCEPT ![u] = Live(a)]
  /\ UNCHANGED <<leaseVars, grantors, todo, signin, refused>>

(* With a password: only this address and a live holder of the mailbox stop it. *)
SignUp(a) ==
  /\ Holders = {}
  /\ \A u \in Existing : account[u].email # a
  /\ \E u \in Users \ Existing : account' = [account EXCEPT ![u] = Live(a)]
  /\ UNCHANGED <<leaseVars, grantors, todo, signin, refused>>

(* A session outlives its account's deletion: it may delete it once more. *)
SoftDelete(u) ==
  /\ u \in Existing
  /\ account' = [account EXCEPT ![u].deleted = TRUE, ![u].tagged = TRUE, ![u].left = Grace]
  /\ UNCHANGED <<leaseVars, grantors, todo, signin, refused>>

BeginSignIn(h, u) ==
  /\ signin[h] = Idle /\ InGrace(u)
  /\ signin' = [signin EXCEPT ![h] = [kind |-> "revive", user |-> u]]
  /\ UNCHANGED <<leaseVars, account, grantors, todo, refused>>

(* Mutant: emailNormalized keeps its suffix. *)
ReviveTagged(h) ==
  /\ signin[h] # Idle
  /\ LET u == signin[h].user
     IN  account' = IF u \in Existing
                    THEN [account EXCEPT ![u].deleted = FALSE, ![u].left = 0] ELSE account
  /\ signin' = [signin EXCEPT ![h] = Idle]
  /\ UNCHANGED <<leaseVars, grantors, todo, refused>>

(* reactivateUser, by id and whatever the row has become. *)
Revive(h) ==
  /\ signin[h] # Idle
  /\ LET u == signin[h].user
     IN  IF u \notin Existing THEN UNCHANGED <<account, refused>>
         ELSE IF Holders \ {u} = {}
         THEN account' = [account EXCEPT ![u] = Live(@.email)] /\ UNCHANGED refused
         ELSE refused' = (refused \/ InGrace(u)) /\ UNCHANGED account
  /\ signin' = [signin EXCEPT ![h] = Idle]
  /\ UNCHANGED <<leaseVars, grantors, todo>>

(* An administrator, also one whose own account is deleted, gives a member of   *)
(* another mailbox the right to structural aliases.  Revoking the right keeps   *)
(* the row.                                                                     *)
GrantAlias(u) ==
  /\ u \in Existing
  /\ grantors' = grantors \union {u}
  /\ UNCHANGED <<leaseVars, account, todo, signin, refused>>

(* The last member u gave the right to is physically deleted: the row cascades. *)
GranteeDeleted(u) ==
  /\ u \in grantors
  /\ grantors' = grantors \ {u}
  /\ UNCHANGED <<leaseVars, account, todo, signin, refused>>

-----------------------------------------------------------------------------
(* The sweep *)

others == <<account, grantors, signin, refused>>

(* parseCronWindow: today's window, or the one a header names. *)
StartSweep(c) ==
  /\ \E w \in Windows \ {NextWindow(today)} : Acquire(c, w)
  /\ todo' = [todo EXCEPT ![c] = NotListed]
  /\ UNCHANGED others

ListExpired(c) ==
  /\ Running(c) /\ todo[c] = NotListed
  /\ todo' = [todo EXCEPT ![c] = Listed({u \in Users : Overdue(u)})]
  /\ UNCHANGED <<leaseVars, others>>

Pending(c) == IF todo[c] = NotListed THEN {} ELSE todo[c].users

Tick(c, u) == todo' = [todo EXCEPT ![c].users = @ \ {u}]

(* DELETE by id, without another look at the row; a grant u gave restricts it. *)
PurgeUser(c, u) ==
  /\ u \in Pending(c) \ grantors
  /\ account' = [account EXCEPT ![u] = Absent]
  /\ Tick(c, u)
  /\ UNCHANGED <<leaseVars, grantors, signin, refused>>

(* The DELETE fails, for a grantor every time: it is logged and the sweep goes on. *)
PurgeFails(c, u) ==
  /\ u \in Pending(c)
  /\ Tick(c, u)
  /\ UNCHANGED <<leaseVars, others>>

EndSweep(c) == todo' = [todo EXCEPT ![c] = NotListed] /\ UNCHANGED others

SweepDone(c) == todo[c] = Listed({}) /\ RecordDone(c) /\ EndSweep(c)

(* findMany threw, or the row could not be marked "done". *)
SweepFails(c) ==
  /\ todo[c] \in {NotListed, Listed({})}
  /\ RecordFailed(c) /\ EndSweep(c)

SweepDies(c) == Die(c) /\ EndSweep(c)

NewDay ==
  /\ NewWindow
  /\ account' = [u \in Users |->
       IF InGrace(u) THEN [account[u] EXCEPT !.left = @ - 1] ELSE account[u]]
  /\ UNCHANGED <<grantors, todo, signin, refused>>

-----------------------------------------------------------------------------

Sweep(c) ==
  \/ ListExpired(c) \/ SweepDone(c) \/ SweepFails(c) \/ SweepDies(c)
  \/ \E u \in Users : PurgeUser(c, u) \/ PurgeFails(c, u)

Step ==
  \/ \E a \in Addresses : SignUp(a)
  \/ \E u \in Users : SoftDelete(u) \/ GrantAlias(u) \/ GranteeDeleted(u)
  \/ \E h \in Handlers : Revive(h) \/ \E u \in Users : BeginSignIn(h, u)
  \/ \E c \in Callers : StartSweep(c) \/ Sweep(c)
  \/ NewDay

Spec == Init /\ [][Step]_vars

(* Days pass; the scheduler fires in every window that has not had its run; a  *)
(* run ends somehow; and it is not the case that every list query, or every    *)
(* deletion of one and the same user whom no grant names as its grantor, fails *)
(* or is cut short.  Of a grantor nothing is assumed: PurgeUser is disabled.   *)
FairSpec ==
  /\ Spec
  /\ WF_vars(NewDay)
  /\ SF_vars(\E c \in Callers : StartSweep(c))
  /\ \A c \in Callers : WF_vars(Sweep(c))
  /\ SF_vars(\E c \in Callers : ListExpired(c))
  /\ \A u \in Users : SF_vars(\E c \in Callers : PurgeUser(c, u))

-----------------------------------------------------------------------------
(* Properties *)

(* Deleting, reviving and signing up again with another spelling never leaves  *)
(* two live accounts for one mailbox (the suffix frees the unique index entry  *)
(* of a tombstone only, user-lifecycle.ts:32-37).                              *)
OneLiveAccount == Cardinality(LiveUsers) <= 1

(* A deleted account is physically removed once its grace period is over,      *)
(* unless its owner acts, although a run may fail or die and its window is     *)
(* then lost (user-purge/route.ts:4, cron-lease.ts:19-20), and unless a grant  *)
(* it gave is in the way (schema.ts:532): that account stays until the last    *)
(* member it gave one to is removed, if ever.                                  *)
OverdueIsPurged == \A u \in Users : []<>(~Overdue(u) \/ u \in grantors)

(* Signing in before the grace period ends restores the account                *)
(* (src/src/app/api/user/delete/route.ts:20).                                  *)
GraceRestores == ~refused
=============================================================================
