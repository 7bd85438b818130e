------------------------- MODULE AccountPurge_proofs -------------------------
(* Proofs about CronLease and AccountPurge, for any number of accounts,       *)
(* addresses, concurrent sign-ins and invocations of the sweep.               *)
EXTENDS AccountPurge, FiniteSetTheorems, TLAPS

(* A window without a row has had no run, and a window has at most one: the   *)
(* row outlives the run, so that who comes later is turned away.              *)
LeaseInv ==
  /\ lease \in [Windows -> {"free", "running", "done", "failed"}]
  /\ runner \in [Callers -> Windows \union {NoWindow}]
  /\ begun \in [Windows -> {0, 1}]
  /\ \A w \in Windows : lease[w] = "free" =>
        begun[w] = 0 /\ \A c \in Callers : runner[c] # w
  /\ \A c, d \in Callers : Running(c) /\ runner[c] = runner[d] => c = d

Accounts ==
  [kind: {"row"}, email: Addresses, deleted: BOOLEAN, tagged: BOOLEAN, left: 0..Grace]

(* Only tombstones carry the suffix and all of them do, and the mailbox's      *)
(* index entry and every address have one holder.                              *)
AccountInv ==
  /\ account \in [Users -> {Absent} \union Accounts]
  /\ signin \in [Handlers -> {Idle} \union [kind: {"revive"}, user: Users]]
  /\ \A u \in Existing : account[u].deleted = account[u].tagged
  /\ \A u, v \in Holders : u = v
  /\ \A u, v \in Existing : account[u].email = account[v].email => u = v

(* A list belongs to a run under way. *)
TodoInv ==
  /\ todo \in [Callers -> {NotListed} \union {Listed(S) : S \in SUBSET Users}]
  /\ \A c \in Callers : todo[c] # NotListed => Running(c)

-----------------------------------------------------------------------------
(* The lease *)

LEMMA LeaseStart == LeaseInit => LeaseInv
BY LeaseAssumption DEF LeaseInit, LeaseInv, Windows, Running

LEMMA AcquireKeeps ==
  ASSUME LeaseInv, NEW c \in Callers, NEW w \in Windows, Acquire(c, w)
  PROVE  LeaseInv'
BY LeaseAssumption DEF LeaseInv, Acquire, Running, Windows

LEMMA RecordKeeps ==
  ASSUME LeaseInv, NEW c \in Callers, NEW status \in {"done", "failed"}, Record(c, status)
  PROVE  LeaseInv'
BY LeaseAssumption DEF LeaseInv, Record, Running, Windows

LEMMA DieKeeps ==
  ASSUME LeaseInv, NEW c \in Callers, Die(c)
  PROVE  LeaseInv'
BY LeaseAssumption DEF LeaseInv, Die, Running, Windows

(* The slot a new day reuses is nobody's, and starts without a row. *)
LEMMA NewWindowKeeps ==
  ASSUME LeaseInv, NewWindow
  PROVE  LeaseInv'
BY LeaseAssumption DEF LeaseInv, NewWindow, Running, Windows

LEMMA LeaseStep ==
  ASSUME LeaseInv, [Step]_vars
  PROVE  LeaseInv'
<1>1. CASE UNCHANGED leaseVars
  BY <1>1 DEF LeaseInv, leaseVars, Running
<1>2. ASSUME NEW c \in Callers, StartSweep(c) PROVE LeaseInv'
  BY <1>2, AcquireKeeps DEF StartSweep
<1>3. ASSUME NEW c \in Callers, SweepDone(c) \/ SweepFails(c) \/ SweepDies(c)
      PROVE  LeaseInv'
  BY <1>3, RecordKeeps, DieKeeps DEF SweepDone, SweepFails, SweepDies, RecordDone, RecordFailed
<1>4. CASE NewDay
  BY <1>4, NewWindowKeeps DEF NewDay
<1>5. ASSUME NEW c \in Callers, Sweep(c) PROVE LeaseInv'
  BY <1>5, <1>1, <1>3 DEF Sweep, ListExpired, PurgeUser, PurgeFails
<1>6. ASSUME \/ \E a \in Addresses : SignUp(a)
             \/ \E u \in Users : SoftDelete(u) \/ GrantAlias(u) \/ GranteeDeleted(u)
             \/ \E h \in Handlers : Revive(h) \/ \E u \in Users : BeginSignIn(h, u)
             \/ UNCHANGED vars
      PROVE  UNCHANGED leaseVars
  BY <1>6 DEF SignUp, SoftDelete, GrantAlias, GranteeDeleted, Revive, BeginSignIn, vars
<1> QED BY <1>1, <1>2, <1>4, <1>5, <1>6 DEF Step

(* runCronOnce: the body of a window runs at most once, however many callers   *)
(* name the window and however their runs end.                                 *)
THEOREM LeaseSafety == Spec => []AtMostOncePerWindow
<1>1. Init => LeaseInv
  BY LeaseStart DEF Init
<1>2. LeaseInv /\ [Step]_vars => LeaseInv'
  BY LeaseStep
<1>3. LeaseInv => AtMostOncePerWindow
  BY DEF LeaseInv, AtMostOncePerWindow
<1> QED BY <1>1, <1>2, <1>3, PTL DEF Spec

-----------------------------------------------------------------------------
(* The accounts *)

LEMMA AccountStart == Init => AccountInv
BY DEF Init, AccountInv, Existing, Holders

LEMMA SignUpKeeps ==
  ASSUME AccountInv, NEW a \in Addresses, SignUp(a)
  PROVE  AccountInv'
<1>1. PICK u \in Users \ Existing : account' = [account EXCEPT ![u] = Live(a)]
  BY DEF SignUp
<1>2. /\ Live(a) \in Accounts /\ Live(a) # Absent
      /\ Live(a).tagged = FALSE /\ Live(a).deleted = FALSE /\ Live(a).email = a
  BY PurgeAssumption DEF Live, Accounts, Absent
<1>3. /\ account' \in [Users -> {Absent} \union Accounts]
      /\ signin' = signin
  BY <1>1, <1>2 DEF SignUp, AccountInv
<1>4. Existing' = Existing \union {u} /\ Holders' = {u}
  BY <1>1, <1>2 DEF SignUp, AccountInv, Existing, Holders
<1>5. \A v \in Existing : account'[v] = account[v] /\ account[v].email # a
  BY <1>1 DEF SignUp, Existing, AccountInv
<1>6. account'[u] = Live(a)
  BY <1>1 DEF AccountInv
<1>7. \A v \in Existing' : account'[v].deleted = account'[v].tagged
  BY <1>2, <1>4, <1>5, <1>6 DEF AccountInv
<1>8. \A v, w \in Existing' : account'[v].email = account'[w].email => v = w
  BY <1>2, <1>4, <1>5, <1>6 DEF AccountInv
<1> QED BY <1>3, <1>4, <1>7, <1>8 DEF AccountInv

LEMMA SoftDeleteKeeps ==
  ASSUME AccountInv, NEW u \in Users, SoftDelete(u)
  PROVE  AccountInv'
<1> DEFINE tombstone == [account[u] EXCEPT !.deleted = TRUE, !.tagged = TRUE, !.left = Grace]
<1>1. account[u] \in Accounts
  BY DEF SoftDelete, Existing, AccountInv
<1>2. account' = [account EXCEPT ![u] = tombstone]
  BY <1>1 DEF SoftDelete, Accounts, AccountInv
<1>3. /\ tombstone \in Accounts /\ tombstone # Absent
      /\ tombstone.deleted = TRUE /\ tombstone.tagged = TRUE
      /\ tombstone.email = account[u].email
  <2>1. Grace \in 0..Grace
    BY PurgeAssumption
  <2>2. tombstone.kind = "row"
    BY <1>1 DEF Accounts
  <2>3. tombstone \in Accounts
    BY <1>1, <2>1 DEF Accounts
  <2> QED BY <1>1, <2>2, <2>3 DEF Accounts, Absent
<1> HIDE DEF tombstone
<1>4. account' \in [Users -> {Absent} \union Accounts] /\ signin' = signin
  <2>1. account \in [Users -> {Absent} \union Accounts]
    BY DEF AccountInv
  <2> QED BY <1>2, <1>3, <2>1 DEF SoftDelete
<1>5. Existing' = Existing /\ Holders' \subseteq Holders
  BY <1>2, <1>3 DEF SoftDelete, Existing, Holders, AccountInv
<1>6. \A v \in Users : account'[v] = IF v = u THEN tombstone ELSE account[v]
  BY <1>2 DEF AccountInv
<1>7. u \in Existing
  BY DEF SoftDelete
<1>8. \A v \in Existing' : account'[v].deleted = account'[v].tagged
  BY <1>3, <1>5, <1>6 DEF AccountInv, Existing
<1>9. \A v, w \in Existing' : account'[v].email = account'[w].email => v = w
  <2>1. \A v \in Existing : account'[v].email = account[v].email
    BY <1>3, <1>6 DEF Existing
  <2> QED BY <1>5, <2>1 DEF AccountInv
<1>10. \A v, w \in Holders' : v = w
  BY <1>5 DEF AccountInv
<1>11. signin' \in [Handlers -> {Idle} \union [kind: {"revive"}, user: Users]]
  BY <1>4 DEF AccountInv
<1> QED BY <1>4, <1>8, <1>9, <1>10, <1>11 DEF AccountInv

LEMMA ReviveKeeps ==
  ASSUME AccountInv, NEW h \in Handlers, Revive(h)
  PROVE  AccountInv'
<1> DEFINE u == signin[h].user
<1>1. u \in Users /\ signin' \in [Handlers -> {Idle} \union [kind: {"revive"}, user: Users]]
  BY DEF Revive, AccountInv
<1>2. CASE account' = account
  BY <1>1, <1>2 DEF AccountInv, Existing, Holders
<1>3. CASE /\ u \in Existing /\ Holders \ {u} = {}
           /\ account' = [account EXCEPT ![u] = Live(account[u].email)]
  <2> DEFINE live == Live(account[u].email)
  <2>1. account[u] \in Accounts
    BY <1>3, <1>1 DEF Existing, AccountInv
  <2>2. /\ live \in Accounts /\ live # Absent
        /\ live.tagged = FALSE /\ live.deleted = FALSE /\ live.email = account[u].email
    BY <2>1, PurgeAssumption DEF Live, Accounts, Absent
  <2> HIDE DEF live
  <2>3. account' = [account EXCEPT ![u] = live]
    BY <1>3 DEF live
  <2>4. account' \in [Users -> {Absent} \union Accounts]
    BY <2>2, <2>3 DEF AccountInv
  <2>5. Existing' = Existing /\ Holders' = {u}
    BY <1>1, <1>3, <2>2, <2>3 DEF Existing, Holders, AccountInv
  <2>6. \A v \in Users : account'[v] = IF v = u THEN live ELSE account[v]
    BY <2>3 DEF AccountInv
  <2>7. \A v \in Existing' : account'[v].deleted = account'[v].tagged
    BY <2>2, <2>5, <2>6 DEF AccountInv, Existing
  <2>8. \A v, w \in Existing' : account'[v].email = account'[w].email => v = w
    <3>1. \A v \in Existing : account'[v].email = account[v].email
      BY <2>2, <2>6 DEF Existing
    <3> QED BY <2>5, <3>1 DEF AccountInv
  <2> QED BY <1>1, <2>4, <2>5, <2>7, <2>8 DEF AccountInv
<1> QED BY <1>2, <1>3 DEF Revive

LEMMA PurgeKeeps ==
  ASSUME AccountInv, NEW c \in Callers, NEW u \in Users, PurgeUser(c, u)
  PROVE  AccountInv'
<1>1. account' = [account EXCEPT ![u] = Absent] /\ signin' = signin
  BY DEF PurgeUser
<1>2. Existing' = Existing \ {u} /\ Holders' = Holders \ {u}
  BY <1>1 DEF Existing, Holders, AccountInv
<1>3. \A v \in Users \ {u} : account'[v] = account[v]
  BY <1>1 DEF AccountInv
<1>4. account' \in [Users -> {Absent} \union Accounts]
  BY <1>1 DEF AccountInv
<1> QED BY <1>1, <1>2, <1>3, <1>4 DEF AccountInv, Existing, Holders

LEMMA NewDayKeeps ==
  ASSUME AccountInv, NewDay
  PROVE  AccountInv'
<1> DEFINE aged(v) == IF InGrace(v) THEN [account[v] EXCEPT !.left = @ - 1] ELSE account[v]
<1>1. account' = [v \in Users |-> aged(v)] /\ signin' = signin
  BY DEF NewDay
<1>2. ASSUME NEW v \in Users
      PROVE  /\ aged(v) \in {Absent} \union Accounts
             /\ aged(v) = Absent <=> account[v] = Absent
             /\ account[v] # Absent =>
                  /\ aged(v).email = account[v].email
                  /\ aged(v).deleted = account[v].deleted
                  /\ aged(v).tagged = account[v].tagged
  <2>1. CASE ~InGrace(v)
    BY <2>1 DEF AccountInv
  <2>2. CASE InGrace(v)
    <3>1. account[v] \in Accounts /\ account[v].left > 0 /\ account[v] # Absent
      BY <2>2 DEF InGrace, Existing, AccountInv
    <3>2. account[v].left - 1 \in 0..Grace
      BY <3>1, PurgeAssumption DEF Accounts
    <3>3. [account[v] EXCEPT !.left = @ - 1] # Absent
      BY <3>1 DEF Accounts, Absent
    <3> QED BY <2>2, <3>1, <3>2, <3>3 DEF Accounts
  <2> QED BY <2>1, <2>2
<1> HIDE DEF aged
<1>3. Existing' = Existing /\ Holders' = Holders
  BY <1>1, <1>2 DEF Existing, Holders
<1>4. account' \in [Users -> {Absent} \union Accounts]
  BY <1>1, <1>2
<1> QED BY <1>1, <1>2, <1>3, <1>4 DEF AccountInv, Existing

LEMMA AccountStep ==
  ASSUME AccountInv, [Step]_vars
  PROVE  AccountInv'
<1>1. CASE UNCHANGED <<account, signin>>
  BY <1>1 DEF AccountInv, Existing, Holders
<1>2. ASSUME NEW h \in Handlers, NEW u \in Users, BeginSignIn(h, u) PROVE AccountInv'
  BY <1>2 DEF BeginSignIn, AccountInv, Existing, Holders
<1>3. ASSUME NEW c \in Callers, Sweep(c) PROVE AccountInv'
  <2>1. ASSUME NEW u \in Users, PurgeUser(c, u) PROVE AccountInv'
    BY <2>1, PurgeKeeps
  <2>2. \/ UNCHANGED <<account, signin>>
        \/ \E u \in Users : PurgeUser(c, u)
    BY <1>3 DEF Sweep, ListExpired, SweepDone, SweepFails, SweepDies, EndSweep, PurgeFails, others
  <2> QED BY <1>1, <2>1, <2>2
<1>4. ASSUME NEW c \in Callers, StartSweep(c) PROVE UNCHANGED <<account, signin>>
  BY <1>4 DEF StartSweep, others
<1>5. CASE UNCHANGED vars
  BY <1>1, <1>5 DEF vars
<1>6. ASSUME NEW u \in Users, GrantAlias(u) \/ GranteeDeleted(u)
      PROVE  UNCHANGED <<account, signin>>
  BY <1>6 DEF GrantAlias, GranteeDeleted
<1> QED BY <1>1, <1>2, <1>3, <1>4, <1>5, <1>6, SignUpKeeps, SoftDeleteKeeps, ReviveKeeps,
         NewDayKeeps DEF Step

(* A set whose members are all equal has at most one. *)
LEMMA AtMostOneMember ==
  ASSUME NEW S, \A u, v \in S : u = v
  PROVE  Cardinality(S) <= 1
<1>1. CASE S = {}
  BY <1>1, FS_EmptySet
<1>2. ASSUME NEW u \in S PROVE Cardinality(S) <= 1
  <2>1. S = {u}
    BY <1>2
  <2>2. Cardinality(S) = 1
    BY <2>1, FS_Singleton
  <2> QED BY <2>2
<1> QED BY <1>1, <1>2

(* softDeleteUser, reactivateUser and the sign-up: no mailbox ever has two      *)
(* live accounts.                                                               *)
THEOREM AccountSafety == Spec => []OneLiveAccount
<1>1. AccountInv => OneLiveAccount
  <2> SUFFICES ASSUME AccountInv PROVE Cardinality(LiveUsers) <= 1
    BY DEF OneLiveAccount
  <2>1. \A u, v \in LiveUsers : u = v
    BY DEF AccountInv, LiveUsers, Holders
  <2> QED BY <2>1, AtMostOneMember
<1>2. AccountInv /\ [Step]_vars => AccountInv'
  BY AccountStep
<1> QED BY <1>1, <1>2, AccountStart, PTL DEF Spec

-----------------------------------------------------------------------------
(* The grants *)

(* The foreign key: who is named as a grantor has a row. *)
LEMMA GrantorStep ==
  ASSUME AccountInv, grantors \subseteq Existing, [Step]_vars
  PROVE  (grantors \subseteq Existing)'
<1>1. CASE UNCHANGED <<account, grantors>>
  BY <1>1 DEF Existing
<1>2. ASSUME NEW a \in Addresses, SignUp(a) PROVE (grantors \subseteq Existing)'
  BY <1>2 DEF SignUp, Live, Absent, Existing, AccountInv
<1>3. ASSUME NEW u \in Users, SoftDelete(u) PROVE (grantors \subseteq Existing)'
  <2>1. account[u] \in Accounts
    BY <1>3 DEF SoftDelete, Existing, AccountInv
  <2>2. account'[u].kind = "row"
    <3> DEFINE tombstone == [account[u] EXCEPT !.deleted = TRUE, !.tagged = TRUE, !.left = Grace]
    <3>1. account' = [account EXCEPT ![u] = tombstone]
      BY <1>3, <2>1 DEF SoftDelete, Accounts, AccountInv
    <3>2. tombstone.kind = "row"
      BY <2>1 DEF Accounts
    <3> HIDE DEF tombstone
    <3> QED BY <3>1, <3>2 DEF AccountInv
  <2>3. \A v \in Users \ {u} : account'[v] = account[v]
    BY <1>3 DEF SoftDelete, AccountInv
  <2>4. \A v \in Existing : account'[v] # Absent
    BY <2>2, <2>3 DEF Existing, Absent
  <2>5. grantors' = grantors
    BY <1>3 DEF SoftDelete
  <2> QED BY <2>4, <2>5 DEF Existing
<1>4. ASSUME NEW u \in Users, GrantAlias(u) \/ GranteeDeleted(u)
      PROVE  (grantors \subseteq Existing)'
  BY <1>4 DEF GrantAlias, GranteeDeleted, Existing
<1>5. ASSUME NEW h \in Handlers, Revive(h) PROVE (grantors \subseteq Existing)'
  BY <1>5 DEF Revive, Live, Absent, Existing, AccountInv
<1>6. ASSUME NEW c \in Callers, NEW u \in Users, PurgeUser(c, u)
      PROVE  (grantors \subseteq Existing)'
  BY <1>6 DEF PurgeUser, Existing, AccountInv
<1>7. CASE NewDay
  <2> SUFFICES ASSUME NEW u \in Existing PROVE account'[u] # Absent
    BY <1>7 DEF NewDay, Existing
  <2>1. account[u] \in Accounts
    BY DEF Existing, AccountInv
  <2>2. account'[u].kind = "row"
    BY <1>7, <2>1 DEF NewDay, Accounts, Existing
  <2> QED BY <2>2 DEF Absent
<1>8. ASSUME NEW c \in Callers, StartSweep(c) \/ Sweep(c), ~\E u \in Users : PurgeUser(c, u)
      PROVE  UNCHANGED <<account, grantors>>
  BY <1>8 DEF StartSweep, Sweep, ListExpired, SweepDone, SweepFails, SweepDies, EndSweep, PurgeFails,
              others
<1>9. ASSUME \/ \E h \in Handlers, u \in Users : BeginSignIn(h, u)
             \/ UNCHANGED vars
      PROVE  UNCHANGED <<account, grantors>>
  BY <1>9 DEF BeginSignIn, vars
<1> QED BY <1>1, <1>2, <1>3, <1>4, <1>5, <1>6, <1>7, <1>8, <1>9 DEF Step

-----------------------------------------------------------------------------
(* Typing *)

LEMMA TodoStart == Init => TodoInv
BY DEF Init, TodoInv

LEMMA TodoStep ==
  ASSUME TodoInv, LeaseInv, [Step]_vars
  PROVE  TodoInv'
<1>1. CASE UNCHANGED <<todo, runner>>
  BY <1>1 DEF TodoInv, Running
<1>2. ASSUME NEW c \in Callers, StartSweep(c) PROVE TodoInv'
  BY <1>2, LeaseAssumption DEF StartSweep, Acquire, TodoInv, Running, LeaseInv, Windows
<1>3. ASSUME NEW c \in Callers, ListExpired(c) PROVE TodoInv'
  BY <1>3 DEF ListExpired, TodoInv, Running, leaseVars
<1>4. ASSUME NEW c \in Callers, NEW u \in Users, PurgeUser(c, u) \/ PurgeFails(c, u)
      PROVE  TodoInv'
  <2>1. PICK S \in SUBSET Users : todo[c] = Listed(S)
    BY <1>4 DEF PurgeUser, PurgeFails, Pending, TodoInv
  <2>2. todo' = [todo EXCEPT ![c] = Listed(S \ {u})]
    BY <1>4, <2>1 DEF PurgeUser, PurgeFails, Tick, Listed
  <2>3. todo[c] # NotListed
    <3>1. Listed(S).kind = "listed" /\ NotListed.kind = "not listed"
      BY DEF Listed, NotListed
    <3> QED BY <2>1, <3>1
  <2> QED BY <1>4, <2>2, <2>3 DEF PurgeUser, PurgeFails, TodoInv, Running, leaseVars
<1>5. ASSUME NEW c \in Callers, SweepDone(c) \/ SweepFails(c) \/ SweepDies(c)
      PROVE  TodoInv'
  BY <1>5 DEF SweepDone, SweepFails, SweepDies, EndSweep, RecordDone, RecordFailed, Record, Die,
              TodoInv, Running, LeaseInv
<1>6. ASSUME \/ \E a \in Addresses : SignUp(a)
             \/ \E u \in Users : SoftDelete(u) \/ GrantAlias(u) \/ GranteeDeleted(u)
             \/ \E h \in Handlers : Revive(h) \/ \E u \in Users : BeginSignIn(h, u)
             \/ NewDay
             \/ UNCHANGED vars
      PROVE  UNCHANGED <<todo, runner>>
  BY <1>6 DEF SignUp, SoftDelete, GrantAlias, GranteeDeleted, Revive, BeginSignIn, NewDay,
              NewWindow, vars, leaseVars
<1> QED BY <1>1, <1>2, <1>3, <1>4, <1>5, <1>6 DEF Step, Sweep

LEMMA TodayStep ==
  ASSUME today \in Windows, [Step]_vars
  PROVE  today' \in Windows
<1>1. CASE UNCHANGED today
  BY <1>1 DEF Windows
<1>2. CASE NewDay
  <2>1. (today + 1) % MaxWindows \in 0..(MaxWindows - 1)
    BY LeaseAssumption DEF Windows
  <2> QED BY <1>2, <2>1 DEF NewDay, NewWindow, NextWindow, Windows
<1>3. NewDay \/ UNCHANGED today
  BY DEF Step, SignUp, SoftDelete, GrantAlias, GranteeDeleted, Revive, BeginSignIn, StartSweep,
         Acquire, Sweep, ListExpired, PurgeUser, PurgeFails, SweepDone, SweepFails, SweepDies, RecordDone,
         RecordFailed, Record, Die, vars, leaseVars
<1> QED BY <1>1, <1>2, <1>3

(* Every reachable state is well typed, both unique indexes of User hold, and   *)
(* no sweep removes an account a grant names as its grantor.                    *)
THEOREM TypeCorrect == Spec => []TypeOK
<1> DEFINE Inv == LeaseInv /\ AccountInv /\ TodoInv /\ today \in Windows /\ grantors \subseteq Existing
<1>1. Init => Inv
  BY LeaseStart, AccountStart, TodoStart, LeaseAssumption DEF Init, LeaseInit, Windows
<1>2. Inv /\ [Step]_vars => Inv'
  BY LeaseStep, AccountStep, TodoStep, TodayStep, GrantorStep
<1>3. Inv => TypeOK
  <2> SUFFICES ASSUME Inv PROVE TypeOK
    OBVIOUS
  <2>1. LeaseTypeOK
    BY DEF LeaseInv, LeaseTypeOK
  <2>2. \A u \in Users : account[u] \in {Absent} \union Accounts
    BY DEF AccountInv
  <2>3. \A c \in Callers : todo[c] # NotListed => Running(c) /\ todo[c].users \subseteq Users
    BY DEF TodoInv, Listed
  <2>4. \A h \in Handlers : signin[h] \in {Idle} \union [kind: {"revive"}, user: Users]
    BY DEF AccountInv
  <2>5. Cardinality(Holders) <= 1
    BY AtMostOneMember DEF AccountInv
  <2> QED BY <2>1, <2>2, <2>3, <2>4, <2>5 DEF TypeOK, AccountInv, Accounts
<1> HIDE DEF Inv
<1> QED BY <1>1, <1>2, <1>3, PTL DEF Spec
=============================================================================
