--------------------------- MODULE AccountsProofs ---------------------------
(***************************************************************************)
(* Theorems about Accounts, for any number of runs, names, roles and runs  *)
(* that die.                                                               *)
(***************************************************************************)
EXTENDS Accounts, FiniteSetTheorems, TLAPS

-----------------------------------------------------------------------------
(* Type correctness. *)

(***************************************************************************)
(* Every state has its type; in particular the role of every user is a     *)
(* committed role, though a run commits the two in two transactions and    *)
(* may die in between.  Only the stage "insert" needs more than the type:  *)
(* a run that is there has found its role or committed it.                 *)
(***************************************************************************)
RoleReady == \A r \in Runs : stage[r] = "insert" => command[r].role \in roles

TypeInv == TypeOK /\ RoleReady

LEMMA InitType == Init => TypeInv
BY AccountsAssumption DEF Init, TypeInv, TypeOK, RoleReady, Users, Stages, Outcomes

LEMMA NextType == TypeInv /\ [Next]_vars => TypeInv'
<1> SUFFICES ASSUME TypeInv, [Next]_vars PROVE TypeInv'
  OBVIOUS
<1> USE DEF TypeInv, TypeOK, RoleReady, Users
<1>1. ASSUME NEW r \in Runs, Begin(r) PROVE TypeInv'
  BY <1>1 DEF Begin, Goto, Stages
<1>2. ASSUME NEW r \in Runs, EnsureUniqueUser(r) PROVE TypeInv'
  BY <1>2 DEF EnsureUniqueUser, Goto, Exit, Stages, Outcomes
<1>3. ASSUME NEW r \in Runs, FindRole(r) PROVE TypeInv'
  BY <1>3 DEF FindRole, RoleMissing, Goto, Stages
<1>4. ASSUME NEW r \in Runs, CommitRole(r) PROVE TypeInv'
  BY <1>4 DEF CommitRole, Goto, Exit, Stages, Outcomes
<1>5. ASSUME NEW r \in Runs, CommitUser(r) PROVE TypeInv'
  BY <1>5 DEF CommitUser, Goto, Exit, Stages, Outcomes
<1>6. ASSUME NEW r \in Runs, Report(r) PROVE TypeInv'
  BY <1>6 DEF Report, Exit, Stages, Outcomes
<1>7. ASSUME NEW r \in Runs, Die(r) PROVE TypeInv'
  BY <1>7, AccountsAssumption DEF Die, Stages, Outcomes
<1>8. CASE UNCHANGED vars
  BY <1>8 DEF vars
<1> QED BY <1>1, <1>2, <1>3, <1>4, <1>5, <1>6, <1>7, <1>8 DEF Next, Step

THEOREM AccountsTypeCorrect == Spec => []TypeOK
<1>1. TypeInv => TypeOK
  BY DEF TypeInv
<1> QED BY <1>1, InitType, NextType, PTL DEF Spec

-----------------------------------------------------------------------------
(* One account for one username and one email. *)

(***************************************************************************)
(* No two users are alike, and a run that has committed its user, printed  *)
(* or not yet printed, finds it in the table.                              *)
(***************************************************************************)
NoTwoAlike == \A u, v \in users : u # v => ~Alike(u, v)
HoldsItsUser == \A r \in Runs :
    stage[r] = "print" \/ outcome[r] = "created" => command[r] \in users
HoldsAlone == \A r, q \in Runs :
    /\ r # q
    /\ stage[r] = "print" \/ outcome[r] = "created"
    /\ stage[q] = "print" \/ outcome[q] = "created"
    => ~Alike(command[r], command[q])
DoneStaysDone == \A r \in Runs : outcome[r] = "created" => stage[r] = "idle"

AloneInv == NoTwoAlike /\ HoldsItsUser /\ HoldsAlone /\ DoneStaysDone

LEMMA InitAlone == Init => AloneInv
BY DEF Init, AloneInv, NoTwoAlike, HoldsItsUser, HoldsAlone, DoneStaysDone

LEMMA NextAlone == TypeInv /\ AloneInv /\ [Next]_vars => AloneInv'
<1> SUFFICES ASSUME TypeInv, AloneInv, [Next]_vars PROVE AloneInv'
  OBVIOUS
<1> USE DEF TypeInv, TypeOK, AloneInv, NoTwoAlike, HoldsItsUser, HoldsAlone, DoneStaysDone
<1>1. ASSUME NEW r \in Runs, Begin(r) PROVE AloneInv'
  BY <1>1 DEF Begin, Goto
<1>2. ASSUME NEW r \in Runs, EnsureUniqueUser(r) PROVE AloneInv'
  BY <1>2 DEF EnsureUniqueUser, Goto, Exit
<1>3. ASSUME NEW r \in Runs, FindRole(r) PROVE AloneInv'
  BY <1>3 DEF FindRole, RoleMissing, Goto
<1>4. ASSUME NEW r \in Runs, CommitRole(r) PROVE AloneInv'
  BY <1>4 DEF CommitRole, Goto, Exit
<1>5. ASSUME NEW r \in Runs, CommitUser(r), Taken(r) PROVE AloneInv'
  BY <1>5 DEF CommitUser, Exit
<1>6. ASSUME NEW r \in Runs, CommitUser(r), ~Taken(r) PROVE AloneInv'
  <2>1. \A u \in users : ~Alike(u, command[r]) /\ ~Alike(command[r], u)
    BY <1>6 DEF Taken, Alike
  <2>2. users' = users \cup {command[r]} /\ command' = command /\ outcome' = outcome
    BY <1>6 DEF CommitUser, Goto
  <2>3. stage' = [stage EXCEPT ![r] = "print"]
    BY <1>6 DEF CommitUser, Goto
  <2>4. NoTwoAlike'
    BY <2>1, <2>2 DEF Alike
  <2>5. HoldsItsUser' /\ HoldsAlone'
    BY <2>1, <2>2, <2>3 DEF Alike
  <2>6. DoneStaysDone'
    BY <1>6, <2>2, <2>3 DEF CommitUser
  <2> QED BY <2>4, <2>5, <2>6
<1>7. ASSUME NEW r \in Runs, Report(r) PROVE AloneInv'
  BY <1>7 DEF Report, Exit
<1>8. ASSUME NEW r \in Runs, Die(r) PROVE AloneInv'
  BY <1>8 DEF Die
<1>9. CASE UNCHANGED vars
  BY <1>9 DEF vars
<1> QED BY <1>1, <1>2, <1>3, <1>4, <1>5, <1>6, <1>7, <1>8, <1>9 DEF Next, Step

LEMMA Alone == Spec => []AloneInv
BY InitType, NextType, InitAlone, NextAlone, PTL DEF Spec

(***************************************************************************)
(* No two runs that report success share a username or an email, however   *)
(* many of them run together and wherever they die.                        *)
(***************************************************************************)
THEOREM OneWinnerOnly == Spec => []OneWinner
<1>1. AloneInv => OneWinner
  BY DEF AloneInv, HoldsAlone, OneWinner
<1> QED BY <1>1, Alone, PTL

(***************************************************************************)
(* A login name is ambiguous only across the two columns.                  *)
(***************************************************************************)
THEOREM AmbiguityIsAcross == Spec => []AmbiguousOnlyAcross
<1>1. AloneInv => AmbiguousOnlyAcross
  BY DEF AloneInv, NoTwoAlike, Alike, AmbiguousOnlyAcross, Matches
<1> QED BY <1>1, Alone, PTL

-----------------------------------------------------------------------------
(* A login name keeps its user. *)

Finite == IsFiniteSet(users)

LEMMA UsersGrow == TypeInv /\ [Next]_vars => users' = users \/ \E u : users' = users \cup {u}
BY DEF Next, Step, vars, Begin, EnsureUniqueUser, FindRole, CommitRole, CommitUser, Report, Die

LEMMA AlwaysFinite == Spec => []Finite
<1>1. Init => Finite
  BY FS_EmptySet DEF Init, Finite
<1>2. TypeInv /\ Finite /\ [Next]_vars => Finite'
  BY UsersGrow, FS_AddElement DEF Finite
<1> QED BY <1>1, <1>2, InitType, NextType, PTL DEF Spec

LEMMA ResolveOne == ASSUME NEW name, Finite
                    PROVE  /\ \A u : Matches(name) = {u} => Resolve(name) = u
                           /\ (\A u : Matches(name) # {u}) => Resolve(name) = Nobody
<1>1. IsFiniteSet(Matches(name))
  BY FS_Subset DEF Finite, Matches
<1>2. Cardinality(Matches(name)) = 1 <=> \E u : Matches(name) = {u}
  BY <1>1, FS_Singleton
<1>3. ASSUME NEW u, Matches(name) = {u} PROVE Resolve(name) = u
  <2>1. u \in users
    BY <1>3 DEF Matches
  <2>2. (CHOOSE v \in users : v \in Matches(name)) = u
    BY <1>3, <2>1
  <2> QED BY <1>2, <1>3, <2>2 DEF Resolve
<1>4. (\A u : Matches(name) # {u}) => Resolve(name) = Nobody
  BY <1>2 DEF Resolve
<1> QED BY <1>3, <1>4

(***************************************************************************)
(* A new account may make a login name ambiguous; it never takes it over.  *)
(* The table only grows, so the one match of a name is a match for ever.   *)
(***************************************************************************)
THEOREM LoginKeepsItsUser == Spec => LoginNotTakenOver
<1>1. ASSUME TypeInv, Finite, Finite', [Next]_vars, NEW name \in Names, Resolve(name) # Nobody
      PROVE  Resolve(name)' \in {Resolve(name), Nobody}
  <2>1. PICK u : Matches(name) = {u}
    BY <1>1, ResolveOne
  <2>2. Resolve(name) = u
    BY <1>1, <2>1, ResolveOne
  <2>3. u \in Matches(name)'
    BY <1>1, <2>1, UsersGrow DEF Matches
  <2>4. ASSUME NEW v, Matches(name)' = {v} PROVE Resolve(name)' = v
    <3>1. IsFiniteSet(Matches(name)')
      BY <1>1, FS_Subset DEF Finite, Matches
    <3>2. Cardinality(Matches(name)') = 1
      BY <2>4, <3>1, FS_Singleton
    <3>3. v \in users'
      BY <2>4 DEF Matches
    <3> QED BY <2>4, <3>2, <3>3 DEF Resolve
  <2>5. ASSUME \A v : Matches(name)' # {v} PROVE Resolve(name)' = Nobody
    <3>1. IsFiniteSet(Matches(name)')
      BY <1>1, FS_Subset DEF Finite, Matches
    <3>2. Cardinality(Matches(name)') # 1
      BY <2>5, <3>1, FS_Singleton
    <3> QED BY <3>2 DEF Resolve
  <2> QED BY <2>2, <2>3, <2>4, <2>5
<1>2. TypeInv /\ Finite /\ Finite' /\ [Next]_vars =>
        [\A name \in Names :
            Resolve(name) # Nobody => Resolve(name)' \in {Resolve(name), Nobody}]_vars
  BY <1>1
<1> QED BY <1>2, AlwaysFinite, InitType, NextType, PTL DEF Spec, LoginNotTakenOver
=============================================================================
