------------------------------ MODULE Accounts ------------------------------
(***************************************************************************)
(* backend/scripts/create_admin.py: operators who run the script at the    *)
(* same time, against the tables users and roles.  A run looks for the     *)
(* account, looks for the role, commits the role when there is none,       *)
(* commits the user, and prints it; it may die between any two of these,   *)
(* and its operator repeats a command that failed.  Only the unique        *)
(* columns of the tables stand between two runs that both found nothing.   *)
(*                                                                         *)
(* Beside it, the lookup of a login (backend/auth/service.py), which takes *)
(* a username or an email.                                                 *)
(***************************************************************************)
EXTENDS Naturals, FiniteSets

CONSTANTS
    Runs,     \* operators, each with one command
    Names,    \* what may be given as a username or as an email
    Roles,    \* role names
    MaxKills, \* bound on the runs that die
    Nobody    \* the lookup finds no user, or raises

ASSUME AccountsAssumption ==
    MaxKills \in Nat /\ Nobody \notin [username : Names, email : Names, role : Roles]

VARIABLES
    users,    \* committed users
    roles,    \* committed roles
    command,  \* the arguments of each run
    stage,    \* the query or commit each run is at
    outcome,  \* how the run last ended
    kills     \* runs that have died

vars == <<users, roles, command, stage, outcome, kills>>

Users == [username : Names, email : Names, role : Roles]
Stages == {"idle", "check", "role", "create", "insert", "print"}
Outcomes == {"none", "created", "exists", "failed"}

TypeOK ==
    /\ users \in SUBSET [username : Names, email : Names, role : roles]
    /\ roles \in SUBSET Roles
    /\ command \in [Runs -> Users]
    /\ stage \in [Runs -> Stages]
    /\ outcome \in [Runs -> Outcomes]
    /\ kills \in 0..MaxKills

Init ==
    /\ users = {} /\ roles = {}
    /\ command \in [Runs -> Users]
    /\ stage = [r \in Runs |-> "idle"]
    /\ outcome = [r \in Runs |-> "none"]
    /\ kills = 0

Goto(r, next) ==
    /\ stage' = [stage EXCEPT ![r] = next]
    /\ UNCHANGED <<outcome, command, kills>>

Exit(r, how) ==
    /\ stage' = [stage EXCEPT ![r] = "idle"]
    /\ outcome' = [outcome EXCEPT ![r] = how]
    /\ UNCHANGED <<command, kills>>

Alike(u, v) == u.username = v.username \/ u.email = v.email

-----------------------------------------------------------------------------
(* create_admin *)

Begin(r) ==
    /\ stage[r] = "idle"
    /\ outcome[r] \in {"none", "failed"}
    /\ Goto(r, "check")
    /\ UNCHANGED <<users, roles>>

(* scalar_one_or_none raises when the username is one user's and the email *)
(* another's; with one match the script exits, with none it goes on.       *)
EnsureUniqueUser(r) ==
    LET found == {u \in users : Alike(u, command[r])}
    IN  /\ stage[r] = "check"
        /\ \/ found = {} /\ Goto(r, "role")
           \/ Cardinality(found) = 1 /\ Exit(r, "exists")
           \/ Cardinality(found) > 1 /\ Exit(r, "failed")
        /\ UNCHANGED <<users, roles>>

(* Seeded bug: the role is created without looking for it. *)
RoleMissingAlways(r) == TRUE

(* Seeded bug: a role that is not there is not created. *)
RoleMissingNever(r) == FALSE

RoleMissing(r) == command[r].role \notin roles

FindRole(r) ==
    /\ stage[r] = "role"
    /\ \/ RoleMissing(r) /\ Goto(r, "create")
       \/ ~RoleMissing(r) /\ Goto(r, "insert")
    /\ UNCHANGED <<users, roles>>

(* The column roles.name is unique. *)
CommitRole(r) ==
    /\ stage[r] = "create"
    /\ \/ /\ command[r].role \notin roles
          /\ roles' = roles \cup {command[r].role}
          /\ Goto(r, "insert")
       \/ /\ command[r].role \in roles
          /\ Exit(r, "failed")
          /\ UNCHANGED roles
    /\ UNCHANGED users

(* Seeded bug: the column users.email is not unique. *)
TakenName(r) == \E u \in users : u.username = command[r].username

(* The columns users.username and users.email are unique. *)
Taken(r) == \E u \in users : Alike(u, command[r])

CommitUser(r) ==
    /\ stage[r] = "insert"
    /\ \/ /\ ~Taken(r)
          /\ users' = users \cup {command[r]}
          /\ Goto(r, "print")
       \/ /\ Taken(r)
          /\ Exit(r, "failed")
          /\ UNCHANGED users
    /\ UNCHANGED roles

(* Only now does the operator learn a generated password. *)
Report(r) ==
    /\ stage[r] = "print"
    /\ Exit(r, "created")
    /\ UNCHANGED <<users, roles>>

(* The run is interrupted or loses the database. *)
Die(r) ==
    /\ stage[r] # "idle"
    /\ kills < MaxKills
    /\ kills' = kills + 1
    /\ stage' = [stage EXCEPT ![r] = "idle"]
    /\ outcome' = [outcome EXCEPT ![r] = "failed"]
    /\ UNCHANGED <<users, roles, command>>

Step(r) ==
    \/ Begin(r) \/ EnsureUniqueUser(r) \/ FindRole(r)
    \/ CommitRole(r) \/ CommitUser(r) \/ Report(r)

Next == \E r \in Runs : Step(r) \/ Die(r)

(* Operators repeat what failed, and runs run to an end. *)
Fairness == \A r \in Runs : WF_vars(Step(r))

Spec == Init /\ [][Next]_vars
FairSpec == Spec /\ Fairness

-----------------------------------------------------------------------------
(* authenticate_user *)

Matches(name) == {u \in users : u.username = name \/ u.email = name}

(* Seeded bug: the lookup takes the first match, usernames first. *)
ResolveFirst(name) ==
    IF \E u \in users : u.username = name
    THEN CHOOSE u \in users : u.username = name
    ELSE IF Matches(name) # {} THEN CHOOSE u \in Matches(name) : TRUE ELSE Nobody

(* The user a login with this name is for; several matches raise. *)
Resolve(name) ==
    IF Cardinality(Matches(name)) = 1 THEN CHOOSE u \in users : u \in Matches(name) ELSE Nobody

-----------------------------------------------------------------------------
(* Properties. *)

(***************************************************************************)
(* Of the runs that were told "User created", no two share a username or   *)
(* an email, though all of them may have found nothing when they looked.   *)
(***************************************************************************)
OneWinner == \A r, q \in Runs :
    r # q /\ outcome[r] = "created" /\ outcome[q] = "created"
        => ~Alike(command[r], command[q])

(***************************************************************************)
(* Two users answer to one login name only when it is the username of one  *)
(* and the email of the other, which neither the script's check nor a      *)
(* unique column looks at.                                                 *)
(***************************************************************************)
AmbiguousOnlyAcross == \A name \in Names : \A u, v \in Matches(name) :
    u # v => (u.username = name <=> v.email = name)

(***************************************************************************)
(* A login name that leads to a user never leads to another one later:     *)
(* a new account may make the name ambiguous, and does not take it over.   *)
(***************************************************************************)
LoginNotTakenOver == [][\A name \in Names :
    Resolve(name) # Nobody => Resolve(name)' \in {Resolve(name), Nobody}]_vars

(***************************************************************************)
(* A command that is repeated when it fails ends in an account of that     *)
(* username or email, its own or an earlier one: a role left behind by a   *)
(* run that died, or created by another, is no obstacle.                   *)
(***************************************************************************)
CommandTakesHold == \A r \in Runs :
    stage[r] = "check" ~> \E u \in users : Alike(u, command[r])
=============================================================================
