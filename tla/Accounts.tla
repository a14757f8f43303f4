------------------------------ MODULE Accounts ------------------------------
(***************************************************************************)
(* Registration and login: POST /auth/register checks the trade license    *)
(* and the e-mail address, then inserts a company and its administrator in *)
(* one transaction; unique constraints are what two registrations meet.    *)
(*                                                                         *)
(* get_db commits when the route handler has returned: before the answer   *)
(* is sent with FastAPI up to 0.117, after it from 0.118 on.  The project  *)
(* asks for fastapi>=0.115, so both are builds of it (commitsFirst).       *)
(*                                                                         *)
(* A company and a user are named by the request that registers them.  No  *)
(* code deactivates or deletes a user or a company.                        *)
(***************************************************************************)
EXTENDS Naturals

CONSTANTS
  Registrations,     \* POST /auth/register requests
  Licenses, Emails,  \* trade license numbers and e-mail addresses
  MaxFaults          \* bound on requests that die or fail to commit

ASSUME AccountsAssumption == MaxFaults \in Nat

AccountTypes == {"trading_company", "broker"}
Forms == [license : Licenses, email : Emails, account_type : AccountTypes]

VARIABLES
  commitsFirst,      \* whether the commit precedes the answer
  form,              \* per registration: its body
  rpc,               \* per registration: next step
  companies, users,  \* committed rows, by registration
  role,              \* users.role
  answer,            \* history: what each registration was answered
  tokens,            \* users that were issued tokens
  faults

accountVars == <<form, rpc, companies, users, role, answer, tokens>>

InitAccounts ==
  /\ commitsFirst \in BOOLEAN
  /\ form \in [Registrations -> Forms]
  /\ rpc = [h \in Registrations |-> "check license"]
  /\ companies = {} /\ users = {}
  /\ role = [h \in Registrations |-> "none"]
  /\ answer = [h \in Registrations |-> "none"]
  /\ tokens = {}
  /\ faults = 0

License(h) == form[h].license
Email(h) == form[h].email

\* Unique keys: rows committed, and rows that an open transaction has inserted.
LicenseTaken(h) == \E c \in companies : License(c) = License(h)
EmailTaken(h) == \E u \in users : Email(u) = Email(h)
LicenseLocked(h) ==
  \E g \in Registrations \ {h} :
    rpc[g] \in {"insert user", "commit"} /\ License(g) = License(h)
EmailLocked(h) ==
  \E g \in Registrations \ {h} : rpc[g] = "commit" /\ Email(g) = Email(h)

Goto(h, step) == rpc' = [rpc EXCEPT ![h] = step]

Answered(h, what) == answer' = [answer EXCEPT ![h] = IF @ = "none" THEN what ELSE @]

Refused(h, what) ==
  /\ Goto(h, "done")
  /\ Answered(h, what)
  /\ UNCHANGED <<companies, users, role, tokens>>

CheckLicense(h) ==
  /\ rpc[h] = "check license"
  /\ \/ LicenseTaken(h) /\ Refused(h, "conflict")
     \/ /\ ~LicenseTaken(h) /\ Goto(h, "check email")
        /\ UNCHANGED <<companies, users, role, answer, tokens>>

CheckEmail(h) ==
  /\ rpc[h] = "check email"
  /\ \/ EmailTaken(h) /\ Refused(h, "conflict")
     \/ /\ ~EmailTaken(h) /\ Goto(h, "insert company")
        /\ UNCHANGED <<companies, users, role, answer, tokens>>

\* The flush inserts the company, or meets the unique key: IntegrityError, a 500.
InsertCompany(h) ==
  /\ rpc[h] = "insert company" /\ ~LicenseLocked(h)
  /\ \/ LicenseTaken(h) /\ Refused(h, "error")
     \/ /\ ~LicenseTaken(h) /\ Goto(h, "insert user")
        /\ UNCHANGED <<companies, users, role, answer, tokens>>

AdminRole(account_type) == IF account_type = "broker" THEN "broker_admin" ELSE "company_admin"

InsertUser(h) ==
  /\ rpc[h] = "insert user" /\ ~EmailLocked(h)
  /\ \/ EmailTaken(h) /\ Refused(h, "error")
     \/ /\ ~EmailTaken(h) /\ Goto(h, "commit")
        /\ role' = [role EXCEPT ![h] = AdminRole(form[h].account_type)]
        /\ UNCHANGED <<companies, users, answer, tokens>>

\* Mutant: the commit always follows the answer.
AnswersAtCommit == "commit"

\* When the answer goes out.
AnswersAt == IF commitsFirst THEN "answer" ELSE "commit"

Answer(h) ==
  /\ rpc[h] = AnswersAt /\ answer[h] = "none"
  /\ Answered(h, "created")
  /\ tokens' = tokens \cup {h}
  /\ UNCHANGED <<rpc, companies, users, role>>

\* Mutant: the repositories commit on their own, the user's never.
RowsOfCompanyOnly(h) == companies' = companies \cup {h} /\ UNCHANGED users

RowsOf(h) == companies' = companies \cup {h} /\ users' = users \cup {h}

CommitAccount(h) ==
  /\ rpc[h] = "commit" /\ (commitsFirst \/ answer[h] # "none")
  /\ RowsOf(h)
  /\ Goto(h, "answer")
  /\ UNCHANGED <<role, answer, tokens>>

\* Anything raised, the commit included, rolls back; an answer may also be lost.
RegisterFails(h) ==
  /\ rpc[h] # "done" /\ faults < MaxFaults
  /\ faults' = faults + 1
  /\ Goto(h, "done")
  /\ Answered(h, "error")
  /\ role' = [role EXCEPT ![h] = IF h \in users THEN @ ELSE "none"]
  /\ UNCHANGED <<companies, users, tokens>>

\* POST /auth/login, and /auth/refresh for a token's own user: tokens for an active user.
LogIn(h) ==
  /\ h \in users
  /\ tokens' = tokens \cup {h}
  /\ UNCHANGED <<rpc, companies, users, role, answer>>

Register(h) ==
  \/ /\ \/ CheckLicense(h) \/ CheckEmail(h) \/ InsertCompany(h) \/ InsertUser(h)
        \/ CommitAccount(h) \/ Answer(h) \/ LogIn(h)
     /\ UNCHANGED faults
  \/ RegisterFails(h)

-----------------------------------------------------------------------------
AccountsTypeOK ==
  /\ form \in [Registrations -> Forms]
  /\ companies \cup users \cup tokens \subseteq Registrations
  /\ \A h \in Registrations :
       role[h] = "none" <=> rpc[h] # "commit" /\ h \notin users
  /\ answer \in [Registrations -> {"none", "created", "conflict", "error"}]

\* Every company has its administrator, with the role of its account type, and no two
\* share a license or an address, however the checks of two registrations interleave.
AccountsAreWhole ==
  /\ companies = users
  /\ \A h \in companies :
       /\ role[h] = AdminRole(form[h].account_type)
       /\ \A g \in companies \ {h} : License(g) # License(h) /\ Email(g) # Email(h)

\* An answer is true of the database: 201 and its tokens mean a committed account, or, where
\* the commit follows the answer, one whose commit is due or has failed; 409 means that the
\* license or the address is taken, and without a fault a 500 means the same.
AnswersAreTrue ==
  \A h \in Registrations :
    /\ answer[h] = "created" \/ h \in tokens =>
         \/ h \in users
         \/ ~commitsFirst /\ (rpc[h] = "commit" \/ (rpc[h] = "done" /\ faults > 0))
    /\ answer[h] = "conflict" \/ (answer[h] = "error" /\ faults = 0) =>
         h \notin users /\ (LicenseTaken(h) \/ EmailTaken(h))
=============================================================================
