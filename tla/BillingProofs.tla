--------------------------- MODULE BillingProofs ---------------------------
(***************************************************************************)
(* Theorems about Billing and the Accounts it builds on, for any sets of   *)
(* registrations, licenses, addresses, plans and webhooks and any bounds.  *)
(***************************************************************************)
EXTENDS Billing, TLAPS

Steps == {"check license", "check email", "insert company", "insert user", "commit", "answer", "done"}
Before == {"check license", "check email", "insert company", "insert user"}

\* The committed rows belong to the registrations that have got that far.
AccountsType ==
  /\ faults \in Nat
  /\ rpc \in [Registrations -> Steps]
  /\ role \in [Registrations -> {"none", "broker_admin", "company_admin"}]
  /\ answer \in [Registrations -> {"none", "created", "conflict", "error"}]
  /\ users \subseteq Registrations /\ companies = users

Stages ==
  \A h \in Registrations :
    /\ h \in users => rpc[h] \in {"answer", "done"}
    /\ rpc[h] = "answer" => h \in users
    /\ h \in users \/ rpc[h] = "commit" => role[h] = AdminRole(form[h].account_type)

\* Between its INSERT and its end a transaction is the only one with its license, or its
\* address, and nothing committed has it.
Holds ==
  \A h \in Registrations :
    /\ rpc[h] \in {"insert user", "commit"} => ~LicenseTaken(h) /\ ~LicenseLocked(h)
    /\ rpc[h] = "commit" => ~EmailTaken(h) /\ ~EmailLocked(h)

Unique == \A g, h \in users : g # h => License(g) # License(h) /\ Email(g) # Email(h)

Answers ==
  \A h \in Registrations :
    /\ rpc[h] \in Before => answer[h] = "none"
    /\ rpc[h] = "commit" => answer[h] \notin {"conflict", "error"}
    /\ answer[h] = "created" \/ h \in tokens =>
         \/ h \in users
         \/ ~commitsFirst /\ (rpc[h] = "commit" \/ (rpc[h] = "done" /\ faults > 0))
    /\ answer[h] = "conflict" \/ (answer[h] = "error" /\ faults = 0) =>
         rpc[h] = "done" /\ h \notin users /\ (LicenseTaken(h) \/ EmailTaken(h))

AccountsInv == AccountsType /\ Stages /\ Holds /\ Unique /\ Answers

LEMMA InitAccountsInv == Init => AccountsInv
<1>1. SUFFICES ASSUME InitAccounts PROVE AccountsInv BY DEF Init
<1>2. AccountsType BY <1>1 DEF InitAccounts, AccountsType, Steps
<1>3. Stages BY <1>1 DEF InitAccounts, Stages
<1>4. Holds BY <1>1 DEF InitAccounts, Holds
<1>5. Unique BY <1>1 DEF InitAccounts, Unique
<1>6. Answers BY <1>1 DEF InitAccounts, Answers
<1> QED BY <1>2, <1>3, <1>4, <1>5, <1>6 DEF AccountsInv

\* Forms never change, and rows only with a commit.
LEMMA SameForms ==
  ASSUME UNCHANGED form
  PROVE \A h : License(h)' = License(h) /\ Email(h)' = Email(h)
BY DEF License, Email

LEMMA SameTaken ==
  ASSUME UNCHANGED <<form, companies, users>>
  PROVE \A h : (LicenseTaken(h)' <=> LicenseTaken(h)) /\ (EmailTaken(h)' <=> EmailTaken(h))
BY SameForms DEF LicenseTaken, EmailTaken

LEMMA SameUnique ==
  ASSUME UNCHANGED form, UNCHANGED users, Unique
  PROVE Unique'
<1>1. ASSUME NEW g \in users, NEW h \in users, g # h
      PROVE License(g)' # License(h)' /\ Email(g)' # Email(h)'
  BY <1>1, SameForms DEF Unique
<1> QED BY <1>1 DEF Unique

\* A registration that moves on without inserting a row takes no lock.
LEMMA MovesOn ==
  ASSUME AccountsInv, NEW h \in Registrations, NEW s \in Steps, UNCHANGED <<form, companies, users>>,
         Goto(h, s), s \notin {"insert user", "commit"}
  PROVE Holds'
<1>1. rpc' = [rpc EXCEPT ![h] = s] /\ rpc \in [Registrations -> Steps]
  BY DEF AccountsInv, AccountsType, Goto
<1>2. SUFFICES ASSUME NEW g \in Registrations, rpc'[g] \in {"insert user", "commit"}
      PROVE /\ ~LicenseTaken(g)' /\ ~LicenseLocked(g)'
            /\ rpc'[g] = "commit" => ~EmailTaken(g)' /\ ~EmailLocked(g)'
  BY DEF Holds
<1>3. g # h /\ rpc'[g] = rpc[g] BY <1>1, <1>2
<1>4. /\ ~LicenseTaken(g) /\ ~LicenseLocked(g)
      /\ rpc[g] = "commit" => ~EmailTaken(g) /\ ~EmailLocked(g)
  BY <1>2, <1>3 DEF AccountsInv, Holds
<1>5. ~LicenseTaken(g)' /\ (rpc'[g] = "commit" => ~EmailTaken(g)')
  BY <1>3, <1>4, SameTaken
<1>6. ~LicenseLocked(g)' BY <1>1, <1>4, SameForms DEF LicenseLocked
<1>7. rpc'[g] = "commit" => ~EmailLocked(g)' BY <1>1, <1>3, <1>4, SameForms DEF EmailLocked
<1> QED BY <1>5, <1>6, <1>7

LEMMA RefusedInv ==
  ASSUME AccountsInv, NEW h \in Registrations, UNCHANGED <<faults, commitsFirst, form>>,
         NEW what \in {"conflict", "error"}, Refused(h, what), rpc[h] \in Before,
         LicenseTaken(h) \/ EmailTaken(h)
  PROVE AccountsInv'
<1>1. AccountsType' BY DEF AccountsInv, AccountsType, Refused, Goto, Answered, Steps
<1>2. Stages' BY DEF AccountsInv, AccountsType, Stages, Before, Refused, Goto
<1>3. Holds' BY MovesOn DEF Refused, Steps
<1>4. Unique' BY SameForms DEF AccountsInv, Unique, Refused
<1>5. Answers'
  BY SameTaken DEF AccountsInv, AccountsType, Stages, Answers, Before, Refused, Goto, Answered
<1> QED BY <1>1, <1>2, <1>3, <1>4, <1>5 DEF AccountsInv

LEMMA PassedInv ==
  ASSUME AccountsInv, NEW h \in Registrations, UNCHANGED <<faults, commitsFirst, form>>,
         NEW s \in {"check email", "insert company"}, Goto(h, s), rpc[h] \in Before,
         UNCHANGED <<companies, users, role, answer, tokens>>
  PROVE AccountsInv'
<1>1. AccountsType' BY DEF AccountsInv, AccountsType, Goto, Steps
<1>2. Stages' BY DEF AccountsInv, AccountsType, Stages, Before, Goto
<1>3. Holds' BY MovesOn DEF Steps
<1>4. Unique' BY SameUnique DEF AccountsInv
<1>5. Answers' BY SameTaken DEF AccountsInv, AccountsType, Answers, Before, Goto
<1> QED BY <1>1, <1>2, <1>3, <1>4, <1>5 DEF AccountsInv

LEMMA CheckLicenseInv ==
  ASSUME AccountsInv, NEW h \in Registrations, CheckLicense(h), UNCHANGED <<faults, commitsFirst, form>>
  PROVE AccountsInv'
<1>1. CASE LicenseTaken(h) BY <1>1, RefusedInv DEF CheckLicense, Before
<1>2. CASE ~LicenseTaken(h) BY <1>2, PassedInv DEF CheckLicense, Before
<1> QED BY <1>1, <1>2

LEMMA CheckEmailInv ==
  ASSUME AccountsInv, NEW h \in Registrations, CheckEmail(h), UNCHANGED <<faults, commitsFirst, form>>
  PROVE AccountsInv'
<1>1. CASE EmailTaken(h) BY <1>1, RefusedInv DEF CheckEmail, Before
<1>2. CASE ~EmailTaken(h) BY <1>2, PassedInv DEF CheckEmail, Before
<1> QED BY <1>1, <1>2

LEMMA InsertCompanyInv ==
  ASSUME AccountsInv, NEW h \in Registrations, InsertCompany(h), UNCHANGED <<faults, commitsFirst, form>>
  PROVE AccountsInv'
<1>1. CASE LicenseTaken(h) BY <1>1, RefusedInv DEF InsertCompany, Before
<1>2. CASE ~LicenseTaken(h)
  <2>1. /\ Goto(h, "insert user") /\ rpc[h] = "insert company" /\ ~LicenseLocked(h)
        /\ users' = users /\ companies' = companies /\ form' = form
        /\ role' = role /\ answer' = answer /\ tokens' = tokens
    BY <1>2 DEF InsertCompany, Refused
  <2>2. AccountsType' BY <2>1 DEF AccountsInv, AccountsType, Goto, Steps
  <2>3. Stages' BY <2>1 DEF AccountsInv, AccountsType, Stages, Goto
  <2>4. Holds'
    <3>1. rpc' = [rpc EXCEPT ![h] = "insert user"] /\ rpc \in [Registrations -> Steps]
      BY <2>1 DEF AccountsInv, AccountsType, Goto
    <3>2. ASSUME NEW g \in Registrations, rpc'[g] \in {"insert user", "commit"}
          PROVE ~LicenseTaken(g)' /\ ~LicenseLocked(g)'
      <4>1. ~LicenseTaken(g)'
        BY <1>2, <2>1, <3>1, <3>2, SameTaken DEF AccountsInv, Holds
      <4>2. ASSUME NEW f \in Registrations \ {g}, rpc'[f] \in {"insert user", "commit"},
                   License(f)' = License(g)'
            PROVE FALSE
        <5>1. License(f) = License(g) BY <2>1, <4>2, SameForms
        <5>2. CASE g = h BY <2>1, <3>1, <4>2, <5>1, <5>2 DEF LicenseLocked
        <5>3. CASE f = h BY <2>1, <3>1, <3>2, <4>2, <5>1, <5>3 DEF LicenseLocked
        <5>4. CASE g # h /\ f # h
          BY <3>1, <3>2, <4>2, <5>1, <5>4 DEF AccountsInv, Holds, LicenseLocked
        <5> QED BY <5>2, <5>3, <5>4
      <4> QED BY <4>1, <4>2 DEF LicenseLocked
    <3>3. ASSUME NEW g \in Registrations, rpc'[g] = "commit"
          PROVE ~EmailTaken(g)' /\ ~EmailLocked(g)'
      <4>1. g # h /\ rpc[g] = "commit" BY <3>1, <3>3
      <4>2. ~EmailTaken(g)' BY <2>1, <4>1, SameTaken DEF AccountsInv, Holds
      <4>3. ~EmailLocked(g)' BY <2>1, <3>1, <4>1, SameForms DEF AccountsInv, Holds, EmailLocked
      <4> QED BY <4>2, <4>3
    <3> QED BY <3>2, <3>3 DEF Holds
  <2>5. Unique' BY <2>1, SameUnique DEF AccountsInv
  <2>6. Answers' BY <2>1, SameTaken DEF AccountsInv, AccountsType, Answers, Before, Goto
  <2> QED BY <2>2, <2>3, <2>4, <2>5, <2>6 DEF AccountsInv
<1> QED BY <1>1, <1>2

LEMMA InsertUserInv ==
  ASSUME AccountsInv, NEW h \in Registrations, InsertUser(h), UNCHANGED <<faults, commitsFirst, form>>
  PROVE AccountsInv'
<1>1. CASE EmailTaken(h) BY <1>1, RefusedInv DEF InsertUser, Before
<1>2. CASE ~EmailTaken(h)
  <2>1. /\ Goto(h, "commit") /\ rpc[h] = "insert user" /\ ~EmailLocked(h)
        /\ users' = users /\ companies' = companies /\ form' = form
        /\ role' = [role EXCEPT ![h] = AdminRole(form[h].account_type)]
        /\ answer' = answer /\ tokens' = tokens
    BY <1>2 DEF InsertUser, Refused
  <2>2. AccountsType' BY <2>1 DEF AccountsInv, AccountsType, Goto, Steps, AdminRole
  <2>3. Stages' BY <2>1 DEF AccountsInv, AccountsType, Stages, Goto
  <2>4. Holds'
    <3>1. rpc' = [rpc EXCEPT ![h] = "commit"] /\ rpc \in [Registrations -> Steps]
      BY <2>1 DEF AccountsInv, AccountsType, Goto
    <3>2. ASSUME NEW g \in Registrations, rpc'[g] \in {"insert user", "commit"}
          PROVE ~LicenseTaken(g)' /\ ~LicenseLocked(g)'
      <4>1. rpc[g] \in {"insert user", "commit"} BY <2>1, <3>1, <3>2
      <4>2. ~LicenseTaken(g) /\ ~LicenseLocked(g) BY <4>1 DEF AccountsInv, Holds
      <4>3. ~LicenseTaken(g)' BY <2>1, <4>2, SameTaken
      <4>4. ~LicenseLocked(g)' BY <2>1, <3>1, <4>2, SameForms DEF LicenseLocked
      <4> QED BY <4>3, <4>4
    <3>3. ASSUME NEW g \in Registrations, rpc'[g] = "commit"
          PROVE ~EmailTaken(g)' /\ ~EmailLocked(g)'
      <4>1. ~EmailTaken(g)'
        BY <1>2, <2>1, <3>1, <3>3, SameTaken DEF AccountsInv, Holds
      <4>2. ASSUME NEW f \in Registrations \ {g}, rpc'[f] = "commit", Email(f)' = Email(g)'
            PROVE FALSE
        <5>1. Email(f) = Email(g) BY <2>1, <4>2, SameForms
        <5>2. CASE g = h BY <2>1, <3>1, <4>2, <5>1, <5>2 DEF EmailLocked
        <5>3. CASE f = h BY <2>1, <3>1, <3>3, <4>2, <5>1, <5>3 DEF EmailLocked
        <5>4. CASE g # h /\ f # h
          BY <3>1, <3>3, <4>2, <5>1, <5>4 DEF AccountsInv, Holds, EmailLocked
        <5> QED BY <5>2, <5>3, <5>4
      <4> QED BY <4>1, <4>2 DEF EmailLocked
    <3> QED BY <3>2, <3>3 DEF Holds
  <2>5. Unique' BY <2>1, SameUnique DEF AccountsInv
  <2>6. Answers' BY <2>1, SameTaken DEF AccountsInv, AccountsType, Answers, Before, Goto
  <2> QED BY <2>2, <2>3, <2>4, <2>5, <2>6 DEF AccountsInv
<1> QED BY <1>1, <1>2
LEMMA CommitAccountInv ==
  ASSUME AccountsInv, NEW h \in Registrations, CommitAccount(h), UNCHANGED <<faults, commitsFirst, form>>
  PROVE AccountsInv'
<1>1. /\ rpc' = [rpc EXCEPT ![h] = "answer"] /\ rpc \in [Registrations -> Steps]
      /\ rpc[h] = "commit" /\ users' = users \cup {h} /\ companies' = companies \cup {h}
      /\ companies = users /\ role' = role /\ answer' = answer /\ tokens' = tokens
      /\ users \subseteq Registrations
  BY DEF CommitAccount, RowsOf, Goto, AccountsInv, AccountsType
<1>2. AccountsType' BY <1>1 DEF AccountsInv, AccountsType, Steps
<1>3. Stages' BY <1>1 DEF AccountsInv, Stages
<1>4. ~LicenseTaken(h) /\ ~LicenseLocked(h) /\ ~EmailTaken(h) /\ ~EmailLocked(h)
  BY <1>1 DEF AccountsInv, Holds
<1>5. Holds'
  <2>1. ASSUME NEW g \in Registrations, rpc'[g] \in {"insert user", "commit"}
        PROVE ~LicenseTaken(g)' /\ ~LicenseLocked(g)'
    <3>1. g # h /\ rpc[g] = rpc'[g] BY <1>1, <2>1
    <3>2. ~LicenseTaken(g) /\ ~LicenseLocked(g) BY <2>1, <3>1 DEF AccountsInv, Holds
    <3>3. License(h) # License(g) BY <1>1, <3>1, <3>2 DEF LicenseLocked
    <3>4. ~LicenseTaken(g)' BY <1>1, <3>2, <3>3, SameForms DEF LicenseTaken
    <3>5. ~LicenseLocked(g)' BY <1>1, <3>2, SameForms DEF LicenseLocked
    <3> QED BY <3>4, <3>5
  <2>2. ASSUME NEW g \in Registrations, rpc'[g] = "commit"
        PROVE ~EmailTaken(g)' /\ ~EmailLocked(g)'
    <3>1. g # h /\ rpc[g] = rpc'[g] BY <1>1, <2>2
    <3>2. ~EmailTaken(g) /\ ~EmailLocked(g) BY <2>2, <3>1 DEF AccountsInv, Holds
    <3>3. Email(h) # Email(g) BY <1>1, <3>1, <3>2 DEF EmailLocked
    <3>4. ~EmailTaken(g)' BY <1>1, <3>2, <3>3, SameForms DEF EmailTaken
    <3>5. ~EmailLocked(g)' BY <1>1, <3>2, SameForms DEF EmailLocked
    <3> QED BY <3>4, <3>5
  <2> QED BY <2>1, <2>2 DEF Holds
<1>6. Unique'
  <2>1. ASSUME NEW f \in users', NEW g \in users', f # g
        PROVE License(f)' # License(g)' /\ Email(f)' # Email(g)'
    <3>1. License(f) # License(g) /\ Email(f) # Email(g)
      BY <1>1, <1>4, <2>1 DEF AccountsInv, Unique, LicenseTaken, EmailTaken
    <3> QED BY <3>1, SameForms
  <2> QED BY <2>1 DEF Unique
<1>7. Answers'
  <2>1. \A g : (LicenseTaken(g) => LicenseTaken(g)') /\ (EmailTaken(g) => EmailTaken(g)')
    BY <1>1, SameForms DEF LicenseTaken, EmailTaken
  <2> QED BY <1>1, <2>1 DEF AccountsInv, Answers, Before
<1> QED BY <1>2, <1>3, <1>5, <1>6, <1>7 DEF AccountsInv

LEMMA AnswerInv ==
  ASSUME AccountsInv, NEW h \in Registrations, Answer(h), UNCHANGED <<faults, commitsFirst, form>>
  PROVE AccountsInv'
<1>1. /\ answer' = [answer EXCEPT ![h] = "created"] /\ tokens' = tokens \cup {h}
      /\ rpc' = rpc /\ users' = users /\ companies' = companies /\ role' = role
      /\ rpc[h] = AnswersAt
  BY DEF Answer, Answered
<1>2. AccountsType' BY <1>1 DEF AccountsInv, AccountsType
<1>3. Stages' BY <1>1 DEF AccountsInv, Stages
<1>4. Holds' BY <1>1, SameTaken, SameForms DEF AccountsInv, Holds, LicenseLocked, EmailLocked
<1>5. Unique' BY <1>1, SameUnique DEF AccountsInv
<1>6. Answers'
  BY <1>1, SameTaken DEF AccountsInv, AccountsType, Stages, Answers, AnswersAt, Before
<1> QED BY <1>2, <1>3, <1>4, <1>5, <1>6 DEF AccountsInv

LEMMA LogInInv ==
  ASSUME AccountsInv, NEW h \in Registrations, LogIn(h), UNCHANGED <<faults, commitsFirst, form>>
  PROVE AccountsInv'
<1>1. /\ h \in users /\ tokens' = tokens \cup {h}
      /\ rpc' = rpc /\ users' = users /\ companies' = companies /\ role' = role /\ answer' = answer
  BY DEF LogIn
<1>2. AccountsType' BY <1>1 DEF AccountsInv, AccountsType
<1>3. Stages' BY <1>1 DEF AccountsInv, Stages
<1>4. Holds' BY <1>1, SameTaken, SameForms DEF AccountsInv, Holds, LicenseLocked, EmailLocked
<1>5. Unique' BY <1>1, SameUnique DEF AccountsInv
<1>6. Answers' BY <1>1, SameTaken DEF AccountsInv, Answers
<1> QED BY <1>2, <1>3, <1>4, <1>5, <1>6 DEF AccountsInv

LEMMA RegisterFailsInv ==
  ASSUME AccountsInv, NEW h \in Registrations, RegisterFails(h), UNCHANGED <<commitsFirst, form>>
  PROVE AccountsInv'
<1>1. /\ rpc' = [rpc EXCEPT ![h] = "done"] /\ users' = users /\ companies' = companies
      /\ answer' = [answer EXCEPT ![h] = IF @ = "none" THEN "error" ELSE @]
      /\ role' = [role EXCEPT ![h] = IF h \in users THEN @ ELSE "none"] /\ tokens' = tokens
      /\ rpc[h] # "done"
  BY DEF RegisterFails, Goto, Answered
<1>2. faults' \in Nat /\ faults' # 0 BY DEF RegisterFails, AccountsInv, AccountsType
<1>3. AccountsType' BY <1>1, <1>2 DEF AccountsInv, AccountsType, Steps
<1>4. Stages' BY <1>1 DEF AccountsInv, AccountsType, Stages
<1>5. Holds' BY <1>1, MovesOn DEF RegisterFails, Steps
<1>6. Unique' BY <1>1, SameUnique DEF AccountsInv
<1>7. Answers'
  <2>1. SUFFICES ASSUME NEW g \in Registrations
        PROVE /\ rpc'[g] \in Before => answer'[g] = "none"
              /\ rpc'[g] = "commit" => answer'[g] \notin {"conflict", "error"}
              /\ answer'[g] = "created" \/ g \in tokens' =>
                   \/ g \in users'
                   \/ ~commitsFirst' /\ (rpc'[g] = "commit" \/ (rpc'[g] = "done" /\ faults' > 0))
              /\ answer'[g] = "conflict" \/ (answer'[g] = "error" /\ faults' = 0) =>
                   rpc'[g] = "done" /\ g \notin users' /\ (LicenseTaken(g)' \/ EmailTaken(g)')
    BY DEF Answers
  <2>2. rpc \in [Registrations -> Steps] /\ answer \in [Registrations -> {"none", "created", "conflict", "error"}]
    BY DEF AccountsInv, AccountsType
  <2>3. (commitsFirst' <=> commitsFirst) /\ faults' > 0 BY <1>2
  <2>4. CASE g = h
    <3>1. rpc'[g] = "done" /\ (answer'[g] = "created" \/ g \in tokens' => answer[h] = "created" \/ h \in tokens)
      BY <1>1, <2>2, <2>4
    <3>2. answer'[g] = "conflict" => answer[h] = "conflict" BY <1>1, <2>2, <2>4
    <3>3. answer[h] # "conflict" BY <1>1 DEF AccountsInv, Answers
    <3> QED BY <1>1, <1>2, <2>3, <2>4, <3>1, <3>2, <3>3 DEF AccountsInv, Answers, Before
  <2>5. CASE g # h
    <3>1. rpc'[g] = rpc[g] /\ answer'[g] = answer[g] /\ (g \in tokens' <=> g \in tokens)
      BY <1>1, <2>2, <2>5
    <3> QED BY <1>1, <1>2, <2>3, <3>1, SameTaken DEF AccountsInv, Answers
  <2> QED BY <2>4, <2>5
<1> QED BY <1>3, <1>4, <1>5, <1>6, <1>7 DEF AccountsInv

-----------------------------------------------------------------------------
(* Webhooks.                                                               *)

Event == [company : Registrations, plan : Plans \cup {Unknown}, status : Statuses]
Row == [plan : Plans \cup {Unknown}, quota : Plans \cup {"none"}, status : Statuses, period : Nat]

BillingType ==
  /\ events \in Seq(Event)
  /\ acknowledged \subseteq 1..Len(events)
  /\ DOMAIN subscriptions = Registrations
  /\ subscriptions = [c \in Registrations |-> subscriptions[c]]
  /\ \A c \in Registrations : subscriptions[c] # None => subscriptions[c] \in Row
  /\ wpc \in [Deliveries -> {"idle", "upsert", "answered"}]
  /\ event \in [Deliveries -> Nat]
  /\ existing = [d \in Deliveries |-> existing[d]]
  /\ \A d \in Deliveries : wpc[d] # "idle" => event[d] \in 1..Len(events)
  /\ outdated \subseteq Deliveries /\ mixed \subseteq Registrations

\* What a webhook has read is the row, unless another has committed to it; and a row stays.
FreshReads ==
  \A d \in Deliveries : wpc[d] # "idle" =>
    /\ d \notin outdated => existing[d] = subscriptions[events[event[d]].company]
    /\ existing[d] # None => subscriptions[events[event[d]].company] # None

\* A webhook that has the provider to itself meets no other.
MeetsNoOther ==
  OneAtATime =>
    /\ outdated = {}
    /\ \A d \in Deliveries :
         /\ wpc[d] # "answered"
         /\ wpc[d] = "upsert" => \A e \in Deliveries \ {d} : wpc[e] = "idle"

\* What is delivered is newer than all that was answered.
DeliversNewer ==
  InOrder =>
    /\ \A n \in acknowledged : 1..n \subseteq acknowledged
    /\ \A d \in Deliveries : wpc[d] = "upsert" =>
         /\ \A n \in acknowledged : n < event[d]
         /\ 1..(event[d] - 1) \subseteq acknowledged

BillingInv ==
  /\ BillingType /\ FreshReads /\ MeetsNoOther /\ DeliversNewer
  /\ RowIsOneEvent /\ SubscriptionFollowsWebhooks

webhookVars ==
  <<delivery, commitsFirst, events, acknowledged, subscriptions, wpc, event, existing, outdated, mixed>>

LEMMA InitBillingInv == Init => BillingInv
<1>1. SUFFICES ASSUME InitBilling PROVE BillingInv BY DEF Init
<1>2. BillingType
  <2>1. events = <<>> /\ Len(events) = 0 /\ acknowledged = {} BY <1>1 DEF InitBilling
  <2>2. events \in Seq(Event) BY <2>1
  <2>3. /\ DOMAIN subscriptions = Registrations
        /\ subscriptions = [c \in Registrations |-> subscriptions[c]]
        /\ \A c \in Registrations : subscriptions[c] = None
        /\ existing = [d \in Deliveries |-> existing[d]]
        /\ outdated = {} /\ mixed = {}
    BY <1>1 DEF InitBilling
  <2>4. /\ wpc \in [Deliveries -> {"idle", "upsert", "answered"}]
        /\ event \in [Deliveries -> Nat] /\ \A d \in Deliveries : wpc[d] = "idle"
    BY <1>1 DEF InitBilling
  <2> QED BY <2>1, <2>2, <2>3, <2>4 DEF BillingType
<1>3. FreshReads /\ MeetsNoOther BY <1>1 DEF InitBilling, FreshReads, MeetsNoOther
<1>4. DeliversNewer BY <1>1 DEF InitBilling, DeliversNewer
<1>5. RowIsOneEvent BY <1>1 DEF InitBilling, RowIsOneEvent
<1>6. SubscriptionFollowsWebhooks BY <1>1 DEF InitBilling, SubscriptionFollowsWebhooks
<1> QED BY <1>2, <1>3, <1>4, <1>5, <1>6 DEF BillingInv

LEMMA SameMode ==
  ASSUME UNCHANGED <<delivery, commitsFirst>>
  PROVE (OneAtATime' <=> OneAtATime) /\ (InOrder' <=> InOrder) /\ (InOrder => OneAtATime)
<1>1. delivery' = delivery /\ (commitsFirst' <=> commitsFirst) OBVIOUS
<1> QED BY <1>1 DEF OneAtATime, InOrder

LEMMA SameWebhooks ==
  ASSUME BillingInv, UNCHANGED webhookVars
  PROVE BillingInv'
<1>1. UNCHANGED <<delivery, commitsFirst>> BY DEF webhookVars
<1>2. BillingType' BY DEF BillingInv, webhookVars, BillingType
<1>3. FreshReads' /\ MeetsNoOther' /\ DeliversNewer'
  BY <1>1, SameMode DEF BillingInv, webhookVars, FreshReads, MeetsNoOther, DeliversNewer
<1>4. RowIsOneEvent' BY <1>1, SameMode DEF BillingInv, webhookVars, RowIsOneEvent, EventsOf, Columns
<1>5. SubscriptionFollowsWebhooks'
  BY <1>1, SameMode DEF BillingInv, webhookVars, SubscriptionFollowsWebhooks, EventsOf, Columns
<1> QED BY <1>2, <1>3, <1>4, <1>5 DEF BillingInv

LEMMA EventTyped ==
  ASSUME BillingType
  PROVE /\ DOMAIN events = 1..Len(events) /\ Len(events) \in Nat /\ acknowledged \subseteq Nat
        /\ \A m \in 1..Len(events) : events[m] \in Event /\ events[m].company \in Registrations
<1>1. events \in Seq(Event) /\ acknowledged \subseteq 1..Len(events) BY DEF BillingType
<1>2. \A e \in Event : e.company \in Registrations BY DEF Event
<1>3. DOMAIN events = 1..Len(events) /\ Len(events) \in Nat BY <1>1
<1>4. \A m \in 1..Len(events) : events[m] \in Event BY <1>1
<1> QED BY <1>1, <1>2, <1>3, <1>4

LEMMA ColumnsTyped ==
  ASSUME BillingType, NEW n \in 1..Len(events)
  PROVE Columns(n) \in Row
<1>1. events[n] \in Event /\ n \in Nat BY EventTyped
<1>2. events[n].plan \in Plans \cup {Unknown} /\ events[n].status \in Statuses BY <1>1 DEF Event
<1>3. Quota(events[n].plan) \in Plans \cup {"none"} BY DEF Quota
<1> QED BY <1>1, <1>2, <1>3 DEF Columns, Row

\* An UPDATE over the row that was read writes the event; over another, a row all the same.
LEMMA UpdatedAsRead ==
  ASSUME NEW row, NEW n
  PROVE UpdatedRow(row, row, Columns(n)) = Columns(n)
BY DEF UpdatedRow, Columns

LEMMA UpdatedTyped ==
  ASSUME NEW row \in Row, NEW old, NEW new \in Row
  PROVE /\ UpdatedRow(row, old, new) \in Row
        /\ \A f \in DOMAIN UpdatedRow(row, old, new) :
             f \in DOMAIN row /\ UpdatedRow(row, old, new)[f] \in {row[f], new[f]}
<1> DEFINE u == UpdatedRow(row, old, new)
           F == {"plan", "quota", "status", "period"}
<1>1. DOMAIN new = F /\ DOMAIN row = F BY DEF Row
<1>2. u = [f \in F |-> IF new[f] = old[f] THEN row[f] ELSE new[f]] BY <1>1 DEF UpdatedRow
<1>3. DOMAIN u = F /\ \A f \in F : u[f] \in {row[f], new[f]} BY <1>2
<1>4. u = [plan |-> u["plan"], quota |-> u["quota"], status |-> u["status"], period |-> u["period"]]
  BY <1>2
<1>5. /\ u["plan"] \in Plans \cup {Unknown} /\ u["quota"] \in Plans \cup {"none"}
      /\ u["status"] \in Statuses /\ u["period"] \in Nat
  BY <1>3 DEF Row
<1> HIDE DEF u
<1>6. u \in Row BY <1>4, <1>5 DEF Row
<1> QED BY <1>1, <1>3, <1>6 DEF u

LEMMA ReportInv ==
  ASSUME BillingInv, NEW c \in Registrations, Report(c), UNCHANGED commitsFirst
  PROVE BillingInv'
<1>1. PICK p \in Plans \cup {Unknown}, s \in Statuses :
        events' = Append(events, [company |-> c, plan |-> p, status |-> s])
  BY DEF Report
<1>2. /\ acknowledged' = acknowledged /\ subscriptions' = subscriptions /\ wpc' = wpc
      /\ event' = event /\ existing' = existing /\ delivery' = delivery
      /\ commitsFirst' = commitsFirst /\ outdated' = outdated /\ mixed' = mixed
  BY DEF Report
<1>3. /\ events' \in Seq(Event)
      /\ Len(events') = Len(events) + 1 /\ Len(events) \in Nat
      /\ \A n \in 1..Len(events) : events'[n] = events[n]
      /\ DOMAIN events = 1..Len(events) /\ DOMAIN events' = 1..Len(events')
  <2> DEFINE e == [company |-> c, plan |-> p, status |-> s]
  <2>1. e \in Event BY DEF Event
  <2> HIDE DEF e
  <2>2. events' = Append(events, e) BY <1>1 DEF e
  <2> QED BY <2>1, <2>2 DEF BillingInv, BillingType
<1>4. \A n \in 1..Len(events) : n \in 1..Len(events') /\ Columns(n)' = Columns(n)
  BY <1>3 DEF Columns
<1>5. \A r : EventsOf(r) \subseteq EventsOf(r)' /\ EventsOf(r) \subseteq 1..Len(events)
  BY <1>3, <1>4 DEF EventsOf
<1>6. BillingType' BY <1>2, <1>3, <1>4 DEF BillingInv, BillingType
<1>7. FreshReads' BY <1>2, <1>3 DEF BillingInv, BillingType, FreshReads
<1>8. MeetsNoOther' BY <1>2, SameMode DEF BillingInv, MeetsNoOther
<1>9. DeliversNewer' BY <1>2, SameMode DEF BillingInv, DeliversNewer
<1>10. RowIsOneEvent' BY <1>2, SameMode, <1>4, <1>5 DEF BillingInv, RowIsOneEvent
<1>11. SubscriptionFollowsWebhooks'
  BY <1>2, <1>3, <1>4, <1>5, SameMode DEF BillingInv, BillingType, SubscriptionFollowsWebhooks
<1> QED BY <1>6, <1>7, <1>8, <1>9, <1>10, <1>11 DEF BillingInv

LEMMA ReceiveInv ==
  ASSUME BillingInv, NEW d \in Deliveries, NEW n \in DOMAIN events, Receive(d, n), UNCHANGED commitsFirst
  PROVE BillingInv'
<1>1. /\ wpc' = [wpc EXCEPT ![d] = "upsert"] /\ event' = [event EXCEPT ![d] = n]
      /\ existing' = [existing EXCEPT ![d] = subscriptions[events[n].company]]
      /\ delivery' = delivery /\ commitsFirst' = commitsFirst /\ events' = events
      /\ acknowledged' = acknowledged /\ subscriptions' = subscriptions
      /\ outdated' = outdated /\ mixed' = mixed
      /\ wpc[d] = "idle" /\ MayDeliver(n)
  BY DEF Receive
<1>2. n \in 1..Len(events) /\ n \in Nat BY DEF BillingInv, BillingType
<1>3. BillingType' BY <1>1, <1>2 DEF BillingInv, BillingType
<1>4. FreshReads' BY <1>1 DEF BillingInv, BillingType, FreshReads
<1>5. MeetsNoOther' BY <1>1, SameMode DEF BillingInv, BillingType, MeetsNoOther, MayDeliver, OneAtATime
<1>6. DeliversNewer'
  <2>1. SUFFICES ASSUME InOrder PROVE DeliversNewer' BY <1>1, SameMode DEF DeliversNewer
  <2>2. \A m \in acknowledged : m < n
    <3>1. SUFFICES ASSUME NEW m \in acknowledged, ~(m < n) PROVE FALSE OBVIOUS
    <3>2. m \in Nat /\ 1..m \subseteq acknowledged
      BY <2>1 DEF BillingInv, BillingType, DeliversNewer
    <3>3. n \in 1..m BY <1>2, <3>1, <3>2
    <3> QED BY <1>1, <2>1, <3>2, <3>3 DEF MayDeliver, InOrder
  <2>3. 1..(n - 1) \subseteq acknowledged BY <1>1, <2>1 DEF MayDeliver, InOrder
  <2> QED BY <1>1, <2>1, <2>2, <2>3 DEF BillingInv, BillingType, DeliversNewer
<1>7. RowIsOneEvent' BY <1>1, SameMode DEF BillingInv, RowIsOneEvent, EventsOf, Columns
<1>8. SubscriptionFollowsWebhooks'
  BY <1>1, SameMode DEF BillingInv, SubscriptionFollowsWebhooks, EventsOf, Columns
<1> QED BY <1>3, <1>4, <1>5, <1>6, <1>7, <1>8 DEF BillingInv

\* A webhook that ends without a row: a collision, a failure.
LEMMA EndWebhookInv ==
  ASSUME BillingInv, NEW d \in Deliveries, EndWebhook(d), outdated' = outdated \ {d},
         UNCHANGED <<delivery, commitsFirst, events, acknowledged, subscriptions, mixed>>
  PROVE BillingInv'
<1>1. /\ wpc' = [wpc EXCEPT ![d] = "idle"] /\ event' = [event EXCEPT ![d] = 0]
      /\ existing' = [existing EXCEPT ![d] = None]
      /\ delivery' = delivery /\ commitsFirst' = commitsFirst /\ events' = events
      /\ acknowledged' = acknowledged /\ subscriptions' = subscriptions /\ mixed' = mixed
      /\ outdated' = outdated \ {d}
  BY DEF EndWebhook
<1>2. BillingType' BY <1>1 DEF BillingInv, BillingType
<1>3. FreshReads' BY <1>1 DEF BillingInv, BillingType, FreshReads
<1>4. MeetsNoOther' BY <1>1, SameMode DEF BillingInv, BillingType, MeetsNoOther
<1>5. DeliversNewer' BY <1>1, SameMode DEF BillingInv, BillingType, DeliversNewer
<1>6. RowIsOneEvent' BY <1>1, SameMode DEF BillingInv, RowIsOneEvent, EventsOf, Columns
<1>7. SubscriptionFollowsWebhooks'
  BY <1>1, SameMode DEF BillingInv, SubscriptionFollowsWebhooks, EventsOf, Columns
<1> QED BY <1>2, <1>3, <1>4, <1>5, <1>6, <1>7 DEF BillingInv

LEMMA AnswerEarlyInv ==
  ASSUME BillingInv, NEW d \in Deliveries, AnswerEarly(d), UNCHANGED commitsFirst
  PROVE BillingInv'
<1>1. /\ wpc' = [wpc EXCEPT ![d] = "answered"] /\ ~commitsFirst'
      /\ acknowledged' = acknowledged \cup {event[d]} /\ wpc[d] = "upsert"
      /\ events' = events /\ subscriptions' = subscriptions
      /\ event' = event /\ existing' = existing /\ outdated' = outdated /\ mixed' = mixed
  BY DEF AnswerEarly, Acknowledge
<1>2. BillingType' BY <1>1 DEF BillingInv, BillingType
<1>3. FreshReads' BY <1>1 DEF BillingInv, BillingType, FreshReads
<1>4. ~OneAtATime' /\ ~InOrder' BY <1>1 DEF OneAtATime, InOrder
<1>5. MeetsNoOther' /\ DeliversNewer' /\ SubscriptionFollowsWebhooks'
  BY <1>4 DEF MeetsNoOther, DeliversNewer, SubscriptionFollowsWebhooks
<1>6. RowIsOneEvent' BY <1>1, <1>4 DEF BillingInv, RowIsOneEvent, EventsOf, Columns
<1> QED BY <1>2, <1>3, <1>5, <1>6 DEF BillingInv

LEMMA CommitWebhookInv ==
  ASSUME BillingInv, NEW d \in Deliveries, CommitWebhook(d), UNCHANGED commitsFirst
  PROVE BillingInv'
<1> DEFINE n == event[d]
           c == events[n].company
<1>1. /\ wpc' = [wpc EXCEPT ![d] = "idle"] /\ event' = [event EXCEPT ![d] = 0]
      /\ existing' = [existing EXCEPT ![d] = None]
      /\ subscriptions' = [subscriptions EXCEPT ![c] = Upserted(d)]
      /\ delivery' = delivery /\ commitsFirst' = commitsFirst /\ events' = events
      /\ wpc[d] # "idle"
      /\ acknowledged' = acknowledged \/ acknowledged' = acknowledged \cup {n}
      /\ mixed' = IF d \in outdated THEN mixed \cup {c} ELSE mixed \ {c}
      /\ outdated' = {e \in Deliveries \ {d} :
           e \in outdated \/ (wpc[e] # "idle" /\ events[event[e]].company = c)}
  BY DEF CommitWebhook, EndWebhook, Acknowledge, Record
<1>2. /\ n \in 1..Len(events) /\ n \in Nat /\ c \in Registrations
      /\ DOMAIN events = 1..Len(events) /\ acknowledged \subseteq Nat
  <2>1. n \in 1..Len(events) BY <1>1 DEF BillingInv, BillingType
  <2> QED BY <2>1, EventTyped DEF BillingInv
<1>3. /\ Upserted(d) \in Row
      /\ d \notin outdated => Upserted(d) = Columns(n)
      /\ \A f \in DOMAIN Upserted(d) :
           \/ Upserted(d)[f] = Columns(n)[f]
           \/ /\ subscriptions[c] # None /\ f \in DOMAIN subscriptions[c]
              /\ Upserted(d)[f] = subscriptions[c][f]
  <2>1. Columns(n) \in Row BY <1>2, ColumnsTyped DEF BillingInv
  <2>2. CASE existing[d] = None BY <2>1, <2>2 DEF Upserted
  <2>3. CASE existing[d] # None
    <3>1. subscriptions[c] # None /\ subscriptions[c] \in Row
      BY <1>1, <1>2, <2>3 DEF BillingInv, BillingType, FreshReads
    <3>2. Upserted(d) = UpdatedRow(subscriptions[c], existing[d], Columns(n)) BY <2>3 DEF Upserted
    <3>3. d \notin outdated => existing[d] = subscriptions[c] BY <1>1 DEF BillingInv, FreshReads
    <3> HIDE DEF n, c
    <3>4. d \notin outdated => Upserted(d) = Columns(n) BY <3>2, <3>3, UpdatedAsRead
    <3> QED BY <2>1, <3>1, <3>2, <3>4, UpdatedTyped
  <2> QED BY <2>2, <2>3
<1>4. Upserted(d) # None BY <1>3, BillingAssumption DEF Row
<1>5. /\ subscriptions'[c] = Upserted(d)
      /\ \A r \in Registrations \ {c} : subscriptions'[r] = subscriptions[r]
  BY <1>1, <1>2 DEF BillingInv, BillingType
<1>6. BillingType'
  <2>1. \A r \in Registrations : subscriptions'[r] # None => subscriptions'[r] \in Row
    BY <1>3, <1>5 DEF BillingInv, BillingType
  <2> QED BY <1>1, <1>2, <2>1 DEF BillingInv, BillingType
<1>7. FreshReads'
  <2>1. SUFFICES ASSUME NEW e \in Deliveries, wpc'[e] # "idle"
        PROVE /\ e \notin outdated' => existing'[e] = subscriptions'[events'[event'[e]].company]
              /\ existing'[e] # None => subscriptions'[events'[event'[e]].company] # None
    BY DEF FreshReads
  <2>2. e # d /\ wpc[e] # "idle" /\ event'[e] = event[e] /\ existing'[e] = existing[e]
    BY <1>1, <2>1 DEF BillingInv, BillingType
  <2>3. events[event[e]].company \in Registrations
    BY <2>2, EventTyped DEF BillingInv, BillingType
  <2>4. CASE events[event[e]].company = c BY <1>1, <1>4, <1>5, <2>2, <2>4
  <2>5. CASE events[event[e]].company # c
    <3>1. subscriptions'[events[event[e]].company] = subscriptions[events[event[e]].company]
      BY <1>5, <2>3, <2>5
    <3>2. e \notin outdated' => e \notin outdated BY <1>1, <2>2
    <3> QED BY <1>1, <2>2, <3>1, <3>2 DEF BillingInv, FreshReads
  <2> QED BY <2>4, <2>5
<1>8. OneAtATime => /\ outdated = {} /\ wpc[d] = "upsert"
                    /\ \A e \in Deliveries \ {d} : wpc[e] = "idle"
  <2>1. SUFFICES ASSUME OneAtATime
        PROVE /\ outdated = {} /\ wpc[d] = "upsert"
              /\ \A e \in Deliveries \ {d} : wpc[e] = "idle"
    OBVIOUS
  <2>2. wpc[d] = "upsert" BY <1>1, <2>1 DEF BillingInv, BillingType, MeetsNoOther
  <2> QED BY <2>1, <2>2 DEF BillingInv, MeetsNoOther
<1>9. MeetsNoOther' BY <1>1, <1>8, SameMode DEF BillingInv, BillingType, MeetsNoOther
<1>10. \A m : Columns(m)' = Columns(m) BY <1>1 DEF Columns
<1>11. \A r : EventsOf(r)' = EventsOf(r) BY <1>1 DEF EventsOf
<1>12. n \in EventsOf(c) BY <1>2 DEF EventsOf
<1>13. RowIsOneEvent'
  <2>1. ASSUME NEW r \in Registrations, subscriptions'[r] # None
        PROVE /\ \A f \in DOMAIN subscriptions'[r] :
                   \E m \in EventsOf(r) : subscriptions'[r][f] = Columns(m)[f]
              /\ r \notin mixed' => \E m \in EventsOf(r) : subscriptions'[r] = Columns(m)
    <3>1. CASE r = c
      <4>1. c \notin mixed' => d \notin outdated BY <1>1
      <4>2. \A f \in DOMAIN Upserted(d) : \E m \in EventsOf(c) : Upserted(d)[f] = Columns(m)[f]
        BY <1>2, <1>3, <1>12 DEF BillingInv, RowIsOneEvent
      <4> QED BY <1>3, <1>5, <1>12, <3>1, <4>1, <4>2
    <3>2. CASE r # c
      <4>1. subscriptions'[r] = subscriptions[r] BY <1>5, <3>2
      <4>2. r \notin mixed' => r \notin mixed BY <1>1, <3>2
      <4> QED BY <2>1, <4>1, <4>2 DEF BillingInv, RowIsOneEvent
    <3> QED BY <3>1, <3>2
  <2>2. OneAtATime => mixed' = {} BY <1>1, <1>8 DEF BillingInv, RowIsOneEvent
  <2> HIDE DEF n, c
  <2> QED BY <1>1, <1>10, <1>11, <2>1, <2>2, SameMode DEF RowIsOneEvent
<1>14. InOrder => (\A m \in acknowledged : m < n) /\ 1..(n - 1) \subseteq acknowledged
  BY <1>1, <1>8, SameMode DEF BillingInv, DeliversNewer
<1>15. DeliversNewer'
  <2>1. SUFFICES ASSUME InOrder PROVE DeliversNewer' BY <1>1, SameMode DEF DeliversNewer
  <2>2. \A e \in Deliveries : wpc'[e] # "upsert"
    BY <1>1, <1>8, <2>1, SameMode DEF BillingInv, BillingType
  <2>3. ASSUME NEW m \in acknowledged' PROVE 1..m \subseteq acknowledged'
    <3>1. CASE m \in acknowledged BY <1>1, <2>1, <3>1 DEF BillingInv, DeliversNewer
    <3>2. CASE m \notin acknowledged
      <4>1. m = n /\ acknowledged' = acknowledged \cup {n} BY <1>1, <2>3, <3>2
      <4>2. 1..n \subseteq (1..(n - 1)) \cup {n} BY <1>2
      <4> QED BY <1>14, <2>1, <4>1, <4>2
    <3> QED BY <3>1, <3>2
  <2> QED BY <2>2, <2>3 DEF DeliversNewer
<1>16. SubscriptionFollowsWebhooks'
  <2>1. SUFFICES ASSUME InOrder, NEW m \in acknowledged'
        PROVE \E k \in EventsOf(events[m].company) :
                subscriptions'[events[m].company] = Columns(k) /\ k >= m
    BY <1>1, <1>10, <1>11, SameMode DEF SubscriptionFollowsWebhooks
  <2>2. CASE events[m].company = c
    <3>1. n >= m
      <4>1. CASE m \in acknowledged
        <5>1. m < n /\ m \in Nat BY <1>2, <1>14, <2>1, <4>1
        <5> QED BY <1>2, <5>1
      <4>2. CASE m = n BY <1>2, <4>2
      <4> QED BY <1>1, <2>1, <4>1, <4>2
    <3>2. subscriptions'[c] = Columns(n) BY <1>1, <1>3, <1>5, <1>8, <2>1, SameMode
    <3> QED BY <1>12, <2>2, <3>1, <3>2
  <2>3. CASE events[m].company # c
    <3>1. m \in acknowledged BY <1>1, <2>1, <2>3
    <3>2. events[m].company \in Registrations
      <4>1. m \in 1..Len(events) BY <3>1 DEF BillingInv, BillingType
      <4> QED BY <4>1, EventTyped DEF BillingInv
    <3> QED BY <1>5, <2>1, <2>3, <3>1, <3>2 DEF BillingInv, SubscriptionFollowsWebhooks
  <2> QED BY <2>2, <2>3
<1> QED BY <1>6, <1>7, <1>9, <1>13, <1>15, <1>16 DEF BillingInv

-----------------------------------------------------------------------------
LEMMA AccountsStep == AccountsInv /\ [Next]_vars => AccountsInv'
<1> SUFFICES ASSUME AccountsInv, [Next]_vars PROVE AccountsInv' OBVIOUS
<1>1. ASSUME NEW h \in Registrations, Register(h), UNCHANGED <<commitsFirst, form>> PROVE AccountsInv'
  BY <1>1, CheckLicenseInv, CheckEmailInv, InsertCompanyInv, InsertUserInv, CommitAccountInv,
     AnswerInv, LogInInv, RegisterFailsInv DEF Register
<1>2. ASSUME UNCHANGED <<commitsFirst, accountVars>>, faults' = faults \/ faults' = faults + 1
      PROVE AccountsInv'
  <2>1. /\ form' = form /\ rpc' = rpc /\ companies' = companies /\ users' = users
        /\ role' = role /\ answer' = answer /\ tokens' = tokens
    BY <1>2 DEF accountVars
  <2>2. faults' \in Nat /\ (faults' = 0 => faults = 0) BY <1>2 DEF AccountsInv, AccountsType
  <2>3. AccountsType' BY <2>1, <2>2 DEF AccountsInv, AccountsType
  <2>4. Stages' BY <2>1 DEF AccountsInv, Stages
  <2>5. Holds' BY <2>1, SameTaken, SameForms DEF AccountsInv, Holds, LicenseLocked, EmailLocked
  <2>6. Unique' BY <2>1, SameUnique DEF AccountsInv
  <2>7. Answers' BY <1>2, <2>1, <2>2, SameTaken DEF AccountsInv, Answers
  <2> QED BY <2>3, <2>4, <2>5, <2>6, <2>7 DEF AccountsInv
<1>3. CASE \E h \in Registrations : Register(h) /\ UNCHANGED <<commitsFirst, form, billingVars>>
  BY <1>1, <1>3
<1>4. CASE Billed /\ UNCHANGED <<commitsFirst, accountVars, faults>> BY <1>2, <1>4
<1>5. CASE \E d \in Deliveries : WebhookFails(d) /\ UNCHANGED <<commitsFirst, accountVars>>
  BY <1>2, <1>5 DEF WebhookFails
<1>6. CASE UNCHANGED vars BY <1>2, <1>6 DEF vars
<1> QED BY <1>3, <1>4, <1>5, <1>6 DEF Next

LEMMA BillingStep == BillingInv /\ [Next]_vars => BillingInv'
<1> SUFFICES ASSUME BillingInv, [Next]_vars PROVE BillingInv' OBVIOUS
<1>1. CASE \E h \in Registrations : Register(h) /\ UNCHANGED <<commitsFirst, form, billingVars>>
  BY <1>1, SameWebhooks DEF webhookVars, billingVars
<1>2. ASSUME NEW d \in Deliveries, InsertCollides(d), UNCHANGED commitsFirst PROVE BillingInv'
  BY <1>2, EndWebhookInv DEF InsertCollides
<1>3. CASE Billed /\ UNCHANGED <<commitsFirst, accountVars, faults>>
  BY <1>2, <1>3, ReportInv, ReceiveInv, CommitWebhookInv, AnswerEarlyInv DEF Billed
<1>4. CASE \E d \in Deliveries : WebhookFails(d) /\ UNCHANGED <<commitsFirst, accountVars>>
  BY <1>4, EndWebhookInv DEF WebhookFails
<1>5. CASE UNCHANGED vars BY <1>5, SameWebhooks DEF vars, webhookVars, billingVars
<1> QED BY <1>1, <1>3, <1>4, <1>5 DEF Next

\* Registrations never leave two companies with one license, two users with one address,
\* or a company without its administrator: InsertCompany and InsertUser against the
\* unique constraints.
THEOREM AccountsAreAlwaysWhole == Spec => []AccountsAreWhole
<1>1. Init => AccountsInv BY InitAccountsInv
<1>2. AccountsInv /\ [Next]_vars => AccountsInv' BY AccountsStep
<1>3. AccountsInv => AccountsAreWhole
  BY DEF AccountsInv, AccountsType, Stages, Unique, AccountsAreWhole
<1> QED BY <1>1, <1>2, <1>3, PTL DEF Spec

\* What AuthService.register answers is true of the database.
THEOREM AnswersAreAlwaysTrue == Spec => []AnswersAreTrue
<1>1. Init => AccountsInv BY InitAccountsInv
<1>2. AccountsInv /\ [Next]_vars => AccountsInv' BY AccountsStep
<1>3. AccountsInv => AnswersAreTrue BY DEF AccountsInv, Answers, AnswersAreTrue
<1> QED BY <1>1, <1>2, <1>3, PTL DEF Spec

\* However webhooks are repeated, reordered and overlap: SubscriptionRepository.upsert mixes
\* events of one company only, and only by a commit over a row read before another's commit.
THEOREM RowIsAlwaysOneEvent == Spec => []RowIsOneEvent
<1>1. Init => BillingInv BY InitBillingInv
<1>2. BillingInv /\ [Next]_vars => BillingInv' BY BillingStep
<1>3. BillingInv => RowIsOneEvent BY DEF BillingInv
<1> QED BY <1>1, <1>2, <1>3, PTL DEF Spec

\* With webhooks in order the row follows the provider, through lost answers and failures.
THEOREM SubscriptionAlwaysFollows == Spec => []SubscriptionFollowsWebhooks
<1>1. Init => BillingInv BY InitBillingInv
<1>2. BillingInv /\ [Next]_vars => BillingInv' BY BillingStep
<1>3. BillingInv => SubscriptionFollowsWebhooks BY DEF BillingInv
<1> QED BY <1>1, <1>2, <1>3, PTL DEF Spec

-----------------------------------------------------------------------------
(* Types.                                                                  *)

\* A user's role is set with the INSERT and gone with the rollback.
AccountsRest ==
  /\ form \in [Registrations -> Forms]
  /\ tokens \subseteq Registrations
  /\ \A h \in Registrations : rpc[h] # "commit" /\ h \notin users => role[h] = "none"

\* Only registered companies have events and rows.
BillingRest ==
  /\ \A n \in DOMAIN events : events[n].company \in users
  /\ \A c \in Registrations : subscriptions[c] # None => c \in users
  /\ \A d \in Deliveries : wpc[d] = "idle" => event[d] = 0

TypesInv == AccountsInv /\ BillingInv /\ AccountsRest /\ BillingRest

LEMMA RegisterTypes ==
  ASSUME AccountsInv, AccountsRest, NEW h \in Registrations, Register(h), UNCHANGED form
  PROVE AccountsRest' /\ users \subseteq users'
<1>1. /\ rpc \in [Registrations -> Steps] /\ users \subseteq Registrations
      /\ role \in [Registrations -> {"none", "broker_admin", "company_admin"}]
  BY DEF AccountsInv, AccountsType
<1>2. ASSUME NEW what \in {"conflict", "error"}, Refused(h, what), rpc[h] # "commit"
      PROVE AccountsRest' /\ users \subseteq users'
  BY <1>1, <1>2 DEF AccountsRest, Refused, Goto
<1>3. ASSUME NEW s \in {"check email", "insert company", "insert user"}, Goto(h, s), rpc[h] # "commit",
             UNCHANGED <<users, role, tokens>>
      PROVE AccountsRest' /\ users \subseteq users'
  BY <1>1, <1>3 DEF AccountsRest, Goto
<1>4. CASE CheckLicense(h) BY <1>2, <1>3, <1>4 DEF CheckLicense
<1>5. CASE CheckEmail(h) BY <1>2, <1>3, <1>5 DEF CheckEmail
<1>6. CASE InsertCompany(h) BY <1>2, <1>3, <1>6 DEF InsertCompany
<1>7. CASE InsertUser(h)
  <2>1. CASE EmailTaken(h) BY <1>2, <1>7, <2>1 DEF InsertUser
  <2>2. CASE ~EmailTaken(h)
    <3>1. /\ rpc' = [rpc EXCEPT ![h] = "commit"] /\ users' = users /\ tokens' = tokens
          /\ role' = [role EXCEPT ![h] = AdminRole(form[h].account_type)]
      BY <1>7, <2>2 DEF InsertUser, Goto
    <3> QED BY <1>1, <3>1 DEF AccountsRest
  <2> QED BY <2>1, <2>2
<1>8. CASE CommitAccount(h)
  <2>1. /\ rpc' = [rpc EXCEPT ![h] = "answer"] /\ users' = users \cup {h} /\ tokens' = tokens
        /\ role' = role
    BY <1>8 DEF CommitAccount, RowsOf, Goto
  <2> QED BY <1>1, <2>1 DEF AccountsRest
<1>9. CASE Answer(h) BY <1>9 DEF AccountsRest, Answer
<1>10. CASE LogIn(h) BY <1>10 DEF AccountsRest, LogIn
<1>11. CASE RegisterFails(h)
  <2>1. /\ rpc' = [rpc EXCEPT ![h] = "done"] /\ users' = users /\ tokens' = tokens
        /\ role' = [role EXCEPT ![h] = IF h \in users THEN @ ELSE "none"]
    BY <1>11 DEF RegisterFails, Goto
  <2> QED BY <1>1, <2>1 DEF AccountsRest
<1> QED BY <1>4, <1>5, <1>6, <1>7, <1>8, <1>9, <1>10, <1>11 DEF Register

LEMMA BilledTypes ==
  ASSUME AccountsInv, BillingInv, BillingRest, Billed, UNCHANGED users
  PROVE BillingRest'
<1>1. /\ DOMAIN events = 1..Len(events) /\ Len(events) \in Nat
      /\ users \subseteq Registrations /\ wpc \in [Deliveries -> {"idle", "upsert", "answered"}]
      /\ event \in [Deliveries -> Nat] /\ DOMAIN subscriptions = Registrations
      /\ \A d \in Deliveries : wpc[d] # "idle" => event[d] \in 1..Len(events)
  BY EventTyped DEF AccountsInv, AccountsType, BillingInv, BillingType
<1>2. ASSUME NEW c \in Registrations, Report(c) PROVE BillingRest'
  <2>1. PICK p \in Plans \cup {Unknown}, s \in Statuses :
          events' = Append(events, [company |-> c, plan |-> p, status |-> s])
    BY <1>2 DEF Report
  <2>2. \A n \in DOMAIN events' : events'[n].company \in users
    <3>1. SUFFICES ASSUME NEW n \in DOMAIN events' PROVE events'[n].company \in users
      OBVIOUS
    <3> DEFINE e == [company |-> c, plan |-> p, status |-> s]
    <3>2. e.company = c /\ c \in users BY <1>2 DEF Report
    <3> HIDE DEF e
    <3>3. events' = Append(events, e) BY <2>1 DEF e
    <3>4. events \in Seq(Event) BY DEF BillingInv, BillingType
    <3>5. events'[n] = IF n = Len(events) + 1 THEN e ELSE events[n] BY <3>1, <3>3, <3>4
    <3>6. n \in 1..(Len(events) + 1) BY <3>1, <3>3, <3>4
    <3>7. CASE n = Len(events) + 1 BY <3>2, <3>5, <3>7
    <3>8. CASE n # Len(events) + 1
      <4>1. n \in DOMAIN events BY <1>1, <3>6, <3>8
      <4> QED BY <3>5, <3>8, <4>1 DEF BillingRest
    <3> QED BY <3>7, <3>8
  <2> QED BY <1>2, <2>2 DEF BillingRest, Report
<1>3. ASSUME NEW d \in Deliveries, NEW n \in DOMAIN events, Receive(d, n) PROVE BillingRest'
  BY <1>1, <1>3 DEF BillingRest, Receive
<1>4. ASSUME NEW d \in Deliveries, CommitWebhook(d) PROVE BillingRest'
  <2> DEFINE c == events[event[d]].company
  <2>1. /\ wpc' = [wpc EXCEPT ![d] = "idle"] /\ event' = [event EXCEPT ![d] = 0]
        /\ subscriptions' = [subscriptions EXCEPT ![c] = Upserted(d)]
        /\ events' = events /\ wpc[d] # "idle"
    BY <1>4 DEF CommitWebhook, EndWebhook
  <2>2. c \in users BY <1>1, <2>1 DEF BillingRest
  <2> HIDE DEF c
  <2>3. \A r \in Registrations : subscriptions'[r] # None => r \in users
    BY <1>1, <2>1, <2>2 DEF BillingRest
  <2> QED BY <1>1, <2>1, <2>3 DEF BillingRest
<1>5. ASSUME NEW d \in Deliveries, AnswerEarly(d) PROVE BillingRest'
  BY <1>1, <1>5 DEF BillingRest, AnswerEarly
<1>6. ASSUME NEW d \in Deliveries, InsertCollides(d) PROVE BillingRest'
  BY <1>1, <1>6 DEF BillingRest, InsertCollides, EndWebhook
<1> QED BY <1>2, <1>3, <1>4, <1>5, <1>6 DEF Billed

LEMMA TypesStep == TypesInv /\ [Next]_vars => TypesInv'
<1> SUFFICES ASSUME TypesInv, [Next]_vars PROVE TypesInv' OBVIOUS
<1>1. AccountsInv' /\ BillingInv' BY AccountsStep, BillingStep DEF TypesInv
<1>2. CASE \E h \in Registrations : Register(h) /\ UNCHANGED <<commitsFirst, form, billingVars>>
  <2>1. AccountsRest' /\ users \subseteq users' BY <1>2, RegisterTypes DEF TypesInv
  <2>2. UNCHANGED <<events, subscriptions, wpc, event>> BY <1>2 DEF billingVars
  <2>3. BillingRest' BY <2>1, <2>2 DEF TypesInv, BillingRest
  <2> QED BY <1>1, <2>1, <2>3 DEF TypesInv
<1>3. ASSUME UNCHANGED accountVars PROVE AccountsRest' /\ users' = users
  BY <1>3 DEF TypesInv, AccountsRest, accountVars
<1>4. CASE Billed /\ UNCHANGED <<commitsFirst, accountVars, faults>>
  <2>1. AccountsRest' /\ users' = users BY <1>3, <1>4
  <2> QED BY <1>1, <1>4, <2>1, BilledTypes DEF TypesInv
<1>5. CASE \E d \in Deliveries : WebhookFails(d) /\ UNCHANGED <<commitsFirst, accountVars>>
  <2>1. PICK d \in Deliveries : WebhookFails(d) /\ UNCHANGED accountVars BY <1>5
  <2>2. AccountsRest' /\ users' = users BY <1>3, <2>1
  <2>3. /\ wpc' = [wpc EXCEPT ![d] = "idle"] /\ event' = [event EXCEPT ![d] = 0]
        /\ UNCHANGED <<events, subscriptions>>
    BY <2>1 DEF WebhookFails, EndWebhook
  <2>4. wpc \in [Deliveries -> {"idle", "upsert", "answered"}] /\ event \in [Deliveries -> Nat]
    BY DEF TypesInv, BillingInv, BillingType
  <2>5. BillingRest' BY <2>2, <2>3, <2>4 DEF TypesInv, BillingRest
  <2> QED BY <1>1, <2>2, <2>5 DEF TypesInv
<1>6. CASE UNCHANGED vars
  <2>1. UNCHANGED accountVars /\ UNCHANGED <<events, subscriptions, wpc, event>>
    BY <1>6 DEF vars, billingVars
  <2>2. BillingRest' BY <2>1, <1>3 DEF TypesInv, BillingRest
  <2> QED BY <1>1, <1>3, <2>1, <2>2 DEF TypesInv
<1> QED BY <1>2, <1>4, <1>5, <1>6 DEF Next

\* Rows belong to registered companies, a role to a user inserted, and
\* a webhook in progress to an event: whatever fails, what is left is of the right type.
THEOREM BillingTypeCorrect == Spec => []TypeOK
<1>1. Init => TypesInv
  <2>1. SUFFICES ASSUME Init PROVE AccountsRest /\ BillingRest
    BY InitAccountsInv, InitBillingInv DEF TypesInv
  <2>2. AccountsRest BY <2>1 DEF Init, InitAccounts, AccountsRest
  <2>3. BillingRest
    <3>1. /\ events = <<>>
          /\ subscriptions = [c \in Registrations |-> None] /\ event = [d \in Deliveries |-> 0]
      BY <2>1 DEF Init, InitBilling
    <3>2. DOMAIN events = {} BY <3>1
    <3> QED BY <3>1, <3>2 DEF BillingRest
  <2> QED BY <2>2, <2>3
<1>2. TypesInv => TypeOK
  <2>1. SUFFICES ASSUME TypesInv PROVE TypeOK OBVIOUS
  <2>2. AccountsTypeOK
    <3>1. \A h \in Registrations : AdminRole(form[h].account_type) # "none" BY DEF AdminRole
    <3>2. \A h \in Registrations : role[h] = "none" <=> rpc[h] # "commit" /\ h \notin users
      BY <2>1, <3>1 DEF TypesInv, AccountsInv, Stages, AccountsRest
    <3> QED BY <2>1, <3>2 DEF TypesInv, AccountsInv, AccountsType, AccountsRest, AccountsTypeOK
  <2>3. \A d \in Deliveries : event[d] \in {0} \cup DOMAIN events /\ (event[d] = 0 <=> wpc[d] = "idle")
    BY <2>1, EventTyped DEF TypesInv, BillingInv, BillingType, BillingRest
  <2>4. acknowledged \subseteq DOMAIN events /\ outdated \subseteq Deliveries /\ mixed \subseteq Registrations
    BY <2>1, EventTyped DEF TypesInv, BillingInv, BillingType
  <2> QED BY <2>1, <2>2, <2>3, <2>4 DEF TypesInv, BillingRest, TypeOK
<1> QED BY <1>1, <1>2, TypesStep, PTL DEF Spec
=============================================================================
