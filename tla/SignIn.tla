-------------------------------- MODULE SignIn --------------------------------
(***************************************************************************)
(* Signing in with an approval: the right password opens a request and     *)
(* mails its link, the account's owner answers it, and the waiting browser *)
(* collects the session (POST /login, /login/decision, /login/collect,     *)
(* loginApprovalService).  One account.                                    *)
(*                                                                         *)
(* Each statement is a step; no transaction spans two of them.             *)
(***************************************************************************)
EXTENDS Integers, FiniteSets

CONSTANTS
  Logins,  \* requests to sign in, with the right password
  Tabs,    \* browser tabs that poll, each with one login's challenge
  NoLogin

VARIABLES
  active,    \* users.status is 'active'
  login,     \* where each login is
  approval,  \* login_approvals: status of a login's row, and whether it expired
  tab,       \* what each tab is about to do
  sessions,  \* the sessions issued: the login and the tab they came from
  answer     \* what the owner answered to each login first

signInVars == <<active, login, approval, tab, sessions, answer>>

SignInInit ==
  /\ active = TRUE
  /\ login = [a \in Logins |-> "new"]
  /\ approval = [a \in Logins |-> [status |-> "none", expired |-> FALSE]]
  /\ tab = [t \in Tabs |-> [at |-> "idle", login |-> NoLogin]]
  /\ sessions = {}
  /\ answer = [a \in Logins |-> "none"]

Answerable(a) == approval[a].status = "pending" /\ ~approval[a].expired

\* createApproval's UPDATE: older requests that are pending are rejected.
Supersede(a) ==
  /\ login[a] = "new"
  /\ active
  /\ approval' = [b \in Logins |-> IF approval[b].status = "pending"
                                   THEN [approval[b] EXCEPT !.status = "rejected"] ELSE approval[b]]
  /\ login' = [login EXCEPT ![a] = "superseded"]
  /\ UNCHANGED <<active, tab, sessions, answer>>

\* Its INSERT, and the mail.
OpenRequest(a) ==
  /\ login[a] = "superseded"
  /\ approval' = [approval EXCEPT ![a].status = "pending"]
  /\ login' = [login EXCEPT ![a] = "open"]
  /\ UNCHANGED <<active, tab, sessions, answer>>

\* The mail cannot be sent: the row stays, and nobody gets its link or challenge.
MailFails(a) ==
  /\ login[a] = "superseded"
  /\ approval' = [approval EXCEPT ![a].status = "pending"]
  /\ login' = [login EXCEPT ![a] = "unmailed"]
  /\ UNCHANGED <<active, tab, sessions, answer>>

\* The decision of whoever holds the mail, taken from a request that is pending
\* or not.
DecideAny(a, decision) ==
  /\ login[a] = "open"
  /\ approval[a].status \in {"pending", "approved", "rejected"} /\ ~approval[a].expired
  /\ approval' = [approval EXCEPT ![a].status = decision]
  /\ answer' = [answer EXCEPT ![a] = IF @ = "none" THEN decision ELSE @]
  /\ UNCHANGED <<active, login, tab, sessions>>

\* decide: only a pending request that has not expired is answered.
Decide(a, decision) ==
  /\ login[a] = "open"
  /\ Answerable(a)
  /\ approval' = [approval EXCEPT ![a].status = decision]
  /\ answer' = [answer EXCEPT ![a] = decision]
  /\ UNCHANGED <<active, login, tab, sessions>>

\* The request's time is over.
Age(a) ==
  /\ approval[a].status # "none" /\ ~approval[a].expired
  /\ approval' = [approval EXCEPT ![a].expired = TRUE]
  /\ UNCHANGED <<active, login, tab, sessions, answer>>

\* reapExpiredApprovals: rows nobody answered, and in the end every row.
Reap(a) ==
  /\ approval[a].status # "none" /\ approval[a].expired
  /\ approval' = [approval EXCEPT ![a].status = "none"]
  /\ UNCHANGED <<active, login, tab, sessions, answer>>

\* pollStatus says approved.
Poll(t, a) ==
  /\ tab[t].at = "idle"
  /\ login[a] = "open"
  /\ approval[a].status = "approved"
  /\ tab' = [tab EXCEPT ![t] = [at |-> "collecting", login |-> a]]
  /\ UNCHANGED <<active, login, approval, sessions, answer>>

\* The row is read here and marked later.
CollectApproved(t) ==
  LET a == tab[t].login IN
  /\ tab[t].at = "collecting"
  /\ approval[a].status \in {"approved", "consumed"} /\ ~approval[a].expired
  /\ approval' = [approval EXCEPT ![a].status = "consumed"]
  /\ tab' = [tab EXCEPT ![t].at = "claimed"]
  /\ UNCHANGED <<active, login, sessions, answer>>

\* consume: the UPDATE takes a row that is still approved, or the tab is told
\* the request expired.
Collect(t) ==
  LET a == tab[t].login
      claimable == approval[a].status = "approved" /\ ~approval[a].expired
  IN
  /\ tab[t].at = "collecting"
  /\ \/ /\ claimable
        /\ approval' = [approval EXCEPT ![a].status = "consumed"]
        /\ tab' = [tab EXCEPT ![t].at = "claimed"]
     \/ /\ ~claimable
        /\ tab' = [tab EXCEPT ![t].at = "over"]
        /\ UNCHANGED approval
  /\ UNCHANGED <<active, login, sessions, answer>>

\* The user is read again, and the session issued if it is still active.
Issue(t) ==
  /\ tab[t].at = "claimed"
  /\ tab' = [tab EXCEPT ![t].at = IF active THEN "issuing" ELSE "over"]
  /\ UNCHANGED <<active, login, approval, sessions, answer>>

StoreSession(t) ==
  /\ tab[t].at = "issuing"
  /\ sessions' = sessions \cup {[login |-> tab[t].login, tab |-> t]}
  /\ tab' = [tab EXCEPT ![t].at = "over"]
  /\ UNCHANGED <<active, login, approval, answer>>

Suspend ==
  /\ active
  /\ active' = FALSE
  /\ UNCHANGED <<login, approval, tab, sessions, answer>>

SignInNext ==
  \/ Suspend
  \/ \E a \in Logins :
       \/ Supersede(a) \/ OpenRequest(a) \/ MailFails(a) \/ Age(a) \/ Reap(a)
       \/ \E decision \in {"approved", "rejected"} : Decide(a, decision)
       \/ \E t \in Tabs : Poll(t, a)
  \/ \E t \in Tabs : Collect(t) \/ Issue(t) \/ StoreSession(t)

-----------------------------------------------------------------------------
(* Properties.                                                              *)

SignInTypeOK ==
  /\ active \in BOOLEAN
  /\ login \in [Logins -> {"new", "superseded", "open", "unmailed"}]
  /\ approval \in [Logins -> [status : {"none", "pending", "approved", "rejected", "consumed"},
                              expired : BOOLEAN]]
  /\ tab \in [Tabs -> [at : {"idle", "collecting", "claimed", "issuing", "over"},
                       login : Logins \cup {NoLogin}]]
  /\ \A t \in Tabs : tab[t].at # "idle" => tab[t].login \in Logins
  /\ sessions \subseteq [login : Logins, tab : Tabs]
  /\ answer \in [Logins -> {"none", "approved", "rejected"}]

\* One approval gives one session, and only one the owner approved before
\* anything else: not a request that was rejected, superseded or had expired,
\* however many tabs collect it (consume, decide).
OneSessionPerApproval ==
  \A s, z \in sessions :
    /\ answer[s.login] = "approved"
    /\ s.login = z.login => s = z
=============================================================================
