-------------------------------- MODULE Auth --------------------------------
(***************************************************************************)
(* Accounts and sessions (app/auth, app/api/v1/auth.py): register and      *)
(* login start a session and set a cookie, me reads it, logout revokes it. *)
(* No request holds a transaction from one statement to the next, and      *)
(* nothing keeps the requests of a browser, or their answers, in order.    *)
(*                                                                         *)
(* An account is known by the address it was created with, and its hash by *)
(* the person who chose the password; a token by its session's number.     *)
(***************************************************************************)
EXTENDS Integers, Sequences

CONSTANTS
    People,
    NoOne,
    Addresses,      \* e-mail addresses, as _normalize_email leaves them
    Spellings,      \* how a person may type one
    Tabs,           \* concurrent requests
    Households,     \* who has which address, and whose browser has which tab
    Ttl,            \* auth_session_ttl_days
    TimeLimit,      \* bounds of the model: the clock,
    FaultLimit,     \* how many requests fail or lose their answer,
    LogoutLimit     \* and how many sign out

ASSUME AuthAssumption ==
    /\ NoOne \notin People
    /\ Households \subseteq [address : [People -> Addresses], person : [Tabs -> People]]
    /\ Ttl \in Nat \ {0}
    /\ TimeLimit \in Nat /\ FaultLimit \in Nat /\ LogoutLimit \in Nat

VARIABLES
    address,    \* the address of each person, for good
    person,     \* the person in whose browser each tab is, for good
    app_user,   \* per address: whose password the account has, if there is one
    session,    \* auth_session, in the order of its rows
    browser,    \* per person: the cookie, and what the person does next
    request,    \* per tab: the request under way, and where it stands
    signedOut,  \* history: the tokens of the logouts that were answered
    now,
    faults, logouts

fixed == <<address, person>>
vars == <<fixed, app_user, session, browser, request, signedOut, now, faults, logouts>>

NoCookie == [token |-> 0, until |-> 0]
\* "register" or "login": the form is open; "none": signed in, or so it seems;
\* "refused": the password is not that of the account.
NewBrowser == [cookie |-> NoCookie, form |-> "register"]

Idle == [step |-> "idle", email |-> <<>>, user |-> NoOne, token |-> 0, expires |-> 0,
         answer |-> "none"]

Init ==
    /\ \E h \in Households : address = h.address /\ person = h.person
    /\ app_user = [a \in Addresses |-> NoOne]
    /\ session = <<>>
    /\ browser = [p \in People |-> NewBrowser]
    /\ request = [t \in Tabs |-> Idle]
    /\ signedOut = {}
    /\ now = 0 /\ faults = 0 /\ logouts = 0

-----------------------------------------------------------------------------
(* The browser *)

At(t, step) == request[t].step = step
Step(t, new) == request' = [request EXCEPT ![t] = new]

\* The browser drops a cookie whose max_age has passed.
session_token(p) == IF browser[p].cookie.until > now THEN browser[p].cookie.token ELSE 0

SendForm(t) ==
    LET p == person[t] IN
    /\ At(t, "idle") /\ browser[p].form \in {"register", "login"}
    /\ \E spelling \in Spellings :
          Step(t, [Idle EXCEPT !.step = browser[p].form, !.email = <<address[p], spelling>>])
    /\ UNCHANGED <<fixed, app_user, session, browser, signedOut, now, faults, logouts>>

SendMe(t) ==
    LET p == person[t] IN
    /\ At(t, "idle") /\ browser[p].form = "none"
    /\ Step(t, [Idle EXCEPT !.step = "me", !.token = session_token(p)])
    /\ UNCHANGED <<fixed, app_user, session, browser, signedOut, now, faults, logouts>>

SendLogout(t) ==
    /\ At(t, "idle") /\ logouts < LogoutLimit
    /\ Step(t, [Idle EXCEPT !.step = "logout", !.token = session_token(person[t])])
    /\ logouts' = logouts + 1
    /\ UNCHANGED <<fixed, app_user, session, browser, signedOut, now, faults>>

-----------------------------------------------------------------------------
(* The handlers *)

Answer(t, answer) == Step(t, [request[t] EXCEPT !.step = "answer", !.answer = answer])
SessionFor(t, user) == Step(t, [request[t] EXCEPT !.step = "issue", !.user = user])

\* Trimmed and lowercased.
_normalize_email(email) == email[1]

\* The address has an account: it is the one.
Bugregister(t) ==
    LET user == _normalize_email(request[t].email) IN
    /\ At(t, "register")
    /\ SessionFor(t, user)
    /\ app_user' = [app_user EXCEPT ![user] = IF @ = NoOne THEN person[t] ELSE @]
    /\ UNCHANGED <<fixed, session, browser, signedOut, now, faults, logouts>>

\* INSERT INTO app_user: the index on email_normalized refuses the second.
register(t) ==
    LET user == _normalize_email(request[t].email) IN
    /\ At(t, "register")
    /\ \/ /\ app_user[user] = NoOne
          /\ app_user' = [app_user EXCEPT ![user] = person[t]]
          /\ SessionFor(t, user)
       \/ /\ app_user[user] # NoOne
          /\ Answer(t, "email_already_registered")
          /\ UNCHANGED app_user
    /\ UNCHANGED <<fixed, session, browser, signedOut, now, faults, logouts>>

\* The account is looked up by the address as it was typed.
Bugget_user_by_email(email) ==
    IF email[2] = "normalized" THEN app_user[_normalize_email(email)] ELSE NoOne

get_user_by_email(email) == app_user[_normalize_email(email)]

\* SELECT, and verify_password.
login(t) ==
    LET email == request[t].email IN
    /\ At(t, "login")
    /\ IF get_user_by_email(email) = person[t]
       THEN SessionFor(t, _normalize_email(email))
       ELSE Answer(t, "invalid_credentials")
    /\ UNCHANGED <<fixed, app_user, session, browser, signedOut, now, faults, logouts>>

\* _start_session: the expiry is computed before a connection is waited for.
IssueSession(t) ==
    /\ At(t, "issue")
    /\ Step(t, [request[t] EXCEPT !.step = "insert", !.expires = now + Ttl])
    /\ UNCHANGED <<fixed, app_user, session, browser, signedOut, now, faults, logouts>>

create_session(t) ==
    /\ At(t, "insert")
    /\ session' = Append(session, [user |-> request[t].user, expires |-> request[t].expires,
                                   revoked |-> FALSE])
    /\ Step(t, [request[t] EXCEPT !.step = "answer", !.answer = "session",
                                  !.token = Len(session) + 1])
    /\ UNCHANGED <<fixed, app_user, browser, signedOut, now, faults, logouts>>

get_session_user(token) ==
    IF token # 0 /\ ~session[token].revoked /\ session[token].expires > now
    THEN session[token].user ELSE NoOne

me(t) ==
    /\ At(t, "me")
    /\ Answer(t, IF get_session_user(request[t].token) = NoOne THEN "not_authenticated"
                                                                ELSE "user")
    /\ UNCHANGED <<fixed, app_user, session, browser, signedOut, now, faults, logouts>>

\* The cookie is deleted, and the session left alone.
Buglogout(t) ==
    /\ At(t, "logout")
    /\ Answer(t, "logged_out")
    /\ signedOut' = signedOut \cup ({request[t].token} \ {0})
    /\ UNCHANGED <<fixed, app_user, session, browser, now, faults, logouts>>

\* Without a cookie there is nothing to revoke.
logout(t) ==
    LET token == request[t].token IN
    /\ At(t, "logout")
    /\ session' = [i \in DOMAIN session |->
          IF i = token THEN [session[i] EXCEPT !.revoked = TRUE] ELSE session[i]]
    /\ Answer(t, "logged_out")
    /\ signedOut' = signedOut \cup ({token} \ {0})
    /\ UNCHANGED <<fixed, app_user, browser, now, faults, logouts>>

-----------------------------------------------------------------------------
(* The answers *)

\* What a person does about an answer.  One that is late changes nothing.
FormAfter(t) ==
    LET p == person[t]
        form == browser[p].form
        answer == request[t].answer
    IN  CASE answer = "session" -> "none"
          [] answer = "email_already_registered" /\ form = "register" -> "login"
          [] answer = "invalid_credentials" /\ form = "login" -> "refused"
          [] answer = "logged_out" /\ form = "none" -> "login"
          [] answer = "not_authenticated" /\ form = "none"
                /\ request[t].token = session_token(p) -> "login"
          [] OTHER -> form

\* Set-Cookie, whatever cookie the browser has by now.
CookieAfter(t) ==
    CASE request[t].answer = "session" -> [token |-> request[t].token, until |-> now + Ttl]
      [] request[t].answer = "logged_out" -> NoCookie
      [] OTHER -> browser[person[t]].cookie

Receive(t) ==
    /\ At(t, "answer")
    /\ browser' = [browser EXCEPT ![person[t]] = [cookie |-> CookieAfter(t),
                                                    form |-> FormAfter(t)]]
    /\ Step(t, Idle)
    /\ UNCHANGED <<fixed, app_user, session, signedOut, now, faults, logouts>>

\* The database is unavailable, or the answer is lost: what was committed stays.
Fail(t) ==
    /\ ~At(t, "idle") /\ faults < FaultLimit
    /\ faults' = faults + 1
    /\ Step(t, Idle)
    /\ UNCHANGED <<fixed, app_user, session, browser, signedOut, now, logouts>>

Tick ==
    /\ now < TimeLimit
    /\ now' = now + 1
    /\ UNCHANGED <<fixed, app_user, session, browser, request, signedOut, faults, logouts>>

-----------------------------------------------------------------------------
Handle(t) ==
    register(t) \/ login(t) \/ IssueSession(t) \/ create_session(t) \/ me(t) \/ logout(t)

Next ==
    \/ \E t \in Tabs : SendForm(t) \/ SendMe(t) \/ SendLogout(t)
    \/ \E t \in Tabs : Handle(t) \/ Receive(t) \/ Fail(t)
    \/ Tick

Spec == Init /\ [][Next]_vars

\* Requests are handled and answered; a person whose form is open sends it
\* again, and one whose session is gone notices it.
Fairness ==
    /\ \A t \in Tabs : WF_vars(Handle(t) \/ Receive(t))
    /\ \A p \in People :
          WF_vars(\E t \in Tabs : person[t] = p /\ (SendForm(t) \/ SendMe(t)))

FairSpec == Spec /\ Fairness

-----------------------------------------------------------------------------
(* Properties *)

\* Whoever holds a cookie has typed the password of the account that it is a
\* session of, however many people or tabs register one address at once, and
\* whatever failed between the account and its first session.
OnlyOwnersSignIn ==
    \A p \in People : browser[p].cookie.token # 0 =>
        LET s == session[browser[p].cookie.token]
        IN  s.user = address[p] /\ app_user[s.user] = p

\* Once a logout is answered the token that it was sent with never signs in
\* anybody again, though another tab may have sent it too.
SignedOutStaysOut == \A token \in signedOut : get_session_user(token) = NoOne

SignedIn(p) == get_session_user(session_token(p)) # NoOne

\* Nobody is locked out: registering, and signing in where that is refused,
\* ends in a session, however the address is typed and though requests fail
\* halfway; unless the account is another person's.
OwnersGetIn ==
    \A p \in People :
        (\E t \in Tabs : person[t] = p) /\ browser[p].form \in {"register", "login"} ~>
        \/ SignedIn(p)
        \/ browser[p].form = "refused" /\ app_user[address[p]] \notin {NoOne, p}

=============================================================================
