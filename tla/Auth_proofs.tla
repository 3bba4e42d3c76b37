---------------------------- MODULE Auth_proofs ----------------------------
(***************************************************************************)
(* Theorems about Auth for every number of people, addresses and tabs,     *)
(* whoever shares them, and with any number of failures and lost answers.  *)
(***************************************************************************)
EXTENDS Auth, TLAPS

-----------------------------------------------------------------------------
(* Types *)

Sessions == [user : Addresses, expires : Nat, revoked : BOOLEAN]
Browsers == [cookie : [token : Nat, until : Nat], form : {"register", "login", "none", "refused"}]
Steps == {"idle", "register", "login", "issue", "insert", "me", "logout", "answer"}
Answers == {"none", "session", "email_already_registered", "invalid_credentials",
            "user", "not_authenticated", "logged_out"}
Requests == [step : Steps, email : {<<>>} \cup (Addresses \X Spellings),
             user : Addresses \cup {NoOne}, token : Nat, expires : Nat, answer : Answers]

AuthTypeOK ==
    /\ address \in [People -> Addresses]
    /\ person \in [Tabs -> People]
    /\ app_user \in [Addresses -> People \cup {NoOne}]
    /\ session \in Seq(Sessions)
    /\ browser \in [People -> Browsers]
    /\ request \in [Tabs -> Requests]
    /\ now \in Nat

-----------------------------------------------------------------------------
(* The inductive invariant *)

\* The token is of a session of the account of p, which p has made.
Owns(p, token) ==
    /\ token \in 1..Len(session)
    /\ session[token].user = address[p]
    /\ app_user[address[p]] = p

\* What a request may rely on at each step, where what it checked is stale.
RequestKnows(t) ==
    /\ request[t].step \in {"register", "login"} =>
          /\ request[t].email \in Addresses \X Spellings
          /\ request[t].email[1] = address[person[t]]
    /\ request[t].step \in {"issue", "insert"} =>
          /\ request[t].user = address[person[t]]
          /\ app_user[address[person[t]]] = person[t]
    /\ request[t].token \in 0..Len(session)
    /\ request[t].step = "answer" /\ request[t].answer = "session" =>
          Owns(person[t], request[t].token)

RequestsKnow == \A t \in Tabs : RequestKnows(t)

CookiesKnow ==
    \A p \in People : browser[p].cookie.token # 0 => Owns(p, browser[p].cookie.token)

SignedOutIsRevoked ==
    \A token \in signedOut : token \in 1..Len(session) /\ session[token].revoked

IInv ==
    /\ AuthTypeOK
    /\ RequestsKnow
    /\ CookiesKnow
    /\ SignedOutIsRevoked

\* An account keeps its owner, a session its account, and a revoked one stays
\* revoked.
Grows ==
    /\ address' = address /\ person' = person
    /\ \A a \in Addresses : app_user[a] # NoOne => app_user'[a] = app_user[a]
    /\ Len(session) \in Nat /\ Len(session') \in Nat /\ Len(session) <= Len(session')
    /\ \A i \in 1..Len(session) :
          /\ session'[i].user = session[i].user
          /\ session[i].revoked => session'[i].revoked

-----------------------------------------------------------------------------
(* Steps *)

\* The start state is one of the invariant.
LEMMA InvInit == Init => IInv
<1> SUFFICES ASSUME Init PROVE IInv
  OBVIOUS
<1>1. AuthTypeOK
  BY AuthAssumption DEF Init, AuthTypeOK, Sessions, Browsers, NewBrowser, NoCookie, Requests,
     Idle, Steps, Answers
<1>2. RequestsKnow /\ CookiesKnow /\ SignedOutIsRevoked
  BY DEF Init, RequestsKnow, RequestKnows, CookiesKnow, SignedOutIsRevoked, NewBrowser,
     NoCookie, Idle
<1>3. QED
  BY <1>1, <1>2 DEF IInv

\* A row is appended to auth_session, and the rows before it stay.
LEMMA Appended ==
  ASSUME NEW s \in Seq(Sessions), NEW x \in Sessions
  PROVE  /\ Append(s, x) \in Seq(Sessions)
         /\ Len(Append(s, x)) = Len(s) + 1 /\ Len(s) \in Nat
         /\ \A i \in 1..Len(s) : Append(s, x)[i] = s[i]
         /\ Append(s, x)[Len(s) + 1] = x
  OBVIOUS

\* Revoking a session keeps the rows of all.
LEMMA Revoked ==
  ASSUME session \in Seq(Sessions), NEW token,
         session' = [i \in DOMAIN session |->
            IF i = token THEN [session[i] EXCEPT !.revoked = TRUE] ELSE session[i]]
  PROVE  /\ session' \in Seq(Sessions)
         /\ Len(session') = Len(session) /\ Len(session) \in Nat
         /\ \A i \in 1..Len(session) :
               /\ session'[i].user = session[i].user
               /\ session[i].revoked \/ i = token => session'[i].revoked
<1>1. DOMAIN session = 1..Len(session) /\ Len(session) \in Nat
  OBVIOUS
<1>2. \A i \in 1..Len(session) : session[i] \in Sessions
  OBVIOUS
<1>3. \A i \in 1..Len(session) : session'[i] \in Sessions
  BY <1>1, <1>2 DEF Sessions
<1>4. session' \in [1..Len(session) -> Sessions]
  BY <1>1, <1>3
<1>5. session' \in Seq(Sessions) /\ Len(session') = Len(session)
  BY <1>1, <1>4
<1>6. \A i \in 1..Len(session) :
         /\ session'[i].user = session[i].user
         /\ session[i].revoked \/ i = token => session'[i].revoked
  BY <1>1, <1>2 DEF Sessions
<1>7. QED
  BY <1>1, <1>5, <1>6

\* A tab takes a step, and nothing else is changed but what the action says.
LEMMA OneTab ==
  ASSUME AuthTypeOK, NEW t \in Tabs, NEW new \in Requests, Step(t, new)
  PROVE  /\ request' \in [Tabs -> Requests]
         /\ request'[t] = new
         /\ \A u \in Tabs : u # t => request'[u] = request[u]
  BY DEF AuthTypeOK, Step

\* A request that is not under way is a request.
LEMMA IdleType ==
  /\ Idle \in Requests
  /\ Idle.user = NoOne /\ Idle.token = 0 /\ Idle.expires = 0 /\ Idle.answer = "none"
  /\ Idle.step = "idle"
  BY DEF Idle, Requests, Steps, Answers

\* What is owned stays owned.
LEMMA OwnsKept ==
  ASSUME AuthTypeOK, Grows
  PROVE  \A p \in People : \A token : Owns(p, token) =>
            /\ token \in 1..Len(session')
            /\ session'[token].user = address'[p]
            /\ app_user'[address'[p]] = p
<1> SUFFICES ASSUME NEW p \in People, NEW token, Owns(p, token)
             PROVE  /\ token \in 1..Len(session')
                    /\ session'[token].user = address'[p]
                    /\ app_user'[address'[p]] = p
  OBVIOUS
<1>1. address[p] \in Addresses /\ app_user[address[p]] # NoOne
  BY AuthAssumption DEF AuthTypeOK, Owns
<1>2. token \in 1..Len(session')
  BY DEF Grows, Owns
<1>3. QED
  BY <1>1, <1>2 DEF Grows, Owns

\* A request that takes no step knows what it knew.
LEMMA RequestKept ==
  ASSUME IInv, Grows, NEW t \in Tabs, request'[t] = request[t]
  PROVE  RequestKnows(t)'
<1>1. RequestKnows(t) /\ AuthTypeOK
  BY DEF IInv, RequestsKnow
<1>2. person[t] \in People /\ address[person[t]] \in Addresses
  BY <1>1 DEF AuthTypeOK
<1>3. request'[t].token \in 0..Len(session')
  BY <1>1 DEF RequestKnows, Grows
<1>4. request'[t].step \in {"issue", "insert"} => app_user'[address[person[t]]] = person[t]
  BY <1>1, <1>2, AuthAssumption DEF RequestKnows, Grows
<1>5. request'[t].step = "answer" /\ request'[t].answer = "session" =>
         /\ request'[t].token \in 1..Len(session')
         /\ session'[request'[t].token].user = address'[person[t]]
         /\ app_user'[address'[person[t]]] = person[t]
  BY <1>1, <1>2, OwnsKept DEF RequestKnows
<1>6. QED
  BY <1>1, <1>3, <1>4, <1>5 DEF RequestKnows, Grows, Owns

\* The person sends a form, or asks who is signed in, or signs out.
LEMMA Sent ==
  ASSUME IInv, NEW t \in Tabs, SendForm(t) \/ SendMe(t) \/ SendLogout(t)
  PROVE  AuthTypeOK' /\ Grows /\ RequestKnows(t)' /\ UNCHANGED <<browser, session, signedOut>>
         /\ \A u \in Tabs : u # t => request'[u] = request[u]
<1> DEFINE p == person[t]
<1>1. /\ AuthTypeOK /\ p \in People /\ address[p] \in Addresses
      /\ Len(session) \in Nat
  BY DEF IInv, AuthTypeOK
<1>2. session_token(p) \in 0..Len(session)
  BY <1>1 DEF session_token, IInv, CookiesKnow, Owns
<1>3. Grows /\ UNCHANGED <<browser, session, signedOut>>
  <2>1. UNCHANGED <<address, person, app_user, session, browser, signedOut>>
    BY DEF SendForm, SendMe, SendLogout, fixed
  <2>2. QED
    BY <1>1, <2>1 DEF Grows
<1>4. CASE SendForm(t)
  <2>1. PICK spelling \in Spellings :
           Step(t, [Idle EXCEPT !.step = browser[p].form, !.email = <<address[p], spelling>>])
    BY <1>4 DEF SendForm
  <2> DEFINE new == [Idle EXCEPT !.step = browser[p].form, !.email = <<address[p], spelling>>]
  <2>2. browser[p].form \in {"register", "login"}
    BY <1>4 DEF SendForm
  <2>3. /\ [Idle EXCEPT !.step = browser[p].form] \in Requests
        /\ <<address[p], spelling>> \in Addresses \X Spellings
    BY <1>1, <2>2, IdleType DEF Requests, Steps
  <2>4. /\ new \in Requests
        /\ new.step = browser[p].form /\ new.token = 0 /\ new.answer = "none"
        /\ new.email = <<address[p], spelling>>
    BY <1>1, <2>2, <2>3, IdleType DEF Requests, Steps
  <2>5. /\ request' \in [Tabs -> Requests] /\ request'[t] = new
        /\ \A u \in Tabs : u # t => request'[u] = request[u]
    BY <1>1, <2>1, <2>4, OneTab
  <2>6. AuthTypeOK'
    BY <1>1, <1>4, <2>5 DEF AuthTypeOK, SendForm, fixed
  <2>7. new.email \in Addresses \X Spellings /\ new.email[1] = address[p]
    BY <1>1, <2>4
  <2>8. RequestKnows(t)'
    BY <1>1, <1>3, <2>2, <2>4, <2>5, <2>7 DEF RequestKnows, Grows
  <2>9. QED
    BY <1>3, <2>5, <2>6, <2>8
<1>5. CASE SendMe(t) \/ SendLogout(t)
  <2>1. PICK step \in {"me", "logout"} :
           Step(t, [Idle EXCEPT !.step = step, !.token = session_token(p)])
    BY <1>5 DEF SendMe, SendLogout
  <2> DEFINE new == [Idle EXCEPT !.step = step, !.token = session_token(p)]
  <2>2. [Idle EXCEPT !.step = step] \in Requests /\ session_token(p) \in Nat
    BY <1>1, <1>2, IdleType DEF Requests, Steps
  <2>3. /\ new \in Requests
        /\ new.step = step /\ new.token = session_token(p) /\ new.answer = "none"
    BY <2>2, IdleType DEF Requests, Steps
  <2>4. /\ request' \in [Tabs -> Requests] /\ request'[t] = new
        /\ \A u \in Tabs : u # t => request'[u] = request[u]
    BY <1>1, <2>1, <2>3, OneTab
  <2>5. AuthTypeOK'
    BY <1>1, <1>5, <2>4 DEF AuthTypeOK, SendMe, SendLogout, fixed
  <2>6. RequestKnows(t)'
    BY <1>1, <1>2, <1>3, <2>3, <2>4 DEF RequestKnows, Grows
  <2>7. QED
    BY <1>3, <2>4, <2>5, <2>6
<1>6. QED
  BY <1>4, <1>5

\* A handler makes its step towards an answer.
LEMMA Handled ==
  ASSUME IInv, NEW t \in Tabs, Handle(t)
  PROVE  AuthTypeOK' /\ Grows /\ RequestKnows(t)' /\ SignedOutIsRevoked' /\ UNCHANGED browser
         /\ \A u \in Tabs : u # t => request'[u] = request[u]
<1> DEFINE p == person[t]
           r == request[t]
           Others == \A u \in Tabs : u # t => request'[u] = request[u]
<1>1. /\ AuthTypeOK /\ RequestKnows(t) /\ SignedOutIsRevoked
      /\ p \in People /\ address[p] \in Addresses /\ r \in Requests
      /\ session \in Seq(Sessions) /\ Len(session) \in Nat
  BY DEF IInv, AuthTypeOK, RequestsKnow
<1>2. ASSUME NEW answer \in Answers \ {"session"}, Answer(t, answer), person' = person,
             Len(session') = Len(session)
      PROVE  request' \in [Tabs -> Requests] /\ Others /\ RequestKnows(t)'
  <2> DEFINE new == [r EXCEPT !.step = "answer", !.answer = answer]
  <2>1. new \in Requests /\ new.step = "answer" /\ new.answer = answer /\ new.token = r.token
    BY <1>1 DEF Requests, Steps
  <2>2. Step(t, new)
    BY <1>2 DEF Answer
  <2>3. request' \in [Tabs -> Requests] /\ Others /\ request'[t] = new
    BY <1>1, <2>1, <2>2, OneTab
  <2>4. QED
    BY <1>1, <1>2, <2>1, <2>3 DEF RequestKnows
<1>3. ASSUME SessionFor(t, address[p]), UNCHANGED <<person, address, session>>,
             app_user'[address[p]] = p
      PROVE  request' \in [Tabs -> Requests] /\ Others /\ RequestKnows(t)'
  <2> DEFINE new == [r EXCEPT !.step = "issue", !.user = address[p]]
  <2>1. new \in Requests /\ new.step = "issue" /\ new.user = address[p] /\ new.token = r.token
    BY <1>1 DEF Requests, Steps
  <2>2. Step(t, new)
    BY <1>3 DEF SessionFor
  <2>3. request' \in [Tabs -> Requests] /\ Others /\ request'[t] = new
    BY <1>1, <2>1, <2>2, OneTab
  <2>4. QED
    BY <1>1, <1>3, <2>1, <2>3 DEF RequestKnows
<1>4. CASE register(t)
  <2>1. /\ r.email[1] = address[p]
        /\ UNCHANGED <<address, person, session, browser, signedOut, now>>
    BY <1>1, <1>4 DEF register, At, RequestKnows, fixed
  <2>2. CASE /\ app_user[address[p]] = NoOne
             /\ app_user' = [app_user EXCEPT ![address[p]] = p]
             /\ SessionFor(t, address[p])
    <3>1. /\ app_user' \in [Addresses -> People \cup {NoOne}] /\ app_user'[address[p]] = p
          /\ \A a \in Addresses : app_user[a] # NoOne => app_user'[a] = app_user[a]
      BY <1>1, <2>2 DEF AuthTypeOK
    <3>2. QED
      BY <1>1, <1>3, <2>1, <2>2, <3>1 DEF AuthTypeOK, Grows, SignedOutIsRevoked
  <2>3. CASE Answer(t, "email_already_registered") /\ UNCHANGED app_user
    <3>1. request' \in [Tabs -> Requests] /\ Others /\ RequestKnows(t)'
      BY <1>2, <2>1, <2>3 DEF Answers
    <3>2. QED
      BY <1>1, <2>1, <2>3, <3>1 DEF AuthTypeOK, Grows, SignedOutIsRevoked
  <2>4. QED
    BY <1>4, <2>1, <2>2, <2>3 DEF register, _normalize_email
<1>5. CASE login(t)
  <2>1. /\ r.email[1] = address[p]
        /\ UNCHANGED <<address, person, app_user, session, browser, signedOut, now>>
    BY <1>1, <1>5 DEF login, At, RequestKnows, fixed
  <2>2. request' \in [Tabs -> Requests] /\ Others /\ RequestKnows(t)'
    <3>1. CASE app_user[address[p]] = p /\ SessionFor(t, address[p])
      BY <1>3, <2>1, <3>1
    <3>2. CASE Answer(t, "invalid_credentials")
      BY <1>2, <2>1, <3>2 DEF Answers
    <3>3. QED
      BY <1>5, <2>1, <3>1, <3>2 DEF login, get_user_by_email, _normalize_email
  <2>3. QED
    BY <1>1, <2>1, <2>2 DEF AuthTypeOK, Grows, SignedOutIsRevoked
<1>6. CASE IssueSession(t)
  <2> DEFINE new == [r EXCEPT !.step = "insert", !.expires = now + Ttl]
  <2>1. /\ r.step = "issue" /\ Step(t, new)
        /\ UNCHANGED <<address, person, app_user, session, browser, signedOut, now>>
    BY <1>6 DEF IssueSession, At, fixed
  <2>2. now + Ttl \in Nat
    BY <1>1, AuthAssumption DEF AuthTypeOK
  <2>3. new \in Requests /\ new.step = "insert" /\ new.user = r.user /\ new.token = r.token
    BY <1>1, <2>2 DEF Requests, Steps
  <2>4. request' \in [Tabs -> Requests] /\ Others /\ request'[t] = new
    BY <1>1, <2>1, <2>3, OneTab
  <2>5. RequestKnows(t)'
    BY <1>1, <2>1, <2>3, <2>4 DEF RequestKnows
  <2>6. QED
    BY <1>1, <2>1, <2>4, <2>5 DEF AuthTypeOK, Grows, SignedOutIsRevoked
<1>7. CASE create_session(t)
  <2> DEFINE new == [r EXCEPT !.step = "answer", !.answer = "session", !.token = Len(session) + 1]
             answered == [r EXCEPT !.step = "answer"]
             accepted == [answered EXCEPT !.answer = "session"]
             row == [user |-> r.user, expires |-> r.expires, revoked |-> FALSE]
  <2>1. /\ r.step = "insert" /\ Step(t, new) /\ session' = Append(session, row)
        /\ UNCHANGED <<address, person, app_user, browser, signedOut, now>>
    BY <1>7 DEF create_session, At, fixed
  <2>2. r.user = address[p] /\ app_user[address[p]] = p
    BY <1>1, <2>1 DEF RequestKnows
  <2>3. row \in Sessions
    BY <1>1, <2>2 DEF Sessions, Requests
  <2>4. /\ session' \in Seq(Sessions) /\ Len(session') = Len(session) + 1
        /\ \A i \in 1..Len(session) : session'[i] = session[i]
        /\ session'[Len(session) + 1] = row
    BY <1>1, <2>1, <2>3, Appended
  <2>5. /\ answered \in Requests /\ answered.step = "answer"
        /\ accepted \in Requests /\ accepted.step = "answer"
    <3>1. answered \in Requests /\ answered.step = "answer"
      BY <1>1 DEF Requests, Steps
    <3> HIDE DEF answered
    <3>2. QED
      BY <3>1 DEF Requests, Steps, Answers
  <2>6. new \in Requests /\ new.step = "answer" /\ new.token = Len(session) + 1
    <3>1. Len(session) + 1 \in Nat /\ new = [accepted EXCEPT !.token = Len(session) + 1]
      BY <1>1
    <3> HIDE DEF accepted
    <3>2. QED
      BY <2>5, <3>1 DEF Requests, Steps
  <2>7. request' \in [Tabs -> Requests] /\ Others /\ request'[t] = new
    BY <1>1, <2>1, <2>6, OneTab
  <2>8. RequestKnows(t)'
    BY <1>1, <2>1, <2>2, <2>4, <2>6, <2>7 DEF RequestKnows, Owns
  <2>9. Grows /\ SignedOutIsRevoked'
    BY <1>1, <2>1, <2>4 DEF Grows, SignedOutIsRevoked
  <2>10. QED
    BY <1>1, <2>1, <2>4, <2>7, <2>8, <2>9 DEF AuthTypeOK
<1>8. CASE me(t)
  <2>1. UNCHANGED <<address, person, app_user, session, browser, signedOut, now>>
    BY <1>8 DEF me, fixed
  <2>2. Answer(t, "user") \/ Answer(t, "not_authenticated")
    BY <1>8 DEF me
  <2>3. request' \in [Tabs -> Requests] /\ Others /\ RequestKnows(t)'
    BY <1>2, <2>1, <2>2 DEF Answers
  <2>4. QED
    BY <1>1, <2>1, <2>3 DEF AuthTypeOK, Grows, SignedOutIsRevoked
<1>9. CASE logout(t)
  <2> DEFINE token == r.token
  <2>1. /\ Answer(t, "logged_out") /\ signedOut' = signedOut \cup ({token} \ {0})
        /\ session' = [i \in DOMAIN session |->
              IF i = token THEN [session[i] EXCEPT !.revoked = TRUE] ELSE session[i]]
        /\ UNCHANGED <<address, person, app_user, browser, now>>
    BY <1>9 DEF logout, fixed
  <2>2. /\ session' \in Seq(Sessions) /\ Len(session') = Len(session)
        /\ \A i \in 1..Len(session) :
              /\ session'[i].user = session[i].user
              /\ session[i].revoked \/ i = token => session'[i].revoked
    BY <1>1, <2>1, Revoked
  <2>3. request' \in [Tabs -> Requests] /\ Others /\ RequestKnows(t)'
    BY <1>2, <2>1, <2>2 DEF Answers
  <2>4. token \in 0..Len(session)
    BY <1>1 DEF RequestKnows
  <2>5. Grows /\ SignedOutIsRevoked'
    BY <1>1, <2>1, <2>2, <2>4 DEF Grows, SignedOutIsRevoked
  <2>6. QED
    BY <1>1, <2>1, <2>2, <2>3, <2>5 DEF AuthTypeOK
<1>10. QED
  BY <1>4, <1>5, <1>6, <1>7, <1>8, <1>9 DEF Handle

\* An answer arrives, and with it the cookie of a session that the person owns,
\* or none.
LEMMA Received ==
  ASSUME IInv, NEW t \in Tabs, Receive(t)
  PROVE  AuthTypeOK' /\ Grows /\ RequestKnows(t)' /\ CookiesKnow'
         /\ UNCHANGED <<session, signedOut>>
         /\ \A u \in Tabs : u # t => request'[u] = request[u]
<1> DEFINE p == person[t]
           new == [cookie |-> CookieAfter(t), form |-> FormAfter(t)]
<1>1. /\ AuthTypeOK /\ RequestKnows(t) /\ CookiesKnow
      /\ p \in People /\ address[p] \in Addresses /\ request[t] \in Requests
      /\ browser[p] \in Browsers /\ Len(session) \in Nat
  BY DEF IInv, AuthTypeOK, RequestsKnow
<1>2. /\ request[t].step = "answer" /\ Step(t, Idle)
      /\ browser' = [browser EXCEPT ![p] = new]
      /\ UNCHANGED <<address, person, app_user, session, signedOut, now>>
  BY DEF Receive, At, fixed
<1>3. /\ request' \in [Tabs -> Requests] /\ request'[t] = Idle
      /\ \A u \in Tabs : u # t => request'[u] = request[u]
  BY <1>1, <1>2, OneTab, IdleType
<1>4. CookieAfter(t) \in [token : Nat, until : Nat]
  BY <1>1, AuthAssumption DEF CookieAfter, NoCookie, AuthTypeOK, Requests, Browsers
<1>5. FormAfter(t) \in {"register", "login", "none", "refused"}
  BY <1>1 DEF FormAfter, Browsers
<1>6. AuthTypeOK'
  <2>1. new \in Browsers
    BY <1>4, <1>5 DEF Browsers
  <2>2. browser' \in [People -> Browsers]
    BY <1>1, <1>2, <2>1 DEF AuthTypeOK
  <2>3. QED
    BY <1>1, <1>2, <1>3, <2>2 DEF AuthTypeOK
<1>7. Grows
  BY <1>1, <1>2 DEF Grows
<1>8. RequestKnows(t)'
  BY <1>1, <1>2, <1>3, IdleType DEF RequestKnows
<1>9. CookiesKnow'
  <2> SUFFICES ASSUME NEW q \in People, browser'[q].cookie.token # 0
               PROVE  Owns(q, browser'[q].cookie.token)
    BY <1>2 DEF CookiesKnow, Owns
  <2>1. CASE q # p
    BY <1>1, <1>2, <2>1 DEF AuthTypeOK, CookiesKnow
  <2>2. CASE q = p
    <3>1. browser'[q].cookie = CookieAfter(t)
      BY <1>1, <1>2, <2>2 DEF AuthTypeOK
    <3>2. CASE request[t].answer = "session"
      BY <1>1, <1>2, <2>2, <3>1, <3>2 DEF CookieAfter, RequestKnows
    <3>3. CASE request[t].answer = "logged_out"
      BY <3>1, <3>3 DEF CookieAfter, NoCookie
    <3>4. CASE request[t].answer \notin {"session", "logged_out"}
      BY <1>1, <2>2, <3>1, <3>4 DEF CookieAfter, CookiesKnow
    <3>5. QED
      BY <3>2, <3>3, <3>4
  <2>3. QED
    BY <2>1, <2>2
<1>10. QED
  BY <1>2, <1>3, <1>6, <1>7, <1>8, <1>9

\* A request fails, or its answer is lost.
LEMMA Failed ==
  ASSUME IInv, NEW t \in Tabs, Fail(t)
  PROVE  AuthTypeOK' /\ Grows /\ RequestKnows(t)' /\ UNCHANGED <<browser, session, signedOut>>
         /\ \A u \in Tabs : u # t => request'[u] = request[u]
<1>1. AuthTypeOK /\ Len(session) \in Nat
  BY DEF IInv, AuthTypeOK
<1>2. /\ Step(t, Idle)
      /\ UNCHANGED <<address, person, app_user, session, browser, signedOut, now>>
  BY DEF Fail, fixed
<1>3. /\ request' \in [Tabs -> Requests] /\ request'[t] = Idle
      /\ \A u \in Tabs : u # t => request'[u] = request[u]
  BY <1>1, <1>2, OneTab, IdleType
<1>4. RequestKnows(t)'
  BY <1>1, <1>2, <1>3, IdleType DEF RequestKnows
<1>5. QED
  BY <1>1, <1>2, <1>3, <1>4 DEF AuthTypeOK, Grows

\* The cookies of a browser that takes no answer are of sessions it owns, still.
LEMMA CookiesKept ==
  ASSUME IInv, Grows, UNCHANGED browser
  PROVE  CookiesKnow'
  BY OwnsKept DEF IInv, CookiesKnow, Owns

\* The invariant is inductive.
LEMMA InvNext == IInv /\ [Next]_vars => IInv'
<1> SUFFICES ASSUME IInv, [Next]_vars PROVE IInv'
  OBVIOUS
<1>1. ASSUME NEW t \in Tabs, SendForm(t) \/ SendMe(t) \/ SendLogout(t)
      PROVE  IInv'
  <2>1. /\ AuthTypeOK' /\ Grows /\ RequestKnows(t)' /\ UNCHANGED <<browser, session, signedOut>>
        /\ \A u \in Tabs : u # t => request'[u] = request[u]
    BY <1>1, Sent
  <2>2. RequestsKnow'
    BY <2>1, RequestKept DEF RequestsKnow
  <2>3. CookiesKnow' /\ SignedOutIsRevoked'
    BY <2>1, CookiesKept DEF IInv, SignedOutIsRevoked
  <2>4. QED
    BY <2>1, <2>2, <2>3 DEF IInv
<1>2. ASSUME NEW t \in Tabs, Handle(t)
      PROVE  IInv'
  <2>1. /\ AuthTypeOK' /\ Grows /\ RequestKnows(t)' /\ SignedOutIsRevoked' /\ UNCHANGED browser
        /\ \A u \in Tabs : u # t => request'[u] = request[u]
    BY <1>2, Handled
  <2>2. RequestsKnow'
    BY <2>1, RequestKept DEF RequestsKnow
  <2>3. QED
    BY <2>1, <2>2, CookiesKept DEF IInv
<1>3. ASSUME NEW t \in Tabs, Receive(t)
      PROVE  IInv'
  <2>1. /\ AuthTypeOK' /\ Grows /\ RequestKnows(t)' /\ CookiesKnow'
        /\ UNCHANGED <<session, signedOut>>
        /\ \A u \in Tabs : u # t => request'[u] = request[u]
    BY <1>3, Received
  <2>2. RequestsKnow'
    BY <2>1, RequestKept DEF RequestsKnow
  <2>3. SignedOutIsRevoked'
    BY <2>1 DEF IInv, SignedOutIsRevoked
  <2>4. QED
    BY <2>1, <2>2, <2>3 DEF IInv
<1>4. ASSUME NEW t \in Tabs, Fail(t)
      PROVE  IInv'
  <2>1. /\ AuthTypeOK' /\ Grows /\ RequestKnows(t)' /\ UNCHANGED <<browser, session, signedOut>>
        /\ \A u \in Tabs : u # t => request'[u] = request[u]
    BY <1>4, Failed
  <2>2. RequestsKnow'
    BY <2>1, RequestKept DEF RequestsKnow
  <2>3. CookiesKnow' /\ SignedOutIsRevoked'
    BY <2>1, CookiesKept DEF IInv, SignedOutIsRevoked
  <2>4. QED
    BY <2>1, <2>2, <2>3 DEF IInv
<1>5. CASE Tick \/ UNCHANGED vars
  <2>1. UNCHANGED <<address, person, app_user, session, browser, request, signedOut>>
    BY <1>5 DEF Tick, vars, fixed
  <2>2. now' \in Nat
    BY <1>5 DEF IInv, AuthTypeOK, Tick, vars
  <2>3. AuthTypeOK'
    BY <2>1, <2>2 DEF IInv, AuthTypeOK
  <2>4. RequestsKnow' /\ CookiesKnow' /\ SignedOutIsRevoked'
    BY <2>1 DEF IInv, RequestsKnow, RequestKnows, CookiesKnow, SignedOutIsRevoked, Owns
  <2>5. QED
    BY <2>3, <2>4 DEF IInv
<1>6. QED
  BY <1>1, <1>2, <1>3, <1>4, <1>5 DEF Next

\* The invariant holds in every state that is reached.
LEMMA Invariance == Spec => []IInv
  BY InvInit, InvNext, PTL DEF Spec

-----------------------------------------------------------------------------
(* Theorems *)

\* register, login: whoever holds a cookie has typed the password of the account
\* that it is a session of.
THEOREM SessionsAreTheOwners == Spec => []OnlyOwnersSignIn
<1>1. IInv => OnlyOwnersSignIn
  BY DEF IInv, CookiesKnow, Owns, OnlyOwnersSignIn
<1>2. QED
  BY <1>1, Invariance, PTL

\* logout: a token that was signed out never signs in anybody again.
THEOREM SignedOutIsFinal == Spec => []SignedOutStaysOut
<1>1. IInv => SignedOutStaysOut
  BY DEF IInv, SignedOutIsRevoked, SignedOutStaysOut, get_session_user
<1>2. QED
  BY <1>1, Invariance, PTL

=============================================================================
