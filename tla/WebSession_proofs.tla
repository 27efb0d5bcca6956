-------------------------- MODULE WebSession_proofs --------------------------
(***************************************************************************)
(* Theorems about WebSession: for any set of users, any number of requests *)
(* under way and any number of faults.                                     *)
(***************************************************************************)
EXTENDS WebSession, TLAPS

\* The probe is sent with a new document, whose requests are all before it.
ProbeAlone ==
    \A s \in Slots : net[s].kind = "probe" =>
        /\ authRequired = "unknown"
        /\ \A t \in Slots \ {s} : net[t].kind = "none" \/ net[t].use = "gone"

\* Only a request that switches the login on is served in several steps.
OnlyEnableIsPartial == \A s \in Slots : net[s].at \in Partial => net[s].kind = "enable"

\* What an older document has left behind are changes.
GoneIsChange ==
    \A s \in Slots : net[s].use = "gone" => net[s].kind \in Changes \union {"none"}

\* The form Login sends what was typed into it.
LoginHasCreds == \A s \in Slots : net[s].kind = "login" => net[s].as # Nobody

\* How far the login in the database has come: LoginIsOfOneRequest is not
\* inductive without what the request under way has written.
LoginSoFar ==
    torn \/
        /\ \A s \in Slots : net[s].at = "user" => config.user = net[s].arg
        /\ \A s \in Slots : net[s].at = "pass" => config.user = config.pass
        /\ \A s, t \in Slots : net[s].at \in Partial /\ net[t].at \in Partial => s = t
        /\ (\A s \in Slots : net[s].at \notin Partial) => config.user = config.pass

SessionInv ==
    /\ SessionTypeOK /\ ProbeAlone /\ OnlyEnableIsPartial /\ LoginHasCreds /\ GoneIsChange
    /\ StorageKeepsTheSession /\ LoginFormRecovers /\ LoginSoFar

\* What is put into a slot is a request.
LEMMA RequestFacts ==
    /\ NoRequest \in Request /\ Unknown \in Known
    /\ \A kind \in Reads \union Changes, as, arg \in Users : Ask(kind, as, arg) \in Request
  BY DEF NoRequest, Ask, Request, Known, Unknown, Users, Reads, Changes, Saves, Answers

USE DEF Reads, Changes, Saves, Partial, Answers

Requests == net \in [Slots -> Request]

\* An answer changes neither what a request is nor who waits for it.
LEMMA AnswerFacts ==
    ASSUME Requests, NEW s \in Slots, NEW a \in Answers, NEW d \in Known, Answer(s, a, d)
    PROVE  /\ Requests'
           /\ \A t \in Slots : net'[t].kind = net[t].kind /\ net'[t].use = net[t].use
           /\ net'[s].at = a /\ (net[s].kind = "login" => net'[s].as = net[s].as)
           /\ \A t \in Slots \ {s} : net'[t] = net[t]
<1> DEFINE r == [net[s] EXCEPT !.at = a, !.arg = Nobody, !.data = d,
                               !.as = IF net[s].kind = "login" THEN @ ELSE Nobody]
<1>1. net' = [net EXCEPT ![s] = r]
  BY DEF Answer, Requests
<1>2. r \in Request /\ r.kind = net[s].kind /\ r.use = net[s].use /\ r.at = a
      /\ (net[s].kind = "login" => r.as = net[s].as)
  BY DEF Request, Requests, Users
<1> HIDE DEF r
<1> QED
  BY <1>1, <1>2 DEF Requests

\* A slot is freed.
LEMMA FreedFacts ==
    ASSUME Requests, NEW s \in Slots
    PROVE  /\ Freed(s) \in [Slots -> Request]
           /\ Freed(s)[s] = NoRequest
           /\ \A t \in Slots \ {s} : Freed(s)[t] = net[t]
  BY RequestFacts DEF Freed, Requests

\* A request is sent.
LEMMA SentFacts ==
    ASSUME Requests, NEW kind \in Reads \union Changes, NEW as \in Users,
           NEW arg \in Users, Sent(kind, as, arg)
    PROVE  /\ Requests'
           /\ \E s \in Slots :
                  /\ net[s].kind = "none" /\ net'[s] = Ask(kind, as, arg)
                  /\ \A t \in Slots \ {s} : net'[t] = net[t]
  BY RequestFacts DEF Sent, Next_free, Free, Requests

\* The application closes.
LEMMA UnmountedFacts ==
    ASSUME NEW n \in [Slots -> Request]
    PROVE  /\ Unmounted(n) \in [Slots -> Request]
           /\ \A t \in Slots :
                  /\ Unmounted(n)[t].use # "token"
                  /\ Unmounted(n)[t].kind = n[t].kind
                  /\ Unmounted(n)[t].at = n[t].at /\ Unmounted(n)[t].arg = n[t].arg
                  /\ n[t].kind \notin Changes /\ n[t].use # "token" => Unmounted(n)[t] = n[t]
                  /\ n[t].use = "gone" => Unmounted(n)[t].use = "gone"
  BY DEF Unmounted, Request

\* Types, and who waits for a token: every step keeps both.
LEMMA TypeStep ==
    ASSUME SessionTypeOK, ProbeAlone, LoginHasCreds, [Next]_vars
    PROVE  SessionTypeOK'
<1> USE RequestFacts DEF SessionTypeOK, tabVars, view, Requests
<1>1. ASSUME NEW kind \in Reads \union Changes, NEW as \in Users, NEW arg \in Users,
             Sent(kind, as, arg), UNCHANGED <<config, tabVars, known, troubles, torn>>,
             busy' \in BOOLEAN
      PROVE  SessionTypeOK'
  <2>1. PICK s \in Slots : net' = [net EXCEPT ![s] = Ask(kind, as, arg)]
    BY <1>1 DEF Sent
  <2>2. Requests'
    BY <1>1, SentFacts
  <2>3. net'[s].use = "page"
    BY <2>1 DEF Ask
  <2>4. \A t \in Slots : net'[t].use = "token" => net'[t].kind = "settings" /\ view = "app"
    BY <2>1, <2>3
  <2> QED
    BY <1>1, <2>2, <2>4
<1>2. ASSUME Logout PROVE SessionTypeOK'
  BY <1>2, UnmountedFacts DEF Logout, Cleared, Users
<1>3. ASSUME Reload PROVE SessionTypeOK'
  <2> DEFINE left == [s \in Slots |->
               IF net[s].kind \in Changes /\ net[s].at \in {"sent"} \union Partial
               THEN [net[s] EXCEPT !.use = "gone"] ELSE NoRequest]
  <2>1. /\ left \in [Slots -> Request]
        /\ \A s \in Slots : left[s].use = "gone"
    BY DEF Request, NoRequest
  <2>2. \E s \in Slots : net' = [left EXCEPT ![s] = Ask("probe", Nobody, Nobody)]
    BY <1>3 DEF Reload
  <2> HIDE DEF left
  <2>3. Ask("probe", Nobody, Nobody) \in Request /\ Ask("probe", Nobody, Nobody).use = "page"
    BY DEF Users, Ask
  <2>4. Requests' /\ \A s \in Slots : net'[s].use # "token"
    BY <2>1, <2>2, <2>3
  <2> QED
    BY <1>3, <2>4 DEF Reload, Users
<1>4. ASSUME NEW s \in Slots, NEW a \in Answers, NEW d \in Known, Answer(s, a, d),
             UNCHANGED <<tabVars, known, busy>>, config' \in Configs,
             troubles' \in 0 .. MaxTroubles, torn' \in BOOLEAN
      PROVE  SessionTypeOK'
  BY <1>4, AnswerFacts
<1>5. ASSUME NEW s \in Slots, Refuse(s) \/ ServeRead(s) PROVE SessionTypeOK'
  <2>1. [uiAuth |-> config.uiAuth, token |-> config.token, loaded |-> TRUE] \in Known
    BY DEF Known, Configs
  <2>2. \E a \in Answers, d \in Known : Answer(s, a, d)
    BY <1>5, <2>1 DEF Refuse, ServeRead, Answered
  <2> QED
    BY <1>4, <1>5, <2>2 DEF Refuse, ServeRead
<1>6. ASSUME NEW s \in Slots, SaveUser(s) \/ SavePass(s) PROVE SessionTypeOK'
  <2>1. config' \in Configs
    BY <1>6 DEF SaveUser, SavePass, Configs, Request
  <2>2. \E at \in Partial : net' = [net EXCEPT ![s] = [net[s] EXCEPT !.at = at]]
    BY <1>6 DEF SaveUser, SavePass, Written
  <2>3. \A at \in Partial : LET r == [net[s] EXCEPT !.at = at] IN
            r \in Request /\ r.kind = net[s].kind /\ r.use = net[s].use
    BY DEF Request
  <2>4. /\ Requests'
        /\ \A t \in Slots : net'[t].kind = net[t].kind /\ net'[t].use = net[t].use
    BY <2>2, <2>3
  <2>5. UNCHANGED <<tabVars, known, busy, troubles>> /\ torn' \in BOOLEAN
    BY <1>6 DEF SaveUser, SavePass
  <2> QED
    BY <2>1, <2>4, <2>5
<1>7. ASSUME NEW s \in Slots, SaveSwitch(s) \/ SaveToken(s) PROVE SessionTypeOK'
  <2>1. config' \in Configs
    BY <1>7 DEF SaveSwitch, SaveToken, Configs
  <2> QED
    BY <1>4, <1>7, <2>1 DEF SaveSwitch, SaveToken, Answered
<1>8. ASSUME NEW s \in Slots, Fail(s) PROVE SessionTypeOK'
  <2>1. troubles' \in 0 .. MaxTroubles /\ torn' \in BOOLEAN
    BY <1>8, LimitsAssumption DEF Fail
  <2> QED
    BY <1>4, <1>8, <2>1 DEF Fail, Answered
<1>9. ASSUME Reconfigure PROVE SessionTypeOK'
  BY <1>9, LimitsAssumption DEF Reconfigure, Configs
<1>10. ASSUME NEW s \in Slots, ProbeAnswer(s) PROVE SessionTypeOK'
  <2>1. \A t \in Slots : Freed(s)[t].use # "token"
    BY <1>10, FreedFacts DEF ProbeAnswer, Arrived, ProbeAlone, NoRequest
  <2> QED
    BY <1>10, <2>1, FreedFacts DEF ProbeAnswer
<1>11. ASSUME NEW s \in Slots, LoginAnswer(s) PROVE SessionTypeOK'
  <2>1. net[s].as \in Users
    BY DEF Request
  <2>2. \A t \in Slots : Freed(s)[t].use = "token" =>
            net[t].use = "token" /\ Freed(s)[t].kind = net[t].kind
    BY FreedFacts DEF NoRequest
  <2>3. CASE net[s].at = "ok"
    <3>1. credentials' \in Users /\ stored' \in Users /\ authRequired' = "yes"
      BY <1>11, <2>1, <2>3 DEF LoginAnswer, Entered
    <3>2. \A t \in Slots : net[t].use = "token" => view' = "app"
      BY <1>11, <2>3, <3>1 DEF LoginAnswer, Entered, Arrived, LoginHasCreds
    <3> QED
      BY <1>11, <2>2, <3>1, <3>2, FreedFacts DEF LoginAnswer, LoadingOver
  <2>4. CASE net[s].at # "ok"
    BY <1>11, <2>2, <2>4, FreedFacts DEF LoginAnswer, LoadingOver
  <2> QED
    BY <2>3, <2>4
<1>12. ASSUME NEW s \in Slots, AuthClear(s) PROVE SessionTypeOK'
  BY <1>12, FreedFacts, UnmountedFacts DEF AuthClear, Cleared, LoadingOver, Users
<1>13. ASSUME NEW s \in Slots, net' = Freed(s), known' \in Known,
              UNCHANGED <<config, tabVars, busy, troubles, torn>>
       PROVE  SessionTypeOK'
  <2>1. \A t \in Slots : Freed(s)[t].use = "token" =>
            net[t].use = "token" /\ Freed(s)[t].kind = net[t].kind
    BY FreedFacts DEF NoRequest
  <2> QED
    BY <1>13, <2>1, FreedFacts
<1>14. ASSUME NEW s \in Slots, ChangeDone(s) PROVE SessionTypeOK'
  <2>1. \A use \in {"page", "token"} :
            [Ask("settings", credentials, Nobody) EXCEPT !.use = use] \in Request
    BY DEF Ask, Request, Users
  <2>2. Refetched(net, s) \in [Slots -> Request]
    BY <2>1 DEF Refetched, Request
  <2>3. \A t \in Slots : Refetched(net, s)[t].use = "token" =>
            Refetched(net, s)[t].kind = "settings" /\ view = "app"
    BY DEF Refetched, NoRequest, Ask, Request
  <2> QED
    BY <1>14, <2>2, <2>3 DEF ChangeDone
<1>15. CASE UNCHANGED vars
  BY <1>15 DEF vars
<1>16. ASSUME User \/ Poll \/ FetchSettings PROVE SessionTypeOK'
  BY <1>1, <1>2, <1>3, <1>16
     DEF User, Poll, FetchSettings, Query, Change, SubmitLogin, HandleEnableAuth,
         HandleDisableAuth, HandleGenerateToken, DeleteToken, Users
<1>17. ASSUME NEW s \in Slots, Receive(s) PROVE SessionTypeOK'
  <2>1. net[s].data \in Known
    BY DEF Request
  <2> QED
    BY <1>10, <1>11, <1>12, <1>13, <1>14, <1>17, <2>1
       DEF Receive, SettingsAnswer, PollAnswer, ChangeFailed, Dropped
<1> QED
  BY <1>5, <1>6, <1>7, <1>8, <1>9, <1>15, <1>16, <1>17 DEF Next, Serve

\* The credentials in use are in sessionStorage: only a login, an answer to
\* the probe and the end of a session touch either.
LEMMA StorageStep ==
    ASSUME SessionTypeOK, StorageKeepsTheSession, [Next]_vars
    PROVE  StorageKeepsTheSession'
<1> USE DEF StorageKeepsTheSession
<1>1. CASE UNCHANGED tabVars
  BY <1>1 DEF tabVars
<1>2. CASE credentials' = Nobody
  BY <1>2
<1>3. ASSUME NEW s \in Slots, ProbeAnswer(s) PROVE StorageKeepsTheSession'
  BY <1>3 DEF ProbeAnswer
<1>4. ASSUME NEW s \in Slots, LoginAnswer(s) PROVE StorageKeepsTheSession'
  BY <1>4 DEF LoginAnswer, Entered, tabVars
<1>5. ASSUME User PROVE UNCHANGED tabVars \/ credentials' = Nobody
  BY <1>5 DEF User, SubmitLogin, HandleEnableAuth, HandleDisableAuth, HandleGenerateToken,
              DeleteToken, Change, Logout, Cleared, Reload
<1>6. ASSUME NEW s \in Slots, Serve(s) \/ Fail(s) PROVE UNCHANGED tabVars
  BY <1>6 DEF Serve, Refuse, ServeRead, SaveUser, SavePass, SaveSwitch, SaveToken, Fail
<1>7. ASSUME NEW s \in Slots, Receive(s), ~ProbeAnswer(s), ~LoginAnswer(s)
      PROVE  UNCHANGED tabVars \/ credentials' = Nobody
  BY <1>7 DEF Receive, AuthClear, Cleared, SettingsAnswer, PollAnswer, ChangeDone,
              ChangeFailed, Dropped
<1>8. ASSUME Poll \/ FetchSettings \/ Reconfigure PROVE UNCHANGED tabVars
  BY <1>8 DEF Poll, FetchSettings, Query, Reconfigure
<1> QED
  BY <1>1, <1>2, <1>3, <1>4, <1>5, <1>6, <1>7, <1>8 DEF Next, vars

\* What the user and the timers do to the requests under way: they send one.
SendsIn(s, kind, as, arg) ==
    /\ net[s].kind = "none" /\ net' = [net EXCEPT ![s] = Ask(kind, as, arg)]
    /\ kind = "login" => as # Nobody
    /\ kind # "login" => busy' = busy
    /\ authRequired # "unknown"
    /\ UNCHANGED <<config, authRequired, torn>>
Sends ==
    \E s \in Slots, kind \in (Reads \ {"probe"}) \union Changes, as \in Users, arg \in Users :
        SendsIn(s, kind, as, arg)

LEMMA UserSends ==
    ASSUME SessionTypeOK, User \/ Poll \/ FetchSettings
    PROVE  Logout \/ Reload \/ Sends
<1> USE DEF Sent, Next_free, Free, SendsIn
<1>0. credentials \in Users /\ Nobody \in Users /\ Creds \subseteq Users
  BY DEF SessionTypeOK, Users
<1>1. ASSUME NEW c \in Creds, SubmitLogin(c) PROVE Sends
  <2>1. c # Nobody /\ authRequired # "unknown"
    BY <1>1, NobodyAssumption DEF SubmitLogin, view
  <2> QED
    BY <1>0, <1>1, <2>1 DEF SubmitLogin, Sends, tabVars
<1>2. ASSUME NEW kind \in {"poll", "settings"}, Query(kind) PROVE Sends
  <2>1. authRequired # "unknown"
    BY <1>2 DEF Query, view
  <2>2. kind \in (Reads \ {"probe"}) \union Changes /\ kind # "login"
    OBVIOUS
  <2>3. PICK s \in Slots :
            net[s].kind = "none" /\ net' = [net EXCEPT ![s] = Ask(kind, credentials, Nobody)]
    BY <1>2 DEF Query
  <2> QED
    BY <1>0, <1>2, <2>1, <2>2, <2>3 DEF Query, Sends, tabVars
<1>3. ASSUME NEW kind \in Changes, NEW arg \in Users, Change(kind, arg) PROVE Sends
  <2>1. authRequired # "unknown"
    BY <1>3 DEF Change, view
  <2>2. kind \in (Reads \ {"probe"}) \union Changes /\ kind # "login"
    OBVIOUS
  <2>3. PICK s \in Slots :
            net[s].kind = "none" /\ net' = [net EXCEPT ![s] = Ask(kind, credentials, arg)]
    BY <1>3 DEF Change
  <2> QED
    BY <1>0, <1>3, <2>1, <2>2, <2>3 DEF Change, Sends, tabVars
<1> QED
  BY <1>0, <1>1, <1>2, <1>3
     DEF User, Poll, FetchSettings, HandleEnableAuth, HandleDisableAuth,
         HandleGenerateToken, DeleteToken

\* What the server does to them: it moves one on.
Serves(s) ==
    /\ net[s].kind # "none"
    /\ net'[s].kind = net[s].kind /\ net'[s].use = net[s].use
    /\ net[s].kind = "login" => net'[s].as = net[s].as
    /\ net'[s].at \in Partial => net[s].kind = "enable"
    /\ \A t \in Slots \ {s} : net'[t] = net[t]
    /\ UNCHANGED <<tabVars, busy>>

LEMMA ServerServes ==
    ASSUME SessionTypeOK, OnlyEnableIsPartial, NEW s \in Slots, Serve(s) \/ Fail(s)
    PROVE  Serves(s)
<1> USE DEF Serves
<1>0. Requests /\ Unknown \in Known
  BY RequestFacts DEF SessionTypeOK, Requests
<1>1. ASSUME NEW a \in Answers, NEW d \in Known, Answer(s, a, d), net[s].kind # "none",
             UNCHANGED <<tabVars, busy>>
      PROVE  Serves(s)
  BY <1>0, <1>1, AnswerFacts
<1>2. ASSUME Refuse(s) \/ ServeRead(s) PROVE Serves(s)
  <2>1. [uiAuth |-> config.uiAuth, token |-> config.token, loaded |-> TRUE] \in Known
    BY DEF SessionTypeOK, Known, Configs
  <2> QED
    BY <1>0, <1>1, <1>2, <2>1 DEF Refuse, ServeRead, Answered, Admitted, Free
<1>3. ASSUME SaveUser(s) \/ SavePass(s) PROVE Serves(s)
  <2>1. \E at \in Partial : net' = [net EXCEPT ![s] = [net[s] EXCEPT !.at = at]]
    BY <1>3 DEF SaveUser, SavePass, Written
  <2>2. net[s].kind = "enable"
    BY <1>3 DEF SaveUser, SavePass, Admitted, OnlyEnableIsPartial
  <2>3. UNCHANGED <<tabVars, busy>>
    BY <1>3 DEF SaveUser, SavePass
  <2>4. \A at \in Partial : LET r == [net[s] EXCEPT !.at = at] IN
            r.kind = net[s].kind /\ r.use = net[s].use
    BY <1>0 DEF Request, Requests
  <2> QED
    BY <1>0, <2>1, <2>2, <2>3, <2>4 DEF Requests
<1>4. ASSUME SaveSwitch(s) \/ SaveToken(s) PROVE Serves(s)
  <2>1. net[s].kind # "none"
    BY <1>4 DEF SaveSwitch, SaveToken, Admitted, OnlyEnableIsPartial
  <2> QED
    BY <1>0, <1>1, <1>4, <2>1 DEF SaveSwitch, SaveToken, Answered
<1>5. ASSUME Fail(s) PROVE Serves(s)
  BY <1>0, <1>1, <1>5 DEF Fail, Answered, Free
<1> QED
  BY <1>2, <1>3, <1>4, <1>5 DEF Serve

\* What an answer that arrives does to them: it frees its slot, which may be
\* used at once for the settings, and at most changes who waits for the others.
Keeps(t) ==
    /\ net'[t].kind = net[t].kind /\ net'[t].at = net[t].at
    /\ net'[t].arg = net[t].arg /\ net'[t].as = net[t].as
    /\ (net'[t].use = "gone") <=> (net[t].use = "gone")
    /\ net[t].kind = "login" => net'[t].use = net[t].use
Receives(s) ==
    /\ net[s].kind # "none" /\ net[s].at \in Answers
    /\ \A t \in Slots \ {s} : Keeps(t)
    /\ \/ net'[s] = NoRequest
       \/ /\ net[s].use # "gone" /\ net[s].kind \in Changes
          /\ net'[s].kind = "settings" /\ net'[s].at = "sent" /\ net'[s].use # "gone"
    /\ net[s].use = "gone" => UNCHANGED authRequired
    /\ busy' => busy
    /\ busy' /\ net[s].kind = "login" => net[s].use # "page"
    /\ UNCHANGED <<config, torn>>

LEMMA AnswerReceived ==
    ASSUME SessionTypeOK, GoneIsChange, NEW s \in Slots, Receive(s)
    PROVE  Receives(s)
<1> USE DEF Receives, Arrived, Keeps
<1>0. Requests /\ NoRequest \in Request /\ (\A t \in Slots : net[t].kind = "login" => net[t].use # "token")
  BY RequestFacts DEF SessionTypeOK, Requests
<1>1. ASSUME net' = Freed(s) PROVE net'[s] = NoRequest /\ \A t \in Slots \ {s} : net'[t] = net[t]
  BY <1>0, <1>1, FreedFacts
<1>2. ASSUME ProbeAnswer(s) PROVE Receives(s)
  BY <1>1, <1>2 DEF ProbeAnswer
<1>3. ASSUME LoginAnswer(s) PROVE Receives(s)
  BY <1>1, <1>3 DEF LoginAnswer, LoadingOver
<1>4. ASSUME AuthClear(s) PROVE Receives(s)
  <2>1. Freed(s) \in [Slots -> Request] /\ Freed(s)[s] = NoRequest
        /\ \A t \in Slots \ {s} : Freed(s)[t] = net[t]
    BY <1>0, FreedFacts
  <2>2. net'[s] = NoRequest
    BY <1>4, <2>1 DEF AuthClear, Unmounted, NoRequest
  <2>3. \A t \in Slots \ {s} : Keeps(t)
    BY <1>0, <1>4, <2>1 DEF AuthClear, Unmounted, Request
  <2> QED
    BY <1>4, <2>2, <2>3 DEF AuthClear, LoadingOver
<1>5. ASSUME SettingsAnswer(s) \/ PollAnswer(s) \/ ChangeFailed(s) PROVE Receives(s)
  BY <1>1, <1>5 DEF SettingsAnswer, PollAnswer, ChangeFailed, tabVars
<1>6. ASSUME ChangeDone(s) PROVE Receives(s)
  <2>1. \A t \in Slots \ {s} : Keeps(t)
    BY <1>0, <1>6 DEF ChangeDone, Refetched, Requests, Request, GoneIsChange
  <2>2. \/ net'[s] = NoRequest
        \/ net'[s].kind = "settings" /\ net'[s].at = "sent" /\ net'[s].use # "gone"
    BY <1>6 DEF ChangeDone, Refetched, Ask
  <2> QED
    BY <1>6, <2>1, <2>2 DEF ChangeDone, tabVars
<1>7. ASSUME Dropped(s) PROVE Receives(s)
  BY <1>1, <1>7 DEF Dropped, Free, tabVars
<1> QED
  BY <1>2, <1>3, <1>4, <1>5, <1>6, <1>7 DEF Receive

\* What a logout and a reload do to them.
LEMMA LogoutKeeps ==
    ASSUME SessionTypeOK, Logout
    PROVE  /\ \A t \in Slots : Keeps(t)
           /\ authRequired # "unknown" /\ UNCHANGED <<config, busy, torn>>
<1>1. \A t \in Slots : Keeps(t)
  BY DEF Logout, Unmounted, Keeps, SessionTypeOK, Request
<1> QED
  BY <1>1 DEF Logout

LEMMA ReloadLeaves ==
    ASSUME SessionTypeOK, Reload
    PROVE  /\ authRequired' = "unknown" /\ busy' = FALSE /\ UNCHANGED <<config, torn>>
           /\ \E p \in Slots :
                  /\ net'[p] = Ask("probe", Nobody, Nobody)
                  /\ net[p].kind \notin Changes \/ net[p].at \notin Partial
                  /\ \A t \in Slots \ {p} :
                        \/ /\ net'[t] = NoRequest
                           /\ net[t].kind \notin Changes \/ net[t].at \notin Partial
                        \/ /\ net[t].kind \in Changes /\ net'[t].use = "gone"
                           /\ net'[t].kind = net[t].kind /\ net'[t].at = net[t].at
                           /\ net'[t].arg = net[t].arg /\ net'[t].as = net[t].as
<1> DEFINE left == [s \in Slots |->
               IF net[s].kind \in Changes /\ net[s].at \in {"sent"} \union Partial
               THEN [net[s] EXCEPT !.use = "gone"] ELSE NoRequest]
<1>1. PICK p \in Slots : left[p].kind = "none" /\ net' = [left EXCEPT ![p] = Ask("probe", Nobody, Nobody)]
  BY DEF Reload
<1>2. \A t \in Slots \ {p} : net'[t] = left[t]
  BY <1>1
<1>3. net'[p] = Ask("probe", Nobody, Nobody)
  BY <1>1
<1>4. net[p].kind \notin Changes \/ net[p].at \notin Partial
  BY <1>1 DEF SessionTypeOK, Request
<1>5. \A t \in Slots \ {p} :
         \/ /\ net'[t] = NoRequest
            /\ net[t].kind \notin Changes \/ net[t].at \notin Partial
         \/ /\ net[t].kind \in Changes /\ net'[t].use = "gone"
            /\ net'[t].kind = net[t].kind /\ net'[t].at = net[t].at
            /\ net'[t].arg = net[t].arg /\ net'[t].as = net[t].as
  BY <1>2 DEF SessionTypeOK, Request
<1> QED
  BY <1>3, <1>4, <1>5 DEF Reload

\* The invariants about the requests under way follow from these shapes.
LEMMA NetStep ==
    ASSUME SessionInv, [Next]_vars
    PROVE  ProbeAlone' /\ OnlyEnableIsPartial' /\ LoginHasCreds' /\ GoneIsChange'
<1> USE DEF SessionInv, ProbeAlone, OnlyEnableIsPartial, LoginHasCreds, GoneIsChange
<1>1. CASE Sends
  <2>1. PICK s \in Slots, kind \in (Reads \ {"probe"}) \union Changes,
             as \in Users, arg \in Users : SendsIn(s, kind, as, arg)
    BY <1>1 DEF Sends
  <2>2. /\ net'[s].kind = kind /\ net'[s].as = as /\ net'[s].at = "sent"
        /\ net'[s].use = "page"
        /\ \A t \in Slots \ {s} : net'[t] = net[t]
    BY <2>1 DEF SendsIn, Ask, SessionTypeOK
  <2> QED
    BY <2>1, <2>2 DEF SendsIn
<1>2. CASE Logout
  BY <1>2, LogoutKeeps DEF Keeps
<1>3. CASE Reload
  BY <1>3, ReloadLeaves DEF Ask, NoRequest
<1>4. ASSUME NEW s \in Slots, Serve(s) \/ Fail(s)
      PROVE  ProbeAlone' /\ OnlyEnableIsPartial' /\ LoginHasCreds' /\ GoneIsChange'
  BY <1>4, ServerServes DEF Serves, tabVars
<1>5. ASSUME NEW s \in Slots, Receive(s)
      PROVE  ProbeAlone' /\ OnlyEnableIsPartial' /\ LoginHasCreds' /\ GoneIsChange'
  <2>1. Receives(s)
    BY <1>5, AnswerReceived
  <2>2. ProbeAlone'
    BY <2>1 DEF Receives, Keeps, NoRequest
  <2> QED
    BY <2>1, <2>2 DEF Receives, Keeps, NoRequest
<1>6. CASE Reconfigure \/ UNCHANGED vars
  BY <1>6 DEF Reconfigure, vars, tabVars
<1> QED
  BY <1>1, <1>2, <1>3, <1>4, <1>5, <1>6, UserSends DEF Next

\* The form Login is never left disabled.
LEMMA BusyStep ==
    ASSUME SessionInv, [Next]_vars
    PROVE  LoginFormRecovers'
<1> USE DEF SessionInv, LoginFormRecovers
<1>1. CASE Sends
  <2>1. PICK s \in Slots, kind \in (Reads \ {"probe"}) \union Changes,
             as \in Users, arg \in Users : SendsIn(s, kind, as, arg)
    BY <1>1 DEF Sends
  <2>2. /\ net'[s].kind = kind /\ net'[s].use = "page"
        /\ \A t \in Slots \ {s} : net'[t] = net[t]
    BY <2>1 DEF SendsIn, Ask, SessionTypeOK
  <2> QED
    BY <2>1, <2>2 DEF SendsIn
<1>2. CASE Logout
  BY <1>2, LogoutKeeps DEF Keeps
<1>3. CASE Reload
  BY <1>3, ReloadLeaves
<1>4. ASSUME NEW s \in Slots, Serve(s) \/ Fail(s) PROVE LoginFormRecovers'
  BY <1>4, ServerServes DEF Serves
<1>5. ASSUME NEW s \in Slots, Receive(s) PROVE LoginFormRecovers'
  BY <1>5, AnswerReceived DEF Receives, Keeps
<1>6. CASE Reconfigure \/ UNCHANGED vars
  BY <1>6 DEF Reconfigure, vars
<1> QED
  BY <1>1, <1>2, <1>3, <1>4, <1>5, <1>6, UserSends DEF Next

\* The two halves of the login: by the step that a request has reached.
LEMMA LoginStep ==
    ASSUME SessionInv, [Next]_vars
    PROVE  LoginSoFar'
<1> USE DEF SessionInv, LoginSoFar, OnlyEnableIsPartial
<1>0. Requests /\ Unknown \in Known
  BY RequestFacts DEF SessionTypeOK, Requests
<1>1. CASE Sends
  <2>1. PICK s \in Slots, kind \in (Reads \ {"probe"}) \union Changes,
             as \in Users, arg \in Users : SendsIn(s, kind, as, arg)
    BY <1>1 DEF Sends
  <2>2. /\ net'[s].at = "sent" /\ net[s].at \notin Partial
        /\ \A t \in Slots \ {s} : net'[t] = net[t]
    BY <2>1 DEF SendsIn, Ask, SessionTypeOK
  <2> QED
    BY <2>1, <2>2 DEF SendsIn
<1>2. CASE Logout
  BY <1>2, LogoutKeeps DEF Keeps
<1>3. CASE Reload
  <2>1. \A t \in Slots :
            \/ net'[t].at = "sent" /\ net[t].at \notin Partial
            \/ net'[t].at = net[t].at /\ net'[t].arg = net[t].arg
    BY <1>3, ReloadLeaves DEF Ask, NoRequest
  <2>2. UNCHANGED <<config, torn>>
    BY <1>3, ReloadLeaves
  <2> QED
    BY <2>1, <2>2
<1>4. ASSUME NEW s \in Slots, NEW a \in Answers, NEW d \in Known, Answer(s, a, d)
      PROVE  net'[s].at = a /\ \A t \in Slots \ {s} : net'[t] = net[t]
  BY <1>0, <1>4, AnswerFacts
<1>5. ASSUME NEW s \in Slots, Refuse(s) \/ ServeRead(s) PROVE LoginSoFar'
  <2>1. [uiAuth |-> config.uiAuth, token |-> config.token, loaded |-> TRUE] \in Known
    BY DEF SessionTypeOK, Known, Configs
  <2>2. net'[s].at \in Answers /\ \A t \in Slots \ {s} : net'[t] = net[t]
    BY <1>0, <1>4, <1>5, <2>1 DEF Refuse, ServeRead, Answered
  <2>3. net[s].at = "sent" /\ UNCHANGED <<config, torn>>
    BY <1>5 DEF Refuse, ServeRead, Admitted
  <2> QED
    BY <2>2, <2>3
<1>6. ASSUME NEW s \in Slots, NEW at \in Partial, Written(s, at)
      PROVE  /\ net'[s].at = at /\ net'[s].arg = net[s].arg
             /\ \A t \in Slots \ {s} : net'[t] = net[t]
  BY <1>0, <1>6 DEF Written, Requests, Request
<1>7. ASSUME NEW s \in Slots, SaveUser(s) PROVE LoginSoFar'
  <2>1. /\ config'.user = net[s].arg /\ config'.pass = config.pass
        /\ torn' = (torn \/ \E t \in Slots : net[t].at \in Partial)
        /\ net[s].at = "sent"
    BY <1>7 DEF SaveUser, Admitted, SessionTypeOK, Configs
  <2>2. /\ net'[s].at = "user" /\ net'[s].arg = net[s].arg
        /\ \A t \in Slots \ {s} : net'[t] = net[t]
    BY <1>6, <1>7 DEF SaveUser
  <2>3. CASE torn \/ \E t \in Slots : net[t].at \in Partial
    BY <2>1, <2>3
  <2>4. CASE \A t \in Slots : net[t].at \notin Partial
    <3>1. \A t \in Slots : net'[t].at \in Partial => t = s
      BY <2>2, <2>4
    <3> QED
      BY <2>1, <2>2, <3>1
  <2> QED
    BY <2>3, <2>4
<1>8. ASSUME NEW s \in Slots, SavePass(s) PROVE LoginSoFar'
  <2>1. /\ config'.pass = net[s].arg /\ config'.user = config.user
        /\ torn' = torn /\ net[s].at = "user"
    BY <1>8 DEF SavePass, SessionTypeOK, Configs
  <2>2. /\ net'[s].at = "pass" /\ net'[s].arg = net[s].arg
        /\ \A t \in Slots \ {s} : net'[t] = net[t]
    BY <1>6, <1>8 DEF SavePass
  <2> QED
    BY <2>1, <2>2
<1>9. ASSUME NEW s \in Slots, SaveSwitch(s) \/ SaveToken(s) PROVE LoginSoFar'
  <2>1. /\ config'.user = config.user /\ config'.pass = config.pass
        /\ torn' = torn /\ net[s].at \in {"pass", "sent"}
    BY <1>9 DEF SaveSwitch, SaveToken, Admitted, SessionTypeOK, Configs
  <2>2. net'[s].at = "ok" /\ \A t \in Slots \ {s} : net'[t] = net[t]
    BY <1>0, <1>4, <1>9 DEF SaveSwitch, SaveToken, Answered
  <2> QED
    BY <2>1, <2>2
<1>10. ASSUME NEW s \in Slots, Fail(s) PROVE LoginSoFar'
  <2>1. config' = config /\ torn' = (torn \/ net[s].at \in Partial)
    BY <1>10 DEF Fail
  <2>2. net'[s].at \in Answers /\ \A t \in Slots \ {s} : net'[t] = net[t]
    BY <1>0, <1>4, <1>10 DEF Fail, Answered
  <2> QED
    BY <2>1, <2>2
<1>11. CASE Reconfigure
  <2>1. torn' = (torn \/ \E t \in Slots : net[t].at \in Partial) /\ net' = net
    BY <1>11 DEF Reconfigure
  <2>2. config'.user = config'.pass
    BY <1>11 DEF Reconfigure
  <2>3. CASE torn \/ \E t \in Slots : net[t].at \in Partial
    BY <2>1, <2>3
  <2>4. CASE \A t \in Slots : net[t].at \notin Partial
    BY <2>1, <2>2, <2>4
  <2> QED
    BY <2>3, <2>4
<1>12. ASSUME NEW s \in Slots, Receive(s) PROVE LoginSoFar'
  BY <1>12, AnswerReceived DEF Receives, Keeps, NoRequest
<1>13. CASE UNCHANGED vars
  BY <1>13 DEF vars
<1> QED
  BY <1>1, <1>2, <1>3, <1>5, <1>7, <1>8, <1>9, <1>10, <1>11, <1>12, <1>13, UserSends
     DEF Next, Serve

\* All of it together is inductive.
THEOREM SessionInductive == Spec => []SessionInv
<1>1. Init => SessionInv
  <2> SUFFICES ASSUME Init PROVE SessionInv
    OBVIOUS
  <2>1. Requests
    BY RequestFacts DEF Init, Requests, Users
  <2>2. \A s \in Slots : /\ net[s].use # "token" /\ net[s].at = "sent"
                         /\ net[s].kind \in {"probe", "none"}
                         /\ net[s].kind = "probe" => s = 1 /\ net[s].use = "page"
    BY DEF Init, Ask, NoRequest
  <2>3. \A s \in Slots : s # 1 => net[s].kind = "none"
    BY DEF Init, NoRequest
  <2>4. SessionTypeOK
    <3>1. config \in Configs
      BY DEF Init, Configs, Users
    <3>2. credentials \in Users /\ stored \in Users /\ troubles \in 0 .. MaxTroubles
      BY LimitsAssumption DEF Init, Users
    <3> QED
      BY <2>1, <2>2, <3>1, <3>2, RequestFacts DEF Init, SessionTypeOK, Requests
  <2>5. \A s \in Slots : net[s].use = "gone" => net[s].kind = "none"
    BY DEF Init, Ask, NoRequest
  <2>6. config.user = config.pass
    BY DEF Init
  <2> QED
    BY <2>2, <2>3, <2>4, <2>5, <2>6
       DEF Init, SessionInv, ProbeAlone, OnlyEnableIsPartial, LoginHasCreds, GoneIsChange,
           StorageKeepsTheSession, LoginFormRecovers, LoginSoFar
<1>2. SessionInv /\ [Next]_vars => SessionInv'
  <2> SUFFICES ASSUME SessionInv, [Next]_vars PROVE SessionInv'
    OBVIOUS
  <2>1. SessionTypeOK'
    BY TypeStep DEF SessionInv
  <2>2. StorageKeepsTheSession'
    BY StorageStep DEF SessionInv
  <2> QED
    BY <2>1, <2>2, NetStep, BusyStep, LoginStep DEF SessionInv
<1> QED
  BY <1>1, <1>2, PTL DEF Spec

\* Types, and a user who waits for a token is in the application.
THEOREM SessionTypes == Spec => []SessionTypeOK
  BY SessionInductive, PTL DEF SessionInv

\* The session survives a reload.
THEOREM SessionStored == Spec => []StorageKeepsTheSession
  BY SessionInductive, PTL DEF SessionInv

\* A failed attempt to log in does not disable the form.
THEOREM FormRecovers == Spec => []LoginFormRecovers
  BY SessionInductive, PTL DEF SessionInv

\* The stored user name and password are of one request.
THEOREM LoginWhole == Spec => []LoginIsOfOneRequest
<1>1. SessionInv => LoginIsOfOneRequest
  BY DEF SessionInv, LoginSoFar, LoginIsOfOneRequest
<1> QED
  BY <1>1, SessionInductive, PTL
=============================================================================
