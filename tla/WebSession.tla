----------------------------- MODULE WebSession -----------------------------
(***************************************************************************)
(* Who may use AGHSync, seen from one browser tab and from the server:     *)
(*   web/src/contexts/AuthContext.tsx   the session of the tab             *)
(*   web/src/App.tsx                    which part of the page is shown    *)
(*   web/src/pages/Login.tsx            the login form                     *)
(*   web/src/pages/Settings.tsx         login and API token administration *)
(*   web/src/lib/api.ts                 apiFetch and its event auth-clear  *)
(*   internal/api/middleware/auth.go    APIAuth                            *)
(*   internal/api/handlers/settings.go  UpdateUIAuth and the token         *)
(*                                                                         *)
(* Requests overtake each other.  The page Settings is the one that is     *)
(* open whenever the application is shown.  A user name and its password   *)
(* are one value, of which the server stores the two halves apart.  A      *)
(* failing database call is answered by 500 (Fail), also where the code    *)
(* goes on with a zero value (GetSettings, the two halves in APIAuth).     *)
(***************************************************************************)
EXTENDS Integers

CONSTANTS
    Creds,        \* pairs of a user name and a password
    Nobody,       \* null
    MaxRequests,  \* bound: requests under way at one time
    MaxTroubles   \* bound: lost requests, failing database calls, and
                  \* changes made to the login from elsewhere

ASSUME NobodyAssumption == Nobody \notin Creds
ASSUME LimitsAssumption ==
    MaxRequests \in Nat \ {0} /\ MaxTroubles \in Nat

VARIABLES
    config,        \* app_config: API token set, login on, its two halves
    authRequired,  \* AuthProvider: state.authRequired, null being "unknown"
    credentials,   \* AuthProvider: state.credentials
    stored,        \* sessionStorage
    net,           \* the requests under way, one in a slot
    known,         \* what the query cache holds of GET /settings
    busy,          \* Login: its state loading
    troubles,      \* how many faults and changes from elsewhere
    torn           \* history: a login was written in pieces

tabVars == <<authRequired, credentials, stored>>
vars == <<config, tabVars, net, known, busy, troubles, torn>>

Users   == Creds \union {Nobody}
Slots   == 1 .. MaxRequests
Reads   == {"probe", "login", "poll", "settings"}
Saves   == {"enable", "disable"}
Changes == Saves \union {"generate", "delete"}
Partial == {"user", "pass"}             \* UpdateUIAuth between two writes
Answers == {"ok", "401", "500", "down"}

Unknown == [uiAuth |-> FALSE, token |-> FALSE, loaded |-> FALSE]
Known   == [uiAuth : BOOLEAN, token : BOOLEAN, loaded : BOOLEAN]
Configs == [token : BOOLEAN, uiAuth : BOOLEAN, user : Users, pass : Users]

\* as: the Authorization header; use: who in the tab still waits for it, the
\* mounted page, handleGenerateToken to show its token, the tab, or nobody.
Request == [kind : Reads \union Changes \union {"none"}, as : Users, arg : Users,
            at : {"sent"} \union Partial \union Answers,
            use : {"page", "token", "tab", "gone"}, data : Known]

NoRequest == [kind |-> "none", as |-> Nobody, arg |-> Nobody,
              at |-> "sent", use |-> "gone", data |-> Unknown]
Ask(kind, as, arg) ==
    [kind |-> kind, as |-> as, arg |-> arg, at |-> "sent", use |-> "page",
     data |-> Unknown]

Free(s)      == net[s].kind = "none"
Next_free(s) == Free(s) /\ \A t \in Slots : t < s => ~Free(t)
Waiting(K)   == \E s \in Slots : net[s].kind \in K /\ net[s].use \in {"page", "token"}
Sent(kind, as, arg) ==
    \E s \in Slots : Next_free(s) /\ net' = [net EXCEPT ![s] = Ask(kind, as, arg)]

\* AppRoutes: nothing, the login page, or the application.
view == IF authRequired = "unknown" THEN "blank"
        ELSE IF authRequired = "yes" /\ credentials = Nobody THEN "login" ELSE "app"

\* APIAuth; its reads of one setting after another are one step.
Accepts(c) ==
    \/ ~config.token
    \/ config.uiAuth /\ c # Nobody /\ c = config.user /\ c = config.pass

Init ==
    /\ \E c \in Users, t, u \in BOOLEAN :
           config = [token |-> t, uiAuth |-> u, user |-> c, pass |-> c]
    /\ config.uiAuth => config.user # Nobody
    /\ authRequired = "unknown"
    /\ credentials = Nobody
    /\ stored \in Users
    /\ net = [s \in Slots |-> IF s = 1 THEN Ask("probe", Nobody, Nobody)
                                       ELSE NoRequest]
    /\ known = Unknown
    /\ busy = FALSE
    /\ troubles = 0
    /\ torn = FALSE

-----------------------------------------------------------------------------
(* The user and the timers of the page.                                    *)

\* Login.handleSubmit, up to its await.
SubmitLogin(c) ==
    /\ view = "login"
    /\ ~busy
    /\ busy' = TRUE
    /\ Sent("login", c, Nobody)
    /\ UNCHANGED <<config, tabVars, known, troubles, torn>>

\* The queries that run on every page; one of a kind at a time.
Query(kind) ==
    /\ view = "app"
    /\ ~Waiting({kind})
    /\ Sent(kind, credentials, Nobody)
    /\ UNCHANGED <<config, tabVars, known, busy, troubles, torn>>

Poll_UntilLoaded == Query("poll") /\ ~known.loaded  \* a fault, for mutation
Poll == Query("poll")
FetchSettings == Query("settings")

Change(kind, arg) ==
    /\ view = "app"
    /\ known.loaded
    /\ Sent(kind, credentials, arg)
    /\ UNCHANGED <<config, tabVars, known, busy, troubles, torn>>

HandleEnableAuth(c) ==
    ~known.uiAuth /\ ~Waiting(Saves) /\ Change("enable", c)
HandleDisableAuth ==
    known.uiAuth /\ ~Waiting(Saves) /\ Change("disable", Nobody)
HandleGenerateToken ==
    /\ ~Waiting({"generate"})
    /\ ~\E s \in Slots : net[s].use = "token"
    /\ Change("generate", Nobody)
DeleteToken ==
    /\ known.token
    /\ ~Waiting({"delete"})
    /\ Change("delete", Nobody)

Unmounted_Nothing(n) == n                           \* a fault, for mutation
\* The components of the application are gone, the requests they sent are not.
Unmounted(n) ==
    [s \in Slots |->
        IF n[s].kind \in Changes /\ n[s].use = "page" THEN [n[s] EXCEPT !.use = "tab"]
        ELSE IF n[s].use = "token" THEN [n[s] EXCEPT !.use = "page"] ELSE n[s]]
Cleared ==
    /\ credentials' = Nobody
    /\ authRequired' = "yes"
    /\ stored' = Nobody

Logout ==
    /\ view = "app" /\ authRequired = "yes"
    /\ Cleared
    /\ net' = Unmounted(net)
    /\ UNCHANGED <<config, known, busy, troubles, torn>>

\* A new document: what the server has not begun with it may still carry out.
Reload ==
    /\ view # "blank"
    /\ LET left == [s \in Slots |->
               IF net[s].kind \in Changes /\ net[s].at \in {"sent"} \union Partial
               THEN [net[s] EXCEPT !.use = "gone"] ELSE NoRequest]
       IN \E s \in Slots :
            /\ left[s].kind = "none"
            /\ \A t \in Slots : t < s => left[t].kind # "none"
            /\ net' = [left EXCEPT ![s] = Ask("probe", Nobody, Nobody)]
    /\ authRequired' = "unknown"
    /\ credentials' = Nobody
    /\ known' = Unknown
    /\ busy' = FALSE
    /\ UNCHANGED <<config, stored, troubles, torn>>

-----------------------------------------------------------------------------
(* The server.                                                             *)

\* An answer is told from its kind; the form Login keeps what it has sent.
Answer(s, a, data) ==
    net' = [net EXCEPT ![s].at = a, ![s].arg = Nobody, ![s].data = data,
                       ![s].as = IF net[s].kind = "login" THEN @ ELSE Nobody]
Answered(s, a) == Answer(s, a, Unknown)
Written(s, at) == net' = [net EXCEPT ![s].at = at]
Admitted(s, K) == net[s].kind \in K /\ net[s].at = "sent" /\ Accepts(net[s].as)

Refuse(s) ==
    /\ ~Free(s) /\ net[s].at = "sent" /\ ~Accepts(net[s].as)
    /\ Answered(s, "401")
    /\ UNCHANGED <<config, tabVars, known, busy, troubles, torn>>

\* GetSettings answers with what is stored, read in one step; the other
\* queries only with ok.
ServeRead(s) ==
    /\ Admitted(s, Reads)
    /\ Answer(s, "ok", IF net[s].kind # "settings" THEN Unknown
                       ELSE [uiAuth |-> config.uiAuth, token |-> config.token,
                             loaded |-> TRUE])
    /\ UNCHANGED <<config, tabVars, known, busy, troubles, torn>>

\* UpdateUIAuth: SetUIUsername, SetUIPasswordHash, SetUIAuthEnabled.
SaveUser(s) ==
    /\ Admitted(s, {"enable"})
    /\ config' = [config EXCEPT !.user = net[s].arg]
    /\ Written(s, "user")
    /\ torn' = (torn \/ \E t \in Slots : net[t].at \in Partial)
    /\ UNCHANGED <<tabVars, known, busy, troubles>>
SavePass_Dropped(s) ==                              \* a fault, for mutation
    /\ net[s].at = "user"
    /\ Written(s, "pass")
    /\ UNCHANGED <<config, tabVars, known, busy, troubles, torn>>
SavePass(s) ==
    /\ net[s].at = "user"
    /\ config' = [config EXCEPT !.pass = net[s].arg]
    /\ Written(s, "pass")
    /\ UNCHANGED <<tabVars, known, busy, troubles, torn>>
SaveSwitch(s) ==
    /\ net[s].at = "pass" \/ Admitted(s, {"disable"})
    /\ config' = [config EXCEPT !.uiAuth = (net[s].kind = "enable")]
    /\ Answered(s, "ok")
    /\ UNCHANGED <<tabVars, known, busy, troubles, torn>>

\* GenerateAPIToken, DeleteAPIToken.
SaveToken(s) ==
    /\ Admitted(s, {"generate", "delete"})
    /\ config' = [config EXCEPT !.token = (net[s].kind = "generate")]
    /\ Answered(s, "ok")
    /\ UNCHANGED <<tabVars, known, busy, troubles, torn>>

\* A database call fails, or the request or its answer is lost on the way.
Fail(s) ==
    /\ ~Free(s) /\ troubles < MaxTroubles
    /\ troubles' = troubles + 1
    /\ \/ net[s].at \in {"sent"} \union Partial /\ Answered(s, "500")
       \/ net[s].at \notin Partial \union {"down"} /\ Answered(s, "down")
    /\ torn' = (torn \/ net[s].at \in Partial)
    /\ UNCHANGED <<config, tabVars, known, busy>>

\* Another browser, a script, --reset-password or a restored backup.
Reconfigure ==
    /\ troubles < MaxTroubles
    /\ troubles' = troubles + 1
    /\ \E c \in Users, t, u \in BOOLEAN :
           /\ u => c # Nobody
           /\ config' = [token |-> t, uiAuth |-> u, user |-> c, pass |-> c]
    /\ torn' = (torn \/ \E t \in Slots : net[t].at \in Partial)
    /\ UNCHANGED <<tabVars, net, known, busy>>

-----------------------------------------------------------------------------
(* The answers reach the tab.                                              *)

Arrived(s, K, A) == net[s].kind \in K /\ net[s].at \in A /\ net[s].use # "gone"
Freed(s)         == [net EXCEPT ![s] = NoRequest]

\* The probe of AuthProvider: a status it does not expect changes nothing.
ProbeAnswer(s) ==
    /\ Arrived(s, {"probe"}, Answers)
    /\ authRequired' = CASE net[s].at = "ok" -> "no" [] net[s].at = "500" -> authRequired
                         [] OTHER -> "yes"
    /\ credentials' = IF net[s].at = "401" THEN stored ELSE credentials
    /\ net' = Freed(s)
    /\ UNCHANGED <<config, stored, known, busy, troubles, torn>>

LoadingOver_Never == TRUE                           \* a fault, for mutation
LoadingOver == FALSE                                \* setLoading(false)

\* AuthProvider.login.
Entered_NotStored(c) ==                             \* a fault, for mutation
    credentials' = c /\ authRequired' = "yes" /\ UNCHANGED stored
Entered_StoredOnly(c) ==                            \* a fault, for mutation
    stored' = c /\ UNCHANGED <<credentials, authRequired>>
Entered(c) == stored' = c /\ credentials' = c /\ authRequired' = "yes"

\* Login.handleSubmit after its await.
LoginAnswer(s) ==
    /\ Arrived(s, {"login"}, {"ok", "500", "down"})
    /\ busy' = LoadingOver
    /\ net' = Freed(s)
    /\ IF net[s].at = "ok" THEN Entered(net[s].as) ELSE UNCHANGED tabVars
    /\ UNCHANGED <<config, known, troubles, torn>>

\* apiFetch dispatches auth-clear whichever request it is that was refused.
AuthClear(s) ==
    /\ Arrived(s, (Reads \ {"probe"}) \union Changes, {"401"})
    /\ Cleared
    /\ net' = Unmounted(Freed(s))
    /\ busy' = IF net[s].kind = "login" THEN LoadingOver ELSE busy
    /\ UNCHANGED <<config, known, troubles, torn>>

\* The token is put on the page once the settings have been fetched again.
SettingsAnswer(s) ==
    /\ Arrived(s, {"settings"}, {"ok", "500", "down"})
    /\ net' = Freed(s)
    /\ known' = IF net[s].use # "tab" /\ net[s].at = "ok" THEN net[s].data ELSE known
    /\ UNCHANGED <<config, tabVars, busy, troubles, torn>>

PollAnswer(s) ==
    /\ Arrived(s, {"poll"}, {"ok", "500", "down"})
    /\ net' = Freed(s)
    /\ UNCHANGED <<config, tabVars, known, busy, troubles, torn>>

\* invalidateQueries: a fetch under way is superseded, a new one is sent if
\* the application is there to want it; s is the slot to use.
Refetched(n, s) ==
    [t \in Slots |->
        IF t = s THEN
            IF view # "app" THEN NoRequest
            ELSE [Ask("settings", credentials, Nobody) EXCEPT !.use =
                    IF n[s].kind = "generate" /\ n[s].use = "page" THEN "token" ELSE "page"]
        ELSE IF view = "app" /\ n[t].kind = "settings" THEN [n[t] EXCEPT !.use = "tab"]
        ELSE n[t]]

ChangeDone(s) ==
    /\ Arrived(s, Changes, {"ok"})
    /\ net' = Refetched(net, s)
    /\ UNCHANGED <<config, tabVars, known, busy, troubles, torn>>

ChangeFailed(s) ==
    /\ Arrived(s, Changes, {"500", "down"})
    /\ net' = Freed(s)
    /\ UNCHANGED <<config, tabVars, known, busy, troubles, torn>>

\* The answer to a request of a document that is no more.
Dropped(s) ==
    /\ ~Free(s) /\ net[s].use = "gone" /\ net[s].at \in Answers
    /\ net' = Freed(s)
    /\ UNCHANGED <<config, tabVars, known, busy, troubles, torn>>

-----------------------------------------------------------------------------
User ==
    \/ \E c \in Creds : SubmitLogin(c) \/ HandleEnableAuth(c)
    \/ HandleDisableAuth \/ HandleGenerateToken \/ DeleteToken
    \/ Logout \/ Reload
Serve(s) ==
    \/ Refuse(s) \/ ServeRead(s) \/ SaveUser(s) \/ SavePass(s)
    \/ SaveSwitch(s) \/ SaveToken(s)
Receive(s) ==
    \/ ProbeAnswer(s) \/ LoginAnswer(s) \/ AuthClear(s) \/ SettingsAnswer(s)
    \/ PollAnswer(s) \/ ChangeDone(s) \/ ChangeFailed(s) \/ Dropped(s)

Next ==
    \/ User \/ Poll \/ FetchSettings \/ Reconfigure
    \/ \E s \in Slots : Serve(s) \/ Receive(s) \/ Fail(s)

\* Servers serve and answers arrive, faults being finite; the page polls.
Fairness ==
    /\ \A s \in Slots : WF_vars(Serve(s)) /\ WF_vars(Receive(s))
    /\ SF_vars(Poll)
Spec == Init /\ [][Next]_vars
FairSpec == Spec /\ Fairness
-----------------------------------------------------------------------------
(* Properties.                                                             *)

\* The variables hold values of their kind, and handleGenerateToken waits
\* only for settings, and only while the application is shown.
SessionTypeOK ==
    /\ config \in Configs
    /\ authRequired \in {"unknown", "yes", "no"}
    /\ credentials \in Users /\ stored \in Users
    /\ net \in [Slots -> Request]
    /\ \A s \in Slots : net[s].use = "token" => net[s].kind = "settings" /\ view = "app"
    /\ known \in Known
    /\ busy \in BOOLEAN /\ torn \in BOOLEAN
    /\ troubles \in 0 .. MaxTroubles

\* The session of the tab survives a reload: the credentials in use are those
\* in sessionStorage, whatever answers of older sessions come in meanwhile.
StorageKeepsTheSession == credentials # Nobody => stored = credentials

\* The user name and the password that the server stores belong together,
\* unless a write in between failed, or two were made at once (UpdateUIAuth).
LoginIsOfOneRequest ==
    torn \/ config.user = config.pass \/ \E s \in Slots : net[s].at \in Partial

\* The form Login accepts another attempt as long as none is under way: a
\* failed or refused one does not leave it disabled.
LoginFormRecovers ==
    busy => \E s \in Slots : net[s].kind = "login" /\ net[s].use = "page"

\* A tab whose credentials the server refuses, because the login was changed
\* or switched on elsewhere, gets to the login page unless that is undone.
RefusedSessionEnds == (view = "app") ~> (view # "app" \/ Accepts(credentials))

\* Someone who keeps trying the right password gets in, whatever other
\* attempts, faults and late answers there are in between.
RightPasswordGetsIn ==
    \A c \in Creds :
        SF_vars(SubmitLogin(c)) =>
            ((view = "login") ~> (view # "login" \/ ~Accepts(c)))

\* "shown once" (README): the user who waits for a token that has been
\* generated is not thrown out of the application before it is shown, other
\* than by logging out or reloading the page.
TokenIsShown ==
    [][(view = "app" /\ \E s \in Slots : net[s].use = "token") =>
           (view' = "app" \/ Logout \/ Reload)]_vars
=============================================================================
