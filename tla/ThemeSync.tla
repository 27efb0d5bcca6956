----------------------------- MODULE ThemeSync -----------------------------
(***************************************************************************)
(* Light or dark: the page, the browser's storage and the server.          *)
(*   web/src/contexts/ThemeContext.tsx  resolveInitialTheme, toggleTheme,  *)
(*                                      applyServerTheme, the OS listener  *)
(*   web/src/App.tsx                    ThemeServerSync, AppRoutes         *)
(*   web/src/components/Navbar.tsx      the button                         *)
(*   internal/api/handlers/settings.go  UpdateTheme                        *)
(* ThemeServerSync is mounted while the user is in; the cached settings    *)
(* outlive it.                                                             *)
(***************************************************************************)
EXTENDS Integers

CONSTANTS
    MaxThemePuts,  \* bound: requests PUT under way at one time
    MaxThemeLosses \* bound: requests lost and writes of others

ASSUME ThemeAssumption == MaxThemePuts \in Nat \ {0} /\ MaxThemeLosses \in Nat

VARIABLES
    theme,         \* ThemeProvider: what is shown
    localTheme,    \* localStorage: aghsync_theme
    osTheme,       \* prefers-color-scheme
    serverTheme,   \* app_config: ui_theme
    themeCache,    \* query settings: ui_theme, if it has data
    themeFetch,    \* query settings: its fetch
    mounted,       \* ThemeServerSync is there
    synced,        \* initialSyncDone
    themePuts,     \* updateTheme, the requests under way
    themeLosses,   \* how many were lost, or written by others
    astray         \* history: the theme changed during a request or on the
                   \* login page, one was lost, or another tab or browser wrote

themeVars == <<theme, localTheme, osTheme, serverTheme, themeCache, themeFetch,
               mounted, synced, themePuts, themeLosses, astray>>

Themes  == {"light", "dark"}
Unset   == "unset"
Stored  == Themes \union {Unset}
NoData  == "none"
ThemePutSlots == 1 .. MaxThemePuts

ThemeInit ==
    /\ serverTheme \in Stored /\ localTheme \in Stored /\ osTheme \in Themes
    /\ theme = IF localTheme # Unset THEN localTheme ELSE osTheme
    /\ themeCache = NoData /\ themeFetch = "idle"
    /\ mounted = FALSE /\ synced = FALSE
    /\ themePuts = [p \in ThemePutSlots |-> Unset]
    /\ themeLosses = 0 /\ astray = FALSE

-----------------------------------------------------------------------------
(* The effects of ThemeServerSync.                                         *)

SendTheme(v) ==
    \E p \in ThemePutSlots :
        /\ themePuts[p] = Unset /\ \A o \in ThemePutSlots : o < p => themePuts[o] # Unset
        /\ themePuts' = [themePuts EXCEPT ![p] = v]

\* A theme that has changed is sent, whoever changed it.
Shown_Quietly(v) == theme' = v /\ UNCHANGED <<themePuts, astray>>  \* a fault, for mutation
Shown(v) ==
    /\ theme' = v
    /\ IF mounted' /\ v # theme THEN SendTheme(v) ELSE UNCHANGED themePuts
    /\ astray' = (astray \/ (v # theme /\ (~mounted' \/ \E p \in ThemePutSlots : themePuts[p] # Unset)))

\* The theme of the server is applied once; blank, it is waited for.
Applied(v, done) ==
    IF v \in {Unset, NoData} \/ done
    THEN /\ synced' = done
         /\ UNCHANGED <<theme, localTheme, themePuts, astray>>
    ELSE /\ synced' = TRUE /\ localTheme' = v
         /\ Shown(v)

\* The user gets in: what is cached is applied, and fetched again unless it
\* is fresh (staleTime).
EnterApp ==
    /\ ~mounted
    /\ mounted' = TRUE
    /\ Applied(themeCache, FALSE)
    /\ \/ themeFetch' = themeFetch /\ (themeFetch # "idle" \/ themeCache # NoData)
       \/ themeFetch' = "asked" /\ themeFetch = "idle"
    /\ UNCHANGED <<osTheme, serverTheme, themeCache, themeLosses>>
LeaveApp ==
    /\ mounted
    /\ mounted' = FALSE /\ synced' = FALSE
    /\ UNCHANGED <<theme, localTheme, osTheme, serverTheme, themeCache, themeFetch,
                   themePuts, themeLosses, astray>>

\* GetSettings answers a theme it cannot read as if it were unset.
ThemeRead ==
    /\ themeFetch = "asked"
    /\ themeFetch' \in {serverTheme, Unset}
    /\ UNCHANGED <<theme, localTheme, osTheme, serverTheme, themeCache, mounted, synced,
                   themePuts, themeLosses, astray>>
ThemeArrives ==
    /\ themeFetch \in Stored
    /\ themeCache' = themeFetch /\ themeFetch' = "idle"
    /\ mounted' = mounted
    /\ Applied(themeFetch, synced \/ ~mounted)
    /\ UNCHANGED <<osTheme, serverTheme, themeLosses>>
\* It fails, with its retry: the data stay as they were.
ThemeReadFails ==
    /\ themeFetch # "idle" /\ themeFetch' = "idle"
    /\ UNCHANGED <<theme, localTheme, osTheme, serverTheme, themeCache, mounted, synced,
                   themePuts, themeLosses, astray>>
\* Any page that uses the settings or changes one: a fetch under way is
\* dropped for a new one, but for the first of all.
RefetchTheme ==
    /\ mounted /\ (themeFetch = "idle" \/ themeCache # NoData)
    /\ themeFetch' = "asked"
    /\ UNCHANGED <<theme, localTheme, osTheme, serverTheme, themeCache, mounted, synced,
                   themePuts, themeLosses, astray>>

-----------------------------------------------------------------------------
(* The user, the server and everybody else.                                *)

Other(v) == IF v = "dark" THEN "light" ELSE "dark"

ToggleTheme ==
    /\ mounted /\ mounted' = mounted
    /\ Shown(Other(theme)) /\ localTheme' = Other(theme)
    /\ UNCHANGED <<osTheme, serverTheme, themeCache, themeFetch, synced, themeLosses>>

\* The listener follows the system as long as nothing was chosen.
Followed_Always(v) == Shown(v)                      \* a fault, for mutation
Followed(v) ==
    IF localTheme = Unset THEN Shown(v) ELSE UNCHANGED <<theme, themePuts, astray>>
OsThemeChanges ==
    /\ osTheme' = Other(osTheme) /\ mounted' = mounted
    /\ Followed(Other(osTheme))
    /\ UNCHANGED <<localTheme, serverTheme, themeCache, themeFetch, synced, themeLosses>>

ServeTheme(p) ==
    /\ themePuts[p] # Unset
    /\ serverTheme' = themePuts[p]
    /\ themePuts' = [themePuts EXCEPT ![p] = Unset]
    /\ UNCHANGED <<theme, localTheme, osTheme, themeCache, themeFetch, mounted, synced,
                   themeLosses, astray>>

Loss == themeLosses < MaxThemeLosses /\ themeLosses' = themeLosses + 1 /\ astray' = TRUE

LoseTheme(p) ==
    /\ Loss
    /\ themePuts[p] # Unset
    /\ themePuts' = [themePuts EXCEPT ![p] = Unset]
    /\ UNCHANGED <<theme, localTheme, osTheme, serverTheme, themeCache, themeFetch,
                   mounted, synced>>
\* Another browser, or the request of another tab.
OtherSavesTheme(v) ==
    /\ Loss
    /\ serverTheme' = v
    /\ UNCHANGED <<theme, localTheme, osTheme, themeCache, themeFetch, mounted, synced,
                   themePuts>>
\* Another tab of this browser: nobody listens to the storage.
OtherTabKeepsTheme(v) ==
    /\ Loss
    /\ localTheme' = v
    /\ UNCHANGED <<theme, osTheme, serverTheme, themeCache, themeFetch, mounted, synced,
                   themePuts>>

-----------------------------------------------------------------------------
ThemeNext ==
    \/ EnterApp \/ LeaveApp \/ ThemeRead \/ ThemeArrives \/ ThemeReadFails \/ RefetchTheme
    \/ ToggleTheme \/ OsThemeChanges
    \/ \E p \in ThemePutSlots : ServeTheme(p) \/ LoseTheme(p)
    \/ \E v \in Themes : OtherSavesTheme(v) \/ OtherTabKeepsTheme(v)
ThemeSpec == ThemeInit /\ [][ThemeNext]_themeVars
-----------------------------------------------------------------------------
(* Properties.                                                             *)

\* The variables hold values of their kind; what is shown is what the browser
\* keeps, or, as long as it keeps nothing, what the system prefers, unless
\* another tab has written to the storage that the tabs share.
ThemeTypeOK ==
    /\ serverTheme \in Stored /\ localTheme \in Stored
    /\ osTheme \in Themes /\ theme \in Themes
    /\ ~astray => theme = IF localTheme # Unset THEN localTheme ELSE osTheme
    /\ themeCache \in Stored \union {NoData} /\ themeFetch \in Stored \union {"idle", "asked"}
    /\ mounted \in BOOLEAN /\ synced \in BOOLEAN
    /\ themePuts \in [ThemePutSlots -> Stored]
    /\ themeLosses \in 0 .. MaxThemeLosses /\ astray \in BOOLEAN

\* Once the theme of the server has been applied, the server follows the
\* page: with no request under way both have the same, unless the theme
\* changed during a request or on the login page, a request was lost, or
\* another tab or browser wrote ("best-effort").  It says nothing of who has
\* followed whom: settings cached in an earlier session are applied over the
\* choice of the user, and sent to the server.
ServerFollowsTheme ==
    (mounted /\ synced /\ ~astray /\ \A p \in ThemePutSlots : themePuts[p] = Unset)
        => serverTheme = theme
=============================================================================
