------------------------------- MODULE UiAuth -------------------------------
(***************************************************************************)
(* Browser sign-in (packages/ui-auth): AuthProvider, AuthCallback and the  *)
(* identity provider they redirect to, in several tabs of one browser.     *)
(*                                                                         *)
(* The user is kept in memory, so every page load starts unknown; a tab    *)
(* finds or renews its session by leaving for the provider with            *)
(* prompt=none and coming back to /callback.  What survives a load is in   *)
(* the tab's session storage: that the question was asked once, and how    *)
(* many renewals in a row were futile.                                     *)
(*                                                                         *)
(* Time is the browser's clock in ticks, any unit the skew is a multiple   *)
(* of.  oidc-client-ts and the provider are external: a redirect is        *)
(* prepared (metadata, state entry) and leaves or fails, the entry is      *)
(* consumed by the first exchange, and expires_at is the browser's clock   *)
(* plus the life of the token as the browser sees it, one of Lives.        *)
(***************************************************************************)
EXTENDS Naturals, FiniteSets

CONSTANTS Tabs,         \* tabs of one browser, sharing the provider's session
          Paths,        \* the app's gated routes
          DefaultPath,  \* defaultPath of AuthCallback
          Callback,     \* the route of the redirect URI
          Lives,        \* lives of fresh tokens, in ticks; 0 is "no expires_at"
          RenewSkew,    \* RENEW_SKEW_MS
          TimerLimit,   \* the longest delay setTimeout keeps, 2^31 - 1 ms
          MaxFutile,    \* MAX_FUTILE_RENEWALS
          MaxTime,      \* bound on the clock
          MaxFaults,    \* bound on redirects and exchanges that fail
          MaxToggles,   \* bound on what other applications do to the session
          MaxStorm,     \* bound on renewals by a timer that overflows
          Nothing       \* no redirect, no user

VARIABLES tab,      \* each tab's page
          storage,  \* its session storage
          session,  \* the provider's session cookie names a user
          life,     \* of the tokens this provider issues
          now, faults, toggles,
          auto,     \* redirects a tab made by itself since its user last acted
          acted,    \* when that was
          left      \* whether the user logged out of this tab, see Logout

vars == <<tab, storage, session, life, now, faults, toggles, auto, acted, left>>

Redirects == [silent: BOOLEAN, returnTo: Paths \cup {Callback}]
Responses == {"none", "code", "login_required", "error"}

(* The app has a page to land on, and the redirect URI is none of its      *)
(* routes.                                                                 *)
SignInAssumption ==
    /\ DefaultPath \in Paths /\ Callback \notin Paths
    /\ Nothing \notin Redirects
    /\ Lives \subseteq Nat /\ MaxFutile \in Nat
    /\ RenewSkew \in Nat /\ TimerLimit \in Nat

(* A load with an authorization response belongs to the callback.          *)
HandlingCallback(response) == response # "none"

(* A page as it loads: nothing in memory, since the user store is an       *)
(* InMemoryWebStorage.  recovering is the effect of AuthProvider, which    *)
(* leaves a page with an authorization response to the callback.           *)
PageAt(at, response, entry) ==
    [where |-> "app", at |-> at, response |-> response, entry |-> entry,
     state |-> "loading", user |-> Nothing, timer |-> FALSE,
     recovering |-> ~HandlingCallback(response),
     callback |-> IF at = Callback THEN "started" ELSE "absent",
     preparing |-> Nothing, then |-> "stay", leaving |-> FALSE]

Init ==
    /\ \E b \in [Tabs -> BOOLEAN]:
         storage = [t \in Tabs |-> [sso |-> FALSE, futile |-> 0, blocked |-> b[t]]]
    /\ tab = [t \in Tabs |-> PageAt(DefaultPath, "none", Nothing)]
    /\ session \in BOOLEAN
    /\ life \in Lives
    /\ now = 0
    /\ faults = 0
    /\ toggles = 0
    /\ auto = [t \in Tabs |-> 0]
    /\ acted = [t \in Tabs |-> 0]
    /\ left = [t \in Tabs |-> "in"]

TypeOK ==
    /\ \A t \in Tabs: /\ tab[t].where \in {"app", "idp", "signout"}
                      /\ tab[t].at \in Paths \cup {Callback}
                      /\ tab[t].response \in Responses
                      /\ tab[t].state \in {"loading", "authenticated", "anonymous"}
                      /\ tab[t].callback \in {"absent", "started", "exchanging", "done", "failed"}
                      /\ tab[t].preparing \in Redirects \cup {Nothing}
                      /\ tab[t].entry \in Redirects \cup {Nothing}
    /\ storage \in [Tabs -> [sso: BOOLEAN, futile: 0 .. MaxFutile, blocked: BOOLEAN]]
    /\ session \in BOOLEAN
    /\ left \in [Tabs -> {"in", "out", "beside", "overtaken"}]

OnPage(t) == tab[t].where = "app"

(* Protected: nothing of the app before the user is known to be signed in. *)
Shown(t) == CASE tab[t].state = "loading" -> "Loading..."
              [] tab[t].state = "anonymous" -> "SignInPage"
              [] OTHER -> "app"

-----------------------------------------------------------------------------
(* Session storage, which a browser may refuse: then the probe counts as   *)
(* made and the renewals as spent, and writes are swallowed.               *)
SsoAlreadyAttempted(t) == storage[t].blocked \/ storage[t].sso
FutileRenewals(t) == IF storage[t].blocked THEN MaxFutile ELSE storage[t].futile
RememberSsoAttempt(store, value) ==
    IF store.blocked THEN store ELSE [store EXCEPT !.sso = value]
RecordFutileRenewal(store, count) ==
    IF store.blocked THEN store ELSE [store EXCEPT !.futile = count]

(* signinRedirect: the state entry keeps where the tab was. *)
Redirecting(page, silent, then) ==
    [page EXCEPT !.preparing = [silent |-> silent, returnTo |-> page.at], !.then = then]
Adopt(page, user) ==
    [page EXCEPT !.user = user, !.state = IF user = Nothing THEN "anonymous" ELSE "authenticated",
                 !.timer = FALSE]

(* The renewal effect, which runs when the adopted user is rendered.       *)
Delay(user) == IF user > now + RenewSkew THEN user - now - RenewSkew ELSE 0
(* A longer delay than setTimeout can keep is taken for 1 ms.              *)
TimerOverflows == life > RenewSkew + TimerLimit
(* mutant: the count is taken back however short the token still lives *)
RenewalEffectForgetful(t, page, store) ==
    IF page.state # "authenticated" \/ page.user = 0
      THEN [page |-> page, store |-> store]
      ELSE [page |-> [page EXCEPT !.timer = TRUE], store |-> RecordFutileRenewal(store, 0)]
RenewalEffect(t, page, store) ==
    IF page.state # "authenticated" \/ page.user = 0
      THEN [page |-> page, store |-> store]
    ELSE IF Delay(page.user) > 0
      THEN [page |-> [page EXCEPT !.timer = TRUE], store |-> RecordFutileRenewal(store, 0)]
    ELSE IF FutileRenewals(t) >= MaxFutile
      THEN [page |-> Adopt(page, Nothing), store |-> RecordFutileRenewal(store, 0)]
      ELSE [page |-> [page EXCEPT !.timer = TRUE],
            store |-> RecordFutileRenewal(store, FutileRenewals(t) + 1)]

(* What the state entry holds is a path of this app or nothing at all.     *)
SafeReturnTo(entry) == IF entry = Nothing THEN Nothing ELSE entry.returnTo

(* routePathOf(...) ?? defaultPath: the callback is no place to land.      *)
Landing(entry) ==
    IF SafeReturnTo(entry) \in {Nothing, Callback} THEN DefaultPath ELSE SafeReturnTo(entry)
Navigate(page, path) ==
    [page EXCEPT !.at = path, !.response = "none", !.callback = "absent"]

(* resolveAnonymous never takes back a session that was adopted.           *)
ResolveAnonymous(page) ==
    [page EXCEPT !.user = Nothing, !.timer = FALSE,
                 !.state = IF @ = "authenticated" THEN @ ELSE "anonymous"]

(* A renewal that was prepared when the user logged out cannot leave any   *)
(* more.                                                                   *)
PendingGone(out) == IF out = "beside" THEN "out" ELSE out

(* A response that can never succeed again leaves the address bar.         *)
Stripped(page) == [page EXCEPT !.response = "none", !.entry = Nothing]

-----------------------------------------------------------------------------
(* recover(), past its await: ask the provider once per tab, else settle.  *)
Recover(t) ==
    /\ OnPage(t) /\ tab[t].recovering
    /\ LET page == [tab[t] EXCEPT !.recovering = FALSE]
       IN IF SsoAlreadyAttempted(t)
            THEN /\ tab' = [tab EXCEPT ![t] = Adopt(page, Nothing)]
                 /\ UNCHANGED storage
            ELSE /\ tab' = [tab EXCEPT ![t] = Redirecting(page, TRUE, "settle")]
                 /\ storage' = [storage EXCEPT ![t] = RememberSsoAttempt(@, TRUE)]
    /\ UNCHANGED <<session, life, now, faults, toggles, auto, acted, left>>

(* The prepared redirect leaves the page... *)
RedirectLeaves(t) ==
    /\ OnPage(t) /\ tab[t].preparing # Nothing
    /\ tab' = [tab EXCEPT ![t] = [PageAt(DefaultPath, "none", tab[t].preparing)
                                    EXCEPT !.where = "idp"]]
    /\ auto' = [auto EXCEPT ![t] = IF tab[t].preparing.silent THEN @ + 1 ELSE @]
    /\ left' = [left EXCEPT ![t] = IF @ = "beside" THEN "overtaken" ELSE @]
    /\ UNCHANGED <<storage, session, life, now, faults, toggles, acted>>

(* ...or cannot be started: a probe settles as anonymous, a renewal leaves *)
(* the session as it is, a click changes nothing.                          *)
RedirectFails(t) ==
    /\ OnPage(t) /\ tab[t].preparing # Nothing /\ faults < MaxFaults
    /\ LET page == [tab[t] EXCEPT !.preparing = Nothing, !.then = "stay"]
       IN tab' = [tab EXCEPT ![t] = IF tab[t].then = "settle" THEN Adopt(page, Nothing) ELSE page]
    /\ faults' = faults + 1
    /\ left' = [left EXCEPT ![t] = PendingGone(@)]
    /\ UNCHANGED <<storage, session, life, now, toggles, auto, acted>>

(* External: the provider answers at the redirect URI.  A silent question  *)
(* is never answered with a login form.                                    *)
ProviderAnswers(t) ==
    /\ tab[t].where = "idp"
    /\ LET asked == tab[t].entry
           Answer(r) == tab' = [tab EXCEPT ![t] = PageAt(Callback, r, asked)]
       IN \/ session /\ Answer("code") /\ UNCHANGED <<session, faults>>
          \/ ~session /\ asked.silent /\ Answer("login_required") /\ UNCHANGED <<session, faults>>
          \/ ~session /\ ~asked.silent /\ Answer("code") /\ session' = TRUE /\ UNCHANGED faults
          \/ faults < MaxFaults /\ Answer("error") /\ faults' = faults + 1 /\ UNCHANGED session
    /\ UNCHANGED <<storage, life, now, toggles, auto, acted, left>>

(* handleCallback without a response: a reload of a failed attempt, or the *)
(* typed URL.  The same answer as a probe that found nobody.               *)
CallbackWithoutResponse(t) ==
    /\ OnPage(t) /\ tab[t].callback = "started" /\ tab[t].response = "none"
    /\ tab' = [tab EXCEPT ![t] = Navigate(ResolveAnonymous(@), DefaultPath)]
    /\ UNCHANGED <<storage, session, life, now, faults, toggles, auto, acted, left>>

(* mutant: the provider is not told that no userLoaded event will come *)
NoSessionUnsettled(t) ==
    /\ OnPage(t) /\ tab[t].callback = "started" /\ tab[t].response = "login_required"
    /\ tab' = [tab EXCEPT ![t] = Navigate(@, Landing(tab[t].entry))]
    /\ UNCHANGED <<storage, session, life, now, faults, toggles, auto, acted, left>>

(* handleCallback with login_required: the library's ErrorResponse carries *)
(* the stored entry, and without one the query still tells the outcome.    *)
NoSession(t) ==
    /\ OnPage(t) /\ tab[t].callback = "started" /\ tab[t].response = "login_required"
    /\ tab' = [tab EXCEPT ![t] = Navigate(ResolveAnonymous(@), Landing(tab[t].entry))]
    /\ UNCHANGED <<storage, session, life, now, faults, toggles, auto, acted, left>>

(* The exchange begins: the library deletes the state entry first.         *)
BeginExchange(t) ==
    /\ OnPage(t) /\ tab[t].callback = "started" /\ tab[t].response \in {"code", "error"}
    /\ tab' = [tab EXCEPT ![t].callback = "exchanging"]
    /\ UNCHANGED <<storage, session, life, now, faults, toggles, auto, acted, left>>

(* Signed in: userLoaded adopts, the callback navigates to where the       *)
(* redirect began, and the renewal effect sees the URL without the code.   *)
SignedIn(t) ==
    /\ OnPage(t) /\ tab[t].callback = "exchanging"
    /\ tab[t].response = "code" /\ tab[t].entry # Nothing
    /\ LET user == IF life = 0 THEN 0 ELSE now + life
           page == [Navigate(Adopt(tab[t], user), Landing(tab[t].entry)) EXCEPT !.entry = Nothing]
           after == RenewalEffect(t, page, RememberSsoAttempt(storage[t], FALSE))
       IN /\ tab' = [tab EXCEPT ![t] = after.page]
          /\ storage' = [storage EXCEPT ![t] = after.store]
    /\ UNCHANGED <<session, life, now, faults, toggles, auto, acted, left>>

(* Any other end of the exchange: the response is stripped from the URL    *)
(* and the page says that signing in failed, with the provider waiting.    *)
ExchangeFails(t) ==
    /\ OnPage(t) /\ tab[t].callback = "exchanging"
    /\ \/ tab[t].response = "code" /\ tab[t].entry # Nothing
          /\ faults < MaxFaults /\ faults' = faults + 1
       \/ (tab[t].response = "error" \/ tab[t].entry = Nothing) /\ UNCHANGED faults
    /\ tab' = [tab EXCEPT ![t] = [Stripped(@) EXCEPT !.callback = "failed"]]
    /\ UNCHANGED <<storage, session, life, now, toggles, auto, acted, left>>

(* mutant: the timer is set to nothing, whatever the token still lives *)
RenewAtOnce(t) ==
    /\ OnPage(t) /\ tab[t].timer
    /\ tab' = [tab EXCEPT ![t] = Redirecting([@ EXCEPT !.timer = FALSE], TRUE, "stay")]
    /\ UNCHANGED <<storage, session, life, now, faults, toggles, auto, acted, left>>

(* The renewal timer fires: when its delay is over, or at once when the    *)
(* delay was too long for a timer.                                         *)
Renew(t) ==
    /\ OnPage(t) /\ tab[t].timer
    /\ \/ Delay(tab[t].user) = 0
       \/ TimerOverflows /\ auto[t] < MaxStorm
    /\ tab' = [tab EXCEPT ![t] = Redirecting([@ EXCEPT !.timer = FALSE], TRUE, "stay")]
    /\ UNCHANGED <<storage, session, life, now, faults, toggles, auto, acted, left>>

-----------------------------------------------------------------------------
(* What the user does. *)

(* The page is loaded again, at its own URL or at a typed one.  What an    *)
(* exchange had begun with is gone.                                        *)
Load(t, at) ==
    /\ at = tab[t].at \/ at \in Paths
    /\ LET same == OnPage(t) /\ at = tab[t].at
       IN tab' = [tab EXCEPT ![t] =
                    PageAt(at, IF same THEN @.response ELSE "none",
                           IF same /\ @.callback # "exchanging" THEN @.entry ELSE Nothing)]
    /\ auto' = [auto EXCEPT ![t] = 0]
    /\ acted' = [acted EXCEPT ![t] = now]
    /\ left' = [left EXCEPT ![t] = PendingGone(@)]
    /\ UNCHANGED <<storage, session, life, now, faults, toggles>>

(* login(), the button of the sign-in page. *)
Login(t) ==
    /\ OnPage(t) /\ Shown(t) = "SignInPage" /\ tab[t].preparing = Nothing
    /\ storage' = [storage EXCEPT ![t] = RememberSsoAttempt(@, FALSE)]
    /\ tab' = [tab EXCEPT ![t] = Redirecting(@, FALSE, "stay")]
    /\ auto' = [auto EXCEPT ![t] = 0]
    /\ acted' = [acted EXCEPT ![t] = now]
    /\ left' = [left EXCEPT ![t] = "in"]
    /\ UNCHANGED <<session, life, now, faults, toggles>>

(* mutant: nothing remembers that this tab must not ask by itself *)
LogoutForgetful(t) ==
    /\ OnPage(t) /\ Shown(t) = "app" /\ ~tab[t].leaving
    /\ UNCHANGED storage
    /\ tab' = [tab EXCEPT ![t] = [Adopt(@, Nothing) EXCEPT !.leaving = TRUE]]
    /\ auto' = [auto EXCEPT ![t] = 0]
    /\ acted' = [acted EXCEPT ![t] = now]
    /\ left' = [left EXCEPT ![t] = IF tab[t].preparing = Nothing THEN "out" ELSE "beside"]
    /\ UNCHANGED <<session, life, now, faults, toggles>>

(* logout(): signoutRedirect removes the user before it leaves.  Nothing   *)
(* takes back a renewal whose redirect is already prepared: "beside" until *)
(* that one leaves first, which overtakes the logout, or is gone.          *)
Logout(t) ==
    /\ OnPage(t) /\ Shown(t) = "app" /\ ~tab[t].leaving
    /\ storage' = [storage EXCEPT ![t] = RememberSsoAttempt(@, TRUE)]
    /\ tab' = [tab EXCEPT ![t] = [Adopt(@, Nothing) EXCEPT !.leaving = TRUE]]
    /\ auto' = [auto EXCEPT ![t] = 0]
    /\ acted' = [acted EXCEPT ![t] = now]
    /\ left' = [left EXCEPT ![t] = IF tab[t].preparing = Nothing THEN "out" ELSE "beside"]
    /\ UNCHANGED <<session, life, now, faults, toggles>>

(* External: the provider ends its session and returns to the app.         *)
SignedOut(t) ==
    /\ OnPage(t) /\ tab[t].leaving
    /\ \/ session' = FALSE /\ UNCHANGED faults
          /\ tab' = [tab EXCEPT ![t] = PageAt(DefaultPath, "none", Nothing)]
          /\ left' = [left EXCEPT ![t] = PendingGone(@)]
       \/ faults < MaxFaults /\ faults' = faults + 1 /\ UNCHANGED <<session, left>>
          /\ tab' = [tab EXCEPT ![t].leaving = FALSE]
    /\ UNCHANGED <<storage, life, now, toggles, auto, acted>>

(* External: the user signs in or out at another application. *)
OtherApp ==
    /\ toggles < MaxToggles
    /\ toggles' = toggles + 1
    /\ session' = ~session
    /\ UNCHANGED <<tab, storage, life, now, faults, auto, acted, left>>

(* A navigation inside the app keeps everything in memory. *)
Follow(t, path) ==
    /\ OnPage(t) /\ Shown(t) = "app" /\ tab[t].at # path /\ tab[t].at \in Paths
    /\ tab' = [tab EXCEPT ![t].at = path]
    /\ UNCHANGED <<storage, session, life, now, faults, toggles, auto, acted, left>>

Tick ==
    /\ now < MaxTime
    /\ now' = now + 1
    /\ UNCHANGED <<tab, storage, session, life, faults, toggles, auto, acted, left>>

Next ==
    \/ \E t \in Tabs: Recover(t)
    \/ \E t \in Tabs: RedirectLeaves(t)
    \/ \E t \in Tabs: RedirectFails(t)
    \/ \E t \in Tabs: ProviderAnswers(t)
    \/ \E t \in Tabs: CallbackWithoutResponse(t)
    \/ \E t \in Tabs: NoSession(t)
    \/ \E t \in Tabs: BeginExchange(t)
    \/ \E t \in Tabs: SignedIn(t)
    \/ \E t \in Tabs: ExchangeFails(t)
    \/ \E t \in Tabs: Renew(t)
    \/ \E t \in Tabs, at \in Paths \cup {Callback}: Load(t, at)
    \/ \E t \in Tabs: Login(t)
    \/ \E t \in Tabs: Logout(t)
    \/ \E t \in Tabs: SignedOut(t)
    \/ OtherApp
    \/ \E t \in Tabs, p \in Paths: Follow(t, p)
    \/ Tick

Spec == Init /\ [][Next]_vars

-----------------------------------------------------------------------------
(* A page that shows Loading... still has something to wait for: its own   *)
(* recovery, a redirect, the callback, or the message that it failed.      *)
NeverStuckLoading ==
    \A t \in Tabs:
        OnPage(t) /\ Shown(t) = "Loading..." =>
            \/ tab[t].recovering
            \/ tab[t].preparing # Nothing
            \/ tab[t].callback \in {"started", "exchanging", "failed"}

(* A tab left alone asks once who is signed in.  Then it renews at most    *)
(* once in each usable life of a token, or at most MAX_FUTILE_RENEWALS     *)
(* times when tokens are of no use on arrival, whatever fails between.     *)
(* It does not hold of tokens whose timer overflows, which the code renews *)
(* in a loop.                                                              *)
NoRedirectStorm ==
    ~TimerOverflows =>
        \A t \in Tabs:
            IF life > RenewSkew
              THEN auto[t] * (life - RenewSkew) <= (life - RenewSkew) + (now - acted[t])
              ELSE auto[t] <= 1 + MaxFutile

(* Who logged out of a tab stays out of it until they click Log in, even   *)
(* when the provider has a session again or a renewal was pending, unless  *)
(* that renewal's redirect left the page ahead of the sign-out's: then the *)
(* user comes back signed in.                                              *)
SignedOutStays == \A t \in Tabs: left[t] \in {"out", "beside"} => tab[t].state # "authenticated"

(* What a sign-in by redirects must keep, whatever fails and whatever the  *)
(* other tabs do (AuthContext.tsx, AuthCallback.tsx).                      *)
SignInSound == NeverStuckLoading /\ NoRedirectStorm /\ SignedOutStays
=============================================================================
