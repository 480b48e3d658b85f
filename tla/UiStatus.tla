------------------------------ MODULE UiStatus ------------------------------
(***************************************************************************)
(* How the QR manager's browser app rates its backend and comes back from  *)
(* an outage: useApiStatus (packages/ui-runtime) with its recovery probe,  *)
(* the API client that reports every request, the counter App bumps when   *)
(* the status returns to ok, and the pages that load again on it.          *)
(*                                                                         *)
(* React is external: a setState is remembered in wanted, and Render shows *)
(* it and runs the effects that depend on it, so several setStates may be  *)
(* shown as one.  An answer is reported when its headers arrive, and its   *)
(* body is read afterwards.                                                *)
(***************************************************************************)
EXTENDS Naturals, FiniteSets

CONSTANTS Requests,    \* requests that can be under way at a time
          MaxDoublings,\* doublings of the delay until maxDelayMs
          MaxActs,     \* bound on what the user does
          MaxTroubles, \* bound on outages, lost sessions, broken bodies, events
          Nothing      \* null

VARIABLES api,       \* "up", "failing" (5xx), "gone" (fetch rejects), or "offline",
                     \* when the browser knows why
          session,   \* the access token is accepted
          visible,   \* document.visibilityState
          status,    \* the status as rendered (statusRef)
          wanted,    \* as last set
          offlineRef,
          probe,     \* of the effect in force: its stage and its delay
          bump,      \* setRecoveryCount has been called and not rendered
          page,      \* the page shown
          request,   \* each request
          dropped,   \* what the probe found was set back before it was rendered
          acts, troubles

vars == <<api, session, visible, status, wanted, offlineRef, probe, bump, page, request,
          dropped, acts, troubles>>

Statuses == {"ok", "degraded", "unreachable", "unauthenticated"}
Free == [stage |-> "free", what |-> "load", mine |-> FALSE]
NoProbe == [stage |-> "none", delay |-> 0]

(* statusForOutcome of classifyResponse and classifyError. *)
StatusForOutcome(outcome) ==
    CASE outcome \in {"success", "client-error"} -> "ok"
      [] outcome = "unauthorized" -> "unauthenticated"
      [] outcome = "server-error" -> "degraded"
      [] outcome = "network" -> "unreachable"
Outcomes ==
    CASE api \in {"gone", "offline"} -> {"network"}
      [] api = "failing" -> {"server-error"}
      [] api = "up" /\ ~session -> {"unauthorized"}
      [] OTHER -> {"success", "client-error"}

(* A page as it mounts: the create form loads nothing.  held says that the *)
(* detail page has a code (qrCode), blamed that a load's failure was       *)
(* reported as the backend's or the session's, late that the recovery to   *)
(* follow was announced before the page showed it.                         *)
Mounted(name) == [name |-> name, load |-> IF name = "create" THEN "loaded" ELSE "loading",
                  error |-> FALSE, busy |-> FALSE, held |-> FALSE, blamed |-> FALSE, late |-> FALSE]

Init ==
    /\ api = "up" /\ session = TRUE /\ visible = TRUE
    /\ status = "ok" /\ wanted = "ok" /\ offlineRef = Nothing
    /\ probe = NoProbe /\ bump = FALSE
    /\ \E name \in {"list", "detail", "create"}, q \in Requests:
         /\ page = Mounted(name)
         /\ request = [r \in Requests |->
              IF r = q /\ name # "create" THEN [stage |-> "sent", what |-> "load", mine |-> TRUE] ELSE Free]
    /\ dropped = FALSE
    /\ acts = 0 /\ troubles = 0

TypeOK ==
    /\ {status, wanted} \subseteq Statuses /\ offlineRef \in Statuses \cup {Nothing}
    /\ probe \in [stage: {"none", "waiting", "asking"}, delay: 0 .. MaxDoublings]
    /\ page \in [name: {"list", "detail", "create"}, load: {"loading", "loaded", "failed"},
                 error: BOOLEAN, busy: BOOLEAN, held: BOOLEAN, blamed: BOOLEAN, late: BOOLEAN]
    /\ request \in [Requests -> [stage: {"free", "sent", "reading", "refused", "rejected", "wrong"},
                                 what: {"load", "update", "remove", "create"}, mine: BOOLEAN]]

-----------------------------------------------------------------------------
(* The client.  send() is the seam every call passes through. *)
Send(q, what) == [stage |-> "sent", what |-> what, mine |-> TRUE]

(* The page a route renders: the one there is, when only its id or its     *)
(* filter is another.                                                      *)
Moved(name) == IF page.name = name THEN page ELSE Mounted(name)

(* What is under way as it renders: the load effect cancels what a load    *)
(* would set, and a page that is left shows nothing more.  No request is.  *)
Cancelled(name) ==
    [q \in Requests |-> IF request[q].what = "load" \/ page.name # name
                          THEN [request[q] EXCEPT !.mine = FALSE] ELSE request[q]]

(* The load effect: what it had under way is cancelled, a request is sent. *)
LoadInto(next, q, requests) ==
    /\ requests[q].stage = "free"
    /\ page' = [next EXCEPT !.load = "loading", !.error = FALSE, !.blamed = FALSE, !.late = FALSE]
    /\ request' = [requests EXCEPT ![q] = Send(q, "load")]

Mount(name) ==
    IF name = "create"
      THEN page' = Moved(name) /\ request' = Cancelled(name)
      ELSE \E q \in Requests: LoadInto(Moved(name), q, Cancelled(name))

(* The page's own load was reported as failed and is not shown as such.    *)
Unshown == \E q \in Requests: request[q].mine /\ request[q].what = "load"
                               /\ request[q].stage \in {"refused", "rejected"}

(* A page that the next recovery cannot tell to load again.                *)
TooLate(next) == [next EXCEPT !.late = @ \/ Unshown]

(* setStatus.  React shows only the last of several: a probe that has      *)
(* ended with a success is not begun anew by the status it was to clear,   *)
(* and a failure cleared before it was shown is followed by no recovery.   *)
SetStatus(value) ==
    /\ wanted' = value
    /\ dropped' = (dropped \/ (value = status /\ wanted # value /\ value # "ok" /\ probe.stage = "none"))
    /\ page' = IF value = "ok" /\ status = "ok" /\ wanted # "ok"
                 THEN [TooLate(page) EXCEPT !.late = @ \/ page.blamed] ELSE page

(* report(): the outcome overrules what the offline event had put aside.   *)
Report(outcome) ==
    /\ offlineRef' = Nothing
    /\ SetStatus(StatusForOutcome(outcome))

(* The headers arrive, or fetch rejects: reported at once, in send().      *)
Answered(q) ==
    /\ request[q].stage = "sent"
    /\ \E outcome \in Outcomes:
         /\ Report(outcome)
         /\ request' = [request EXCEPT ![q].stage = CASE outcome = "success" -> "reading"
                                                      [] outcome = "network" -> "rejected"
                                                      [] outcome = "client-error" -> "wrong"
                                                      [] OTHER -> "refused"]
    /\ UNCHANGED <<api, session, visible, status, probe, bump, acts, troubles>>

(* The rest of the call: the body of a refusal becomes the error, of a     *)
(* success the result.                                                     *)
Outcome(q) ==
    CASE request[q].stage \in {"refused", "rejected", "wrong"} -> {"failed"}
      [] request[q].stage = "reading" -> {"loaded"}
      [] OTHER -> {}

(* Loads: setItems / setQrCode, or setError, unless cancelled. *)
LoadEnds(q) ==
    /\ request[q].what = "load"
    /\ request' = [request EXCEPT ![q] = Free]
    /\ \E end \in Outcome(q):
         IF request[q].mine
           THEN page' = [page EXCEPT !.load = end, !.error = end = "failed",
                                     !.held = @ \/ (end = "loaded" /\ page.name = "detail"),
                                     !.blamed = request[q].stage \in {"refused", "rejected"}]
           ELSE UNCHANGED page
    /\ UNCHANGED <<api, session, visible, status, wanted, offlineRef, probe, bump, dropped, acts, troubles>>

(* Answered well, and then the body breaks off, is not a list, or the code *)
(* is not in it: a failure beside a healthy status.  A 204 has no body.    *)
Breaks(q) ==
    /\ request[q].what # "remove" /\ request[q].stage = "reading" /\ troubles < MaxTroubles
    /\ troubles' = troubles + 1
    /\ request' = [request EXCEPT ![q] = Free]
    /\ page' = CASE ~request[q].mine -> page
                 [] request[q].what = "load" -> [page EXCEPT !.load = "failed", !.error = TRUE]
                 [] OTHER -> [page EXCEPT !.busy = FALSE, !.error = TRUE]
    /\ UNCHANGED <<api, session, visible, status, wanted, offlineRef, probe, bump, dropped, acts>>

(* save, toggleActive: the page keeps its draft whatever the answer.       *)
UpdateEnds(q) ==
    /\ request[q].what = "update"
    /\ \E end \in Outcome(q):
         page' = IF request[q].mine THEN [page EXCEPT !.busy = FALSE, !.error = end = "failed"] ELSE page
    /\ request' = [request EXCEPT ![q] = Free]
    /\ UNCHANGED <<api, session, visible, status, wanted, offlineRef, probe, bump, dropped, acts, troubles>>

(* remove and create: a failure frees the form... *)
FormFails(q) ==
    /\ request[q].what \in {"remove", "create"}
    /\ request[q].stage \in {"refused", "rejected", "wrong"}
    /\ request' = [request EXCEPT ![q] = Free]
    /\ page' = IF request[q].mine THEN [page EXCEPT !.busy = FALSE, !.error = TRUE] ELSE page
    /\ UNCHANGED <<api, session, visible, status, wanted, offlineRef, probe, bump, dropped, acts, troubles>>

(* ...and a success navigates, from wherever the user is by now: to the    *)
(* list, which is not loaded again if it is the page shown, or to the code.*)
Destination(q) == IF request[q].what = "remove" THEN "list" ELSE "detail"
FormNavigates(q) ==
    /\ request[q].what \in {"remove", "create"}
    /\ request[q].stage = "reading"
    /\ IF Destination(q) = "list" /\ page.name = "list"
         THEN request' = [request EXCEPT ![q] = Free] /\ UNCHANGED page
         ELSE \E r \in Requests:
                LoadInto(Moved(Destination(q)), r, [Cancelled(Destination(q)) EXCEPT ![q] = Free])
    /\ UNCHANGED <<api, session, visible, status, wanted, offlineRef, probe, bump, dropped, acts, troubles>>

-----------------------------------------------------------------------------
(* useApiStatus. *)

(* mutant: only an outage is probed, not a lost session *)
ProbeEffectOfOutage(shown) ==
    IF shown \in {"ok", "unauthenticated"} THEN NoProbe ELSE [stage |-> "waiting", delay |-> 0]

(* The probe effect runs anew whenever another status is rendered: what    *)
(* the previous one had under way is cancelled.                            *)
ProbeEffect(shown) == IF shown = "ok" THEN NoProbe ELSE [stage |-> "waiting", delay |-> 0]

(* React renders: the effects of the status run, App's counter among them. *)
Render ==
    /\ status # wanted
    /\ status' = wanted
    /\ probe' = ProbeEffect(wanted)
    /\ bump' = (bump \/ wanted = "ok")
    /\ dropped' = FALSE
    /\ UNCHANGED <<api, session, visible, wanted, offlineRef, page, request, acts, troubles>>

(* mutant: the pages are not told of a recovery *)
RecoveryUntold ==
    /\ bump
    /\ bump' = FALSE
    /\ page' = TooLate(page)
    /\ UNCHANGED <<api, session, visible, status, wanted, offlineRef, probe, request, dropped, acts, troubles>>

(* The counter is rendered: a page whose last load failed loads again, one *)
(* that has its code ignores it (the create form has nothing to load).     *)
Recovery ==
    /\ bump
    /\ bump' = FALSE
    /\ IF page.name # "create" /\ page.error /\ ~page.held
         THEN \E q \in Requests: LoadInto(page, q, Cancelled(page.name))
         ELSE page' = TooLate(page) /\ UNCHANGED request
    /\ UNCHANGED <<api, session, visible, status, wanted, offlineRef, probe, dropped, acts, troubles>>

(* The timer fires: a hidden tab only schedules it again. *)
ProbeFires ==
    /\ probe.stage = "waiting"
    /\ probe' = IF visible THEN [probe EXCEPT !.stage = "asking"] ELSE probe
    /\ UNCHANGED <<api, session, visible, status, wanted, offlineRef, bump, page, request, dropped,
                   acts, troubles>>

(* The probe is an authenticated list call that reports to nobody. *)
Recovered == "success" \in Outcomes

ProbeAnswers ==
    /\ probe.stage = "asking"
    /\ IF Recovered
         THEN SetStatus("ok") /\ probe' = NoProbe
         ELSE /\ probe' = [stage |-> "waiting",
                           delay |-> IF probe.delay < MaxDoublings THEN probe.delay + 1 ELSE probe.delay]
              /\ UNCHANGED <<wanted, dropped, page>>
    /\ UNCHANGED <<api, session, visible, status, offlineRef, bump, request, acts, troubles>>

GoOffline ==
    /\ api # "offline" /\ troubles < MaxTroubles
    /\ troubles' = troubles + 1
    /\ api' = "offline"
    /\ offlineRef' = IF offlineRef = Nothing THEN status ELSE offlineRef
    /\ SetStatus("unreachable")
    /\ UNCHANGED <<session, visible, status, probe, bump, request, acts>>

(* online says nothing about the backend: what was there is restored.      *)
GoOnline ==
    /\ api = "offline"
    /\ api' = "up"
    /\ offlineRef' = Nothing
    /\ IF offlineRef = Nothing THEN UNCHANGED <<wanted, dropped, page>> ELSE SetStatus(offlineRef)
    /\ UNCHANGED <<session, visible, status, probe, bump, request, acts, troubles>>

-----------------------------------------------------------------------------
(* The world and the user. *)
Trouble ==
    /\ troubles < MaxTroubles
    /\ troubles' = troubles + 1
    /\ \/ api = "up" /\ api' \in {"failing", "gone"} /\ UNCHANGED session
       \/ session /\ session' = FALSE /\ UNCHANGED api
    /\ UNCHANGED <<visible, status, wanted, offlineRef, probe, bump, page, request, dropped, acts>>

Mended ==
    /\ \/ api \in {"failing", "gone"} /\ api' = "up" /\ UNCHANGED session
       \/ ~session /\ session' = TRUE /\ UNCHANGED api
    /\ UNCHANGED <<visible, status, wanted, offlineRef, probe, bump, page, request, dropped, acts,
                   troubles>>

Switch ==
    /\ acts < MaxActs
    /\ acts' = acts + 1
    /\ visible' = ~visible
    /\ UNCHANGED <<api, session, status, wanted, offlineRef, probe, bump, page, request, dropped, troubles>>

(* Another route, or another filter of the list: a fresh load.             *)
Visit(name) ==
    /\ acts < MaxActs
    /\ acts' = acts + 1
    /\ Mount(name)
    /\ UNCHANGED <<api, session, visible, status, wanted, offlineRef, probe, bump, dropped, troubles>>

(* The forms: one request at a time, and only of what is shown. *)
Submit(q, what) ==
    /\ acts < MaxActs
    /\ acts' = acts + 1
    /\ ~page.busy
    /\ page.name = IF what = "create" THEN "create" ELSE "detail"
    /\ what # "create" => page.held
    /\ request[q].stage = "free"
    /\ request' = [request EXCEPT ![q] = Send(q, what)]
    /\ page' = [page EXCEPT !.busy = TRUE, !.error = FALSE]
    /\ UNCHANGED <<api, session, visible, status, wanted, offlineRef, probe, bump, dropped, troubles>>

Next ==
    \/ \E q \in Requests: Answered(q)
    \/ \E q \in Requests: LoadEnds(q)
    \/ \E q \in Requests: Breaks(q)
    \/ \E q \in Requests: UpdateEnds(q)
    \/ \E q \in Requests: FormFails(q)
    \/ \E q \in Requests: FormNavigates(q)
    \/ Render
    \/ Recovery
    \/ ProbeFires
    \/ ProbeAnswers
    \/ GoOffline
    \/ GoOnline
    \/ Trouble
    \/ Mended
    \/ Switch
    \/ \E name \in {"list", "detail", "create"}: Visit(name)
    \/ \E q \in Requests, what \in {"update", "remove", "create"}: Submit(q, what)

Spec == Init /\ [][Next]_vars

(* Timers fire, requests end and React renders. *)
Fairness ==
    /\ \A q \in Requests: WF_vars(Answered(q))
    /\ \A q \in Requests: WF_vars(LoadEnds(q)) /\ WF_vars(UpdateEnds(q))
    /\ \A q \in Requests: WF_vars(FormFails(q)) /\ WF_vars(FormNavigates(q))
    /\ WF_vars(Render) /\ WF_vars(Recovery)
    /\ WF_vars(ProbeFires) /\ WF_vars(ProbeAnswers)

FairSpec == Spec /\ Fairness

-----------------------------------------------------------------------------
Calm == api = "up" /\ session /\ visible

(* Back to normal.  Two races are left to the user for as long as they     *)
(* last: what the probe found was set back before it was rendered, and a   *)
(* recovery was announced before the page showed its failure.              *)
BackToNormal ==
    /\ status = "ok" \/ dropped
    /\ (page.load = "failed" /\ page.blamed /\ ~page.held) => (page.late \/ dropped)

(* When the API answers again for good, to a user who is signed in and     *)
(* looking, the banner goes away by itself, and a page that the outage     *)
(* left with nothing to show loads again (useApiStatus.ts, App.tsx, the    *)
(* pages).                                                                 *)
OutageEnds == <>[]Calm => <>[]BackToNormal
=============================================================================
