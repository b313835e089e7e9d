------------------------------ MODULE Session ------------------------------
(***************************************************************************)
(* The session of one account in one browser: the tabs (AuthProvider, the  *)
(* routes and the pages that call it), the refresh cookie that they share, *)
(* and the services behind it (the auth service's token rotation, the      *)
(* profile service's onboarding).  A call is a request on its way through  *)
(* the services, one statement of a database a step.  A tick is ten        *)
(* seconds; a call takes less than one.                                    *)
(***************************************************************************)
EXTENDS Integers, FiniteSets

CONSTANTS
    Tabs,
    MaxTokens,      \* bound: refresh tokens; one that matters to nobody is used again
    Paths,          \* where a tab may be opened, or go
    Grace,          \* ticks for which a rotated token is taken for a repeated request
    Retry,          \* ticks until a refresh that the network lost is repeated
    Life,           \* ticks until a new access token is renewed
    MaxFaults       \* bound: calls begun beside another one, left, or lost, and failed statements

ASSUME SessionAssumption ==
    /\ Paths \subseteq {"/", "/perfil", "/sala", "/login", "/cadastro"}
    /\ {MaxTokens, Grace, Retry, Life, MaxFaults} \subseteq Nat

VARIABLES
    tab,        \* per tab: its AuthState, path, timers, and a pending answer of Google
    calls,      \* requests and answers on the way
    cookie,     \* the refresh token that the browser holds
    db,         \* table refresh_tokens
    account,    \* "none", or the status of the user's row in the auth service
    profile,    \* the user has a row in the profile service
    faults,     \* how many of them there were
    disturbed   \* history: calls overlapped, a statement failed, or a refresh was lost that
                \* is not repeated: a tab's first one, or that of a tab that is gone

vars == <<tab, calls, cookie, db, account, profile, faults, disturbed>>

services == <<db, account, profile>>

Tokens == 1 .. MaxTokens
NoToken == 0

(***************************************************************************)
(* Tabs.                                                                   *)
(***************************************************************************)
\* timer is the session's timeout (none, or the ticks left); retries are those of
\* refreshSession, which nothing cancels.
ClosedTab ==
    [phase |-> "closed", status |-> "none", path |-> "/login", timer |-> {}, retries |-> {},
     google |-> FALSE]

Signed(s) == s.phase = "authenticated"

EntryPaths == {"/login", "/cadastro"}

\* The effect of Routes: it runs when the phase or the path changed, not for another status.
Routes(old, new) ==
    IF new.phase = old.phase /\ new.path = old.path THEN new.path
    ELSE CASE new.phase = "anonymous" /\ new.path \notin EntryPaths -> "/login"
           [] new.phase = "authenticated" /\ new.status = "onboarding_pending" -> "/perfil"
           [] new.phase = "authenticated" /\ new.status = "active" /\ new.path \in EntryPaths -> "/"
           [] OTHER -> new.path

\* A tab shows its new state; the answer of Google, part of the address, goes with the path.
Show(t, new) ==
    tab' = [tab EXCEPT ![t] =
        [new EXCEPT !.path = Routes(tab[t], new),
                    !.google = @ /\ Routes(tab[t], new) = tab[t].path]]

\* The reducer's AUTHENTICATED and ANONYMOUS, with the effect of every new session object:
\* its timeout is set anew.  Mutant: the effect depends on the phase alone.
AuthenticatedOnPhase(s, status) ==
    [s EXCEPT !.phase = "authenticated", !.status = status,
              !.timer = IF s.phase = "authenticated" THEN @ ELSE {Life}]

Authenticated(s, status) ==
    [s EXCEPT !.phase = "authenticated", !.status = status, !.timer = {Life}]

Anonymous(s) == [s EXCEPT !.phase = "anonymous", !.status = "none", !.timer = {}]

(***************************************************************************)
(* Calls.  cookie is what the browser sent along; row and made are the     *)
(* tokens that the service works on; page says whether the page that made  *)
(* the call is still there.                                                *)
(***************************************************************************)
Call(t, kind) ==
    [tab |-> t, kind |-> kind, page |-> TRUE, step |-> "sent", cookie |-> cookie,
     row |-> NoToken, made |-> NoToken, status |-> "none"]

\* What may go wrong, a few times in a behaviour: calls overlap, are left, lost, or fail.
Fault == faults < MaxFaults /\ faults' = faults + 1

InFlight(t, kind) == \E c \in calls : c.tab = t /\ c.kind = kind /\ c.page

\* A page that is left and loaded again is one fault.
Reloads(t, kind) == kind = "boot" /\ \A c \in calls : c.tab = t /\ ~c.page

Begin(t, kind) ==
    /\ ~InFlight(t, kind)
    /\ calls' = calls \cup {Call(t, kind)}
    /\ IF calls = {} \/ Reloads(t, kind) THEN UNCHANGED <<faults, disturbed>>
                                         ELSE Fault /\ disturbed' = TRUE

Goes(c, to) == calls' = (calls \ {c}) \cup {to}

\* A refusal of a token that a logout revoked is a refusal of none.
Refused(c) ==
    [c EXCEPT !.step = "refused", !.row = NoToken,
              !.cookie = IF @ # NoToken /\ db[@].state = "out" THEN NoToken ELSE @]
Lost(c) == [c EXCEPT !.step = "lost", !.status = "none", !.made = NoToken]
Answered(c, status, made) ==
    [c EXCEPT !.step = "ok", !.status = status, !.row = NoToken, !.made = made]

Blank == [state |-> "none", family |-> NoToken, age |-> 0]

Init ==
    /\ tab = [t \in Tabs |-> ClosedTab]
    /\ calls = {}
    /\ cookie = NoToken
    /\ db = [k \in Tokens |-> Blank]
    /\ account = "none"
    /\ profile = FALSE
    /\ faults = 0
    /\ disturbed = FALSE

-----------------------------------------------------------------------------
(***************************************************************************)
(* The auth service: table refresh_tokens.  "rotated", "out" and "ended"   *)
(* are all revoked: by a rotation, a logout, or the reuse of a token.      *)
(***************************************************************************)
\* The tokens that the browser, or a call, may still present.
Presented ==
    {cookie} \cup {c.row : c \in calls} \cup {c.made : c \in {d \in calls : d.page}}
             \cup {c.cookie : c \in {d \in calls : d.step \in {"sent", "family", "reuse"}}}

\* A token that nobody can present matters only as the active one of a family of which
\* another one can be presented; of several such one is enough.
Matters(k, presented) ==
    LET Related == {j \in Tokens : db[j].state # "none" /\ db[j].family = db[k].family}
    IN  \/ k \in presented
        \/ /\ db[k].state = "active"
           /\ Related \cap presented # {}
           /\ \A j \in Related \ presented : db[j].state = "active" => k <= j

Unused == {k \in Tokens : ~Matters(k, Presented)}
NewToken == CHOOSE k \in Unused : \A j \in Unused : k <= j
NewFamily == CHOOSE f \in Tokens \ {db[j].family : j \in Tokens \ Unused} : TRUE

Insert(k, family) ==
    db' = [db EXCEPT ![k] = [state |-> "active", family |-> family, age |-> 0]]

\* What nobody can present any more is left out.
Forget == db' = [k \in Tokens |-> IF Matters(k, Presented') THEN db[k] ELSE Blank]

RevokeWhere(which(_), how) ==
    db' = [k \in Tokens |->
            IF db[k].state = "active" /\ which(k)
            THEN [db[k] EXCEPT !.state = how, !.age = 0] ELSE db[k]]

\* Signup, Login and GoogleAuth; an account is made if there is none.
LoginServed ==
    \E c \in calls :
        /\ c.kind = "login" /\ c.step = "sent" /\ Unused # {}
        /\ account' = IF account = "none" THEN "onboarding_pending" ELSE account
        /\ Insert(NewToken, NewFamily)
        /\ Goes(c, Answered(c, account', NewToken))
        /\ UNCHANGED <<tab, cookie, profile, faults, disturbed>>

\* Wrong credentials.
LoginRefused ==
    \E c \in calls :
        /\ c.kind = "login" /\ c.step = "sent"
        /\ Goes(c, Refused(c))
        /\ UNCHANGED <<tab, cookie, services, faults, disturbed>>

\* Mutant: no grace.
graceOfNothing(row) == FALSE

IsWithinGracePeriod(row) == row.age <= Grace

Refreshes(c) == c.kind \in {"boot", "refresh"}

\* FindByTokenHash.
Find ==
    \E c \in calls :
        /\ Refreshes(c) /\ c.step = "sent"
        /\ Goes(c, CASE c.cookie = NoToken -> Refused(c)
                     [] c.cookie # NoToken /\ db[c.cookie].state = "active" ->
                            [c EXCEPT !.step = "revoke", !.row = c.cookie]
                     [] c.cookie # NoToken /\ db[c.cookie].state # "active"
                            /\ IsWithinGracePeriod(db[c.cookie]) -> [c EXCEPT !.step = "family"]
                     [] OTHER -> [c EXCEPT !.step = "reuse"])
        /\ UNCHANGED <<tab, cookie, services, faults, disturbed>>

\* Mutant: within the grace period the family's active token stays as it is.
KeepsActive ==
    \E c \in calls :
        /\ c.step = "family"
        /\ \/ \E k \in Tokens :
                /\ db[k].state = "active" /\ db[k].family = db[c.cookie].family
                /\ Goes(c, [c EXCEPT !.step = "create", !.row = k])
           \/ /\ ~\E k \in Tokens : db[k].state = "active" /\ db[k].family = db[c.cookie].family
              /\ Goes(c, Refused(c))
        /\ UNCHANGED <<tab, cookie, services, faults, disturbed>>

\* FindActiveByFamilyID; of several it is the latest, here any.
FindActive ==
    \E c \in calls :
        /\ c.step = "family"
        /\ \/ \E k \in Tokens :
                /\ db[k].state = "active" /\ db[k].family = db[c.cookie].family
                /\ Goes(c, [c EXCEPT !.step = "revoke", !.row = k])
           \/ /\ ~\E k \in Tokens : db[k].state = "active" /\ db[k].family = db[c.cookie].family
              /\ Goes(c, Refused(c))
        /\ UNCHANGED <<tab, cookie, services, faults, disturbed>>

\* RevokeByID does not ask whether the token is revoked already.
Revoke ==
    \E c \in calls :
        /\ c.step = "revoke"
        /\ db' = [db EXCEPT ![c.row].state = "rotated", ![c.row].age = 0]
        /\ Goes(c, [c EXCEPT !.step = "create"])
        /\ UNCHANGED <<tab, cookie, account, profile, faults, disturbed>>

\* Create, and IssueAccessTokenForUser, which may fail (IssueFails).
Create ==
    \E c \in calls :
        /\ c.step = "create" /\ Unused # {}
        /\ Insert(NewToken, db[c.row].family)
        /\ Goes(c, Answered(c, account, NewToken))
        /\ UNCHANGED <<tab, cookie, account, profile, faults, disturbed>>

\* The reuse of a token after its grace ends the family.
RevokeFamily ==
    \E c \in calls :
        /\ c.step = "reuse"
        /\ LET OfFamily(k) == db[k].family = db[c.cookie].family IN RevokeWhere(OfFamily, "ended")
        /\ Goes(c, Refused(c))
        /\ UNCHANGED <<tab, cookie, account, profile, faults, disturbed>>

LogoutServed ==
    \E c \in calls :
        /\ c.kind = "logout" /\ c.step = "sent"
        /\ LET OfUser(k) == TRUE IN RevokeWhere(OfUser, "out")
        /\ Goes(c, Answered(c, "none", NoToken))
        /\ UNCHANGED <<tab, cookie, account, profile, faults, disturbed>>

(***************************************************************************)
(* The profile service: CompleteProfile, with a photo uploaded before.     *)
(***************************************************************************)
\* The nickname may be taken; the photo is consumed all the same.
Upsert ==
    \E c \in calls :
        /\ c.kind = "profile" /\ c.step = "sent"
        /\ \/ profile' = TRUE /\ Goes(c, [c EXCEPT !.step = "activate"])
           \/ profile' = profile /\ Goes(c, Refused(c))
        /\ UNCHANGED <<tab, cookie, db, account, faults, disturbed>>

\* Mutant: the account is activated before the profile is stored.
ActivateFirst ==
    \E c \in calls :
        /\ c.kind = "profile" /\ c.step \in {"sent", "activate"}
        /\ account' = "active"
        /\ Goes(c, Answered(c, "active", NoToken))
        /\ UNCHANGED <<tab, cookie, db, profile, faults, disturbed>>

ActivateUser ==
    \E c \in calls :
        /\ c.kind = "profile" /\ c.step = "activate"
        /\ account' = "active"
        /\ Goes(c, Answered(c, "active", NoToken))
        /\ UNCHANGED <<tab, cookie, db, profile, faults, disturbed>>

(***************************************************************************)
(* Faults: the network loses a request or an answer; a statement fails.    *)
(***************************************************************************)
Lose ==
    \E c \in calls :
        /\ Fault
        /\ c.step \in {"sent", "ok", "refused"}
        /\ Goes(c, Lost(c))
        /\ disturbed' = (disturbed \/ c.kind = "boot")
        /\ UNCHANGED <<tab, cookie, services>>

StatementFails ==
    \E c \in calls :
        /\ Fault
        /\ c.step \in {"revoke", "create", "reuse", "activate"}
        /\ Goes(c, Refused(c))
        /\ disturbed' = TRUE
        /\ UNCHANGED <<tab, cookie, services>>

\* The access token of a call that has done its work cannot be issued, or the tokens of a
\* new account: the answer is an error, and what was stored stays.
IssueFails ==
    \E c \in calls :
        /\ Fault
        /\ \/ /\ c.step = "create" /\ Unused # {}
              /\ Insert(NewToken, db[c.row].family)
              /\ UNCHANGED account
           \/ /\ c.step = "activate"
              /\ account' = "active"
              /\ UNCHANGED db
           \/ /\ c.kind = "login" /\ c.step = "sent" /\ account = "none"
              /\ account' = "onboarding_pending"
              /\ UNCHANGED db
        /\ Goes(c, Refused(c))
        /\ disturbed' = TRUE
        /\ UNCHANGED <<tab, cookie, profile>>

-----------------------------------------------------------------------------
(***************************************************************************)
(* AuthProvider: what a call's answer, or its loss, does to the tab.       *)
(***************************************************************************)
BootAnswered(s, c) ==
    CASE s.phase # "checking" -> s
      [] s.phase = "checking" /\ c.step = "ok" -> Authenticated(s, c.status)
      [] OTHER -> Anonymous(s)

\* Mutant: every failure is taken for one of the network.
RefreshAlwaysRetried(s, c) ==
    CASE c.step = "ok" -> Authenticated(s, c.status)
      [] OTHER -> [s EXCEPT !.retries = @ \cup {Retry}]

RefreshAnswered(s, c) ==
    CASE c.step = "ok"      -> Authenticated(s, c.status)
      [] c.step = "refused" -> Anonymous(s)
      [] OTHER              -> [s EXCEPT !.retries = @ \cup {Retry}]

\* login and completeProfile, and the pages' navigate("/").
EntryAnswered(s, c) ==
    IF c.step = "ok" THEN [Authenticated(s, c.status) EXCEPT !.path = "/"] ELSE s

Answer(s, c) ==
    CASE c.kind = "boot"    -> BootAnswered(s, c)
      [] c.kind = "refresh" -> RefreshAnswered(s, c)
      [] c.kind = "logout"  -> Anonymous(s)
      [] OTHER              -> EntryAnswered(s, c)

\* The answer's Set-Cookie.
CookieAfter(c) ==
    CASE c.step = "ok" /\ c.made # NoToken -> c.made
      [] c.step = "ok" /\ c.kind = "logout" -> NoToken
      [] OTHER -> cookie

Deliver ==
    \E c \in calls :
        /\ c.step \in {"ok", "refused", "lost"}
        /\ calls' = calls \ {c}
        /\ IF c.page
           THEN Show(c.tab, Answer(tab[c.tab], c)) /\ cookie' = CookieAfter(c)
           ELSE UNCHANGED <<tab, cookie>>
        /\ Forget
        /\ UNCHANGED <<account, profile, faults, disturbed>>

RenewalDue(t) ==
    /\ 0 \in tab[t].timer
    /\ Begin(t, "refresh")
    /\ tab' = [tab EXCEPT ![t].timer = {}]
    /\ UNCHANGED <<cookie, services>>

RetryDue(t) ==
    /\ 0 \in tab[t].retries
    /\ Begin(t, "refresh")
    /\ tab' = [tab EXCEPT ![t].retries = @ \ {0}]
    /\ UNCHANGED <<cookie, services>>

(***************************************************************************)
(* The user.                                                               *)
(***************************************************************************)
Open(t) ==
    /\ tab[t].phase = "closed"
    /\ Begin(t, "boot")
    /\ \E p \in Paths : tab' = [tab EXCEPT ![t] = [ClosedTab EXCEPT !.phase = "checking", !.path = p]]
    /\ UNCHANGED <<cookie, services>>

\* The page goes: its calls go on in the services, and nobody waits for their answers.
Abandons(t) == tab[t].retries # {} \/ \E c \in calls : c.tab = t /\ c.page

Close(t) ==
    /\ tab[t].phase # "closed"
    /\ tab' = [tab EXCEPT ![t] = ClosedTab]
    /\ calls' = {[c EXCEPT !.page = @ /\ c.tab # t] : c \in calls}
    /\ IF Abandons(t) THEN Fault /\ disturbed' = TRUE ELSE UNCHANGED <<faults, disturbed>>
    /\ UNCHANGED <<cookie, services>>

Navigate(t) ==
    /\ tab[t].phase \in {"anonymous", "authenticated"}
    /\ \E p \in Paths : Show(t, [tab[t] EXCEPT !.path = p])
    /\ tab' # tab
    /\ UNCHANGED <<calls, cookie, services, faults, disturbed>>

OnLoginPage(t) == tab[t].phase = "anonymous" /\ tab[t].path \in EntryPaths

\* handleSubmit of LoginPage, and of SignupPage.
Login(t) ==
    /\ OnLoginPage(t) /\ tab[t].path = "/login"
    /\ Begin(t, "login")
    /\ UNCHANGED <<tab, cookie, services>>

Signup(t) ==
    /\ OnLoginPage(t) /\ tab[t].path = "/cadastro"
    /\ Begin(t, "login")
    /\ UNCHANGED <<tab, cookie, services>>

\* The page is left for Google's, which loads it again with its answer in the address.
startGoogleLogin(t) ==
    /\ OnLoginPage(t) /\ tab[t].path = "/login" /\ ~tab[t].google
    /\ calls = {}
    /\ Begin(t, "boot")
    /\ tab' = [tab EXCEPT ![t] = [ClosedTab EXCEPT !.phase = "checking", !.google = TRUE]]
    /\ UNCHANGED <<cookie, services>>

\* Whether Google's answer is one that counts: it may be an error, or of another state.
consumeGoogleCallback(t) == {ok \in BOOLEAN : tab[t].google}

\* LoginPage's effect.
GoogleCallback(t) ==
    /\ OnLoginPage(t) /\ tab[t].path = "/login"
    /\ \E ok \in consumeGoogleCallback(t) :
          /\ tab' = [tab EXCEPT ![t].google = FALSE]
          /\ IF ok THEN Begin(t, "login") ELSE UNCHANGED <<calls, faults, disturbed>>
    /\ UNCHANGED <<cookie, services>>

Logout(t) ==
    /\ Signed(tab[t])
    /\ Begin(t, "logout")
    /\ UNCHANGED <<tab, cookie, services>>

\* ProfilePage, handleSubmit of a user who has no profile yet.
CompleteProfile(t) ==
    /\ Signed(tab[t]) /\ tab[t].path = "/perfil" /\ tab[t].status = "onboarding_pending"
    /\ Begin(t, "profile")
    /\ UNCHANGED <<tab, cookie, services>>

(***************************************************************************)
(* Time.  Timeouts that are due fire before it goes on.                    *)
(***************************************************************************)
Older(s) == {n - 1 : n \in s}

Tick ==
    /\ calls = {}
    /\ \A t \in Tabs : 0 \notin tab[t].timer \cup tab[t].retries
    /\ \E t \in Tabs : tab[t].phase # "closed"
    /\ tab' = [t \in Tabs |-> [tab[t] EXCEPT !.timer = Older(@), !.retries = Older(@)]]
    /\ db' = [k \in Tokens |->
                IF db[k].state \in {"none", "active"} \/ db[k].age > Grace THEN db[k]
                ELSE [db[k] EXCEPT !.age = @ + 1]]
    /\ UNCHANGED <<calls, cookie, account, profile, faults, disturbed>>

-----------------------------------------------------------------------------
AuthService == LoginServed \/ LoginRefused \/ Find \/ FindActive \/ Revoke \/ Create
               \/ RevokeFamily \/ LogoutServed
ProfileService == Upsert \/ ActivateUser
Faults == Lose \/ StatementFails \/ IssueFails

Timeouts == \E t \in Tabs : RenewalDue(t) \/ RetryDue(t)
User == \E t \in Tabs :
            \/ Open(t) \/ Close(t) \/ Navigate(t) \/ Login(t) \/ Signup(t)
            \/ startGoogleLogin(t) \/ GoogleCallback(t) \/ Logout(t) \/ CompleteProfile(t)

Next == AuthService \/ ProfileService \/ Faults \/ Deliver \/ Timeouts \/ User \/ Tick

Spec == Init /\ [][Next]_vars

\* Services, network, timers and time go on; users need not.
Serves == AuthService \/ ProfileService \/ Deliver
LeftCallGoesOn == Serves /\ {c \in calls : c.page} = {c \in calls' : c.page}

Fairness ==
    /\ WF_vars(Serves) /\ WF_vars(LeftCallGoesOn)
    /\ SF_vars(Timeouts \/ Tick)

FairSpec == Spec /\ Fairness

-----------------------------------------------------------------------------
(***************************************************************************)
(* Properties.                                                             *)
(***************************************************************************)
Statuses == {"none", "onboarding_pending", "active"}

\* No tab is thrown out of a session that goes on: who is authenticated stays so until
\* somebody logs out, even when an answer with the new cookie is lost.
Ended(t) ==
    \E c \in calls \ calls' :
        /\ c.tab = t
        /\ c.kind = "logout" \/ c.cookie = NoToken
StaysIn ==
    [][\A t \in Tabs : Signed(tab[t]) /\ tab'[t].phase = "anonymous" => Ended(t) \/ disturbed]_vars

\* A family has one active token, after repeated requests, too.
OneActiveToken ==
    disturbed \/ \A j, k \in Tokens :
        db[j].state = "active" /\ db[k].state = "active" /\ db[j].family = db[k].family => j = k

\* Whoever is logged in has a renewal to come, whatever became of the last one; and a tab
\* that checks for a session waits for an answer or its loss.
RenewalIsPending ==
    \A t \in Tabs :
        /\ Signed(tab[t]) => tab[t].timer # {} \/ tab[t].retries # {} \/ InFlight(t, "refresh")
        /\ tab[t].phase = "checking" => InFlight(t, "boot")

\* Only who has a profile is active, in whatever order the services fail.
ActiveHasProfile == account = "active" => profile

\* A logout reaches the browser's other tabs.
OutEverywhere ==
    \A t \in Tabs : Signed(tab[t]) /\ cookie = NoToken ~> ~Signed(tab[t]) \/ cookie # NoToken
=============================================================================
