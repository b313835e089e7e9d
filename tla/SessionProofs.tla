--------------------------- MODULE SessionProofs ----------------------------
(***************************************************************************)
(* The session of an account, for any number of tabs, tokens, faults and   *)
(* paths, and any grace, retry and life times: whoever is logged in has a  *)
(* renewal to come, only who has a profile is active, and, as long as no   *)
(* two calls overlap and no statement fails, a family of refresh tokens    *)
(* has one active member; with one lost answer at most, repeated within    *)
(* the grace, nobody is thrown out of a session that goes on.              *)
(***************************************************************************)
EXTENDS Session, FiniteSetTheorems, WellFoundedInduction, TLAPS

AllPaths  == {"/", "/perfil", "/sala", "/login", "/cadastro"}
AnyToken  == Tokens \cup {NoToken}
CallKinds == {"boot", "refresh", "login", "logout", "profile"}
CallSteps == {"sent", "revoke", "family", "reuse", "create", "activate", "ok", "refused", "lost"}

TabStates ==
    [phase : {"closed", "checking", "anonymous", "authenticated"}, status : Statuses,
     path : AllPaths, timer : SUBSET Int, retries : SUBSET Int, google : BOOLEAN]

CallRecords ==
    [tab : Tabs, kind : CallKinds, page : BOOLEAN, step : CallSteps, cookie : AnyToken,
     row : AnyToken, made : AnyToken, status : Statuses]

TokenStates == {"none", "active", "rotated", "out", "ended"}

TokenRows == [state : TokenStates, family : AnyToken, age : Int]

\* A call that works on a token has one.
HasRow(c) == c.step \in {"revoke", "create"} => c.row \in Tokens

Typed ==
    /\ tab \in [Tabs -> TabStates]
    /\ calls \subseteq CallRecords
    /\ \A c \in calls : HasRow(c)
    /\ cookie \in AnyToken
    /\ db \in [Tokens -> TokenRows]
    /\ account \in Statuses
    /\ profile \in BOOLEAN
    /\ disturbed \in BOOLEAN

(***************************************************************************)
(* The inductive invariant, beside RenewalIsPending.                       *)
(***************************************************************************)
ProfileInv == ActiveHasProfile /\ \A c \in calls : c.step = "activate" => profile

\* While nothing has disturbed it, one call at a time works on the tokens: it has
\* found the active one of its family, or has revoked it and makes the next.
FamilyIsFree(f) == \A k \in Tokens : db[k].state = "active" => db[k].family # f

UniqueActive ==
    \A j, k \in Tokens :
        db[j].state = "active" /\ db[k].state = "active" /\ db[j].family = db[k].family => j = k

\* Nothing else is kept while no call is on its way, nor when a login is.
OnlyWhatMatters == \A k \in Tokens : db[k].state # "none" => Matters(k, {cookie})

AloneInv ==
    /\ \A c, d \in calls : c = d
    /\ \A c \in calls :
          /\ c.page
          /\ c.step = "revoke" => db[c.row].state = "active"
          /\ c.step = "create" => FamilyIsFree(db[c.row].family)
    /\ UniqueActive
    /\ (\A c \in calls : c.kind = "login" /\ c.step = "sent") => OnlyWhatMatters

TokenInv == ~disturbed => AloneInv

-----------------------------------------------------------------------------
(***************************************************************************)
(* New tokens and new families.                                            *)
(***************************************************************************)

\* A finite set of numbers in which each has a smaller one is empty.
LEMMA NoLeast ==
    ASSUME NEW T, T \subseteq Nat, IsFiniteSet(T), \A u \in T : \E v \in T : v < u
    PROVE  T = {}
<1> DEFINE Below(u) == {v \in T : v < u}
           Sets == {Below(u) : u \in T}
<1>1. Sets \subseteq FiniteSubsetsOf(T)
  BY FS_FiniteSubsetsOfFinite
<1>2. IsWellFoundedOn(StrictSubsetOrdering(T), FiniteSubsetsOf(T))
  BY FS_StrictSubsetOrderingWellFounded
<1> SUFFICES ASSUME Sets # {} PROVE FALSE
  OBVIOUS
<1>3. PICK A \in Sets : \A B \in Sets : <<B, A>> \notin StrictSubsetOrdering(T)
  <2> HIDE DEF Sets
  <2> QED BY <1>1, <1>2, WFMin
<1>4. PICK u \in T : A = Below(u)
  OBVIOUS
<1>5. PICK v \in T : v < u
  OBVIOUS
<1>6. Below(v) \subseteq Below(u) /\ v \in Below(u) /\ v \notin Below(v)
  <2>1. u \in Nat /\ v \in Nat
    OBVIOUS
  <2>2. \A w \in T : w \in Nat /\ (w < v => w < u)
    BY <1>5, <2>1
  <2>3. ~(v < v)
    BY <2>1
  <2> QED BY <1>5, <2>2, <2>3
<1>7. <<Below(v), Below(u)>> \in StrictSubsetOrdering(T)
  BY <1>6 DEF StrictSubsetOrdering
<1> QED BY <1>3, <1>4, <1>7

LEMMA TokensFinite ==
    /\ Tokens \subseteq Nat /\ IsFiniteSet(Tokens) /\ NoToken \notin Tokens
    /\ \A S \in SUBSET Tokens : IsFiniteSet(S)
<1>1. MaxTokens \in Nat
  BY SessionAssumption
<1>2. IsFiniteSet(Tokens) /\ Tokens \subseteq Nat
  BY <1>1, FS_Interval DEF Tokens
<1>3. \A S \in SUBSET Tokens : IsFiniteSet(S)
  BY <1>2, FS_Subset
<1>4. NoToken \notin Tokens
  BY DEF Tokens, NoToken
<1> QED BY <1>2, <1>3, <1>4

LEMMA NewTokenIsUnused ==
    ASSUME Unused # {}
    PROVE  NewToken \in Unused
<1>1. Unused \subseteq Tokens
  BY DEF Unused
<1>2. \E k \in Unused : \A j \in Unused : k <= j
  <2>1. PICK k \in Unused : \A j \in Unused : ~(j < k)
    BY <1>1, TokensFinite, NoLeast
  <2>2. \A j \in Unused : j \in Nat /\ k \in Nat
    BY <1>1, TokensFinite
  <2> QED BY <2>1, <2>2
<1> QED BY <1>2 DEF NewToken

LEMMA NewFamilyIsNew ==
    ASSUME Unused # {}
    PROVE  NewFamily \in Tokens \ {db[j].family : j \in Tokens \ Unused}
<1> DEFINE T == Tokens \ Unused
           F == {db[j].family : j \in T}
           f == [j \in T |-> db[j].family]
<1>1. T \subseteq Tokens /\ T # Tokens /\ IsFiniteSet(T)
  BY TokensFinite DEF Unused
<1>2. Cardinality(T) < Cardinality(Tokens) /\ Cardinality(Tokens) \in Nat /\ Cardinality(T) \in Nat
  BY <1>1, TokensFinite, FS_Subset, FS_CardinalityType
<1>3. f \in Surjection(T, F)
  BY DEF Surjection
<1>4. IsFiniteSet(F) /\ Cardinality(F) <= Cardinality(T)
  <2> HIDE DEF f, F, T
  <2> QED BY <1>1, <1>3, FS_Surjection
<1>5. \E x : x \in Tokens \ F
  <2> SUFFICES ASSUME Tokens \subseteq F PROVE FALSE
    OBVIOUS
  <2>1. Cardinality(Tokens) <= Cardinality(F) /\ Cardinality(F) \in Nat
    <3> HIDE DEF F
    <3> QED BY <1>4, FS_Subset, FS_CardinalityType
  <2> HIDE DEF F, T
  <2> QED BY <1>2, <1>4, <2>1
<1> QED BY <1>5 DEF NewFamily

-----------------------------------------------------------------------------
(***************************************************************************)
(* A call goes on its way: it stays the call of its page.                  *)
(***************************************************************************)
SameCall(c, to) ==
    /\ to \in CallRecords /\ HasRow(to) /\ to.step # "sent"
    /\ to.tab = c.tab /\ to.kind = c.kind /\ to.page = c.page

LEMMA RefusedIsSame ==
    ASSUME Typed, NEW c \in calls
    PROVE  SameCall(c, Refused(c)) /\ Refused(c).step = "refused"
<1> DEFINE k == IF c.cookie # NoToken /\ db[c.cookie].state = "out" THEN NoToken ELSE c.cookie
<1>1. c \in CallRecords /\ k \in AnyToken
  BY DEF Typed, CallRecords, AnyToken, NoToken
<1>2. Refused(c) = [c EXCEPT !.step = "refused", !.row = NoToken, !.cookie = k]
  BY DEF Refused
<1> HIDE DEF k
<1>3. NoToken \in AnyToken /\ "refused" \in CallSteps
  BY DEF AnyToken, CallSteps
<1> QED BY <1>1, <1>2, <1>3 DEF SameCall, HasRow, CallRecords

LEMMA LostIsSame ==
    ASSUME Typed, NEW c \in calls
    PROVE  SameCall(c, Lost(c)) /\ Lost(c).step = "lost"
<1>1. c \in CallRecords /\ NoToken \in AnyToken /\ "lost" \in CallSteps /\ "none" \in Statuses
  BY DEF Typed, AnyToken, CallSteps, Statuses
<1> QED BY <1>1 DEF SameCall, HasRow, CallRecords, Lost

LEMMA AnsweredIsSame ==
    ASSUME Typed, NEW c \in calls, NEW status \in Statuses, NEW made \in AnyToken
    PROVE  /\ SameCall(c, Answered(c, status, made)) /\ Answered(c, status, made).step = "ok"
           /\ Answered(c, status, made).status = status
<1>1. c \in CallRecords /\ NoToken \in AnyToken /\ "ok" \in CallSteps
  BY DEF Typed, AnyToken, CallSteps
<1> QED BY <1>1 DEF SameCall, HasRow, CallRecords, Answered

LEMMA StepIsSame ==
    ASSUME Typed, NEW c \in calls, NEW step \in CallSteps, step # "sent",
           step \in {"revoke", "create"} => c.row \in Tokens
    PROVE  /\ SameCall(c, [c EXCEPT !.step = step])
           /\ [c EXCEPT !.step = step].step = step /\ [c EXCEPT !.step = step].row = c.row
BY DEF Typed, HasRow, SameCall, CallRecords

Found(c, k) == [c EXCEPT !.step = "revoke", !.row = k]

LEMMA FoundIsSame ==
    ASSUME Typed, NEW c \in calls, NEW k \in Tokens
    PROVE  SameCall(c, Found(c, k)) /\ Found(c, k).step = "revoke" /\ Found(c, k).row = k
<1>1. c \in CallRecords /\ k \in AnyToken /\ "revoke" \in CallSteps
  BY DEF Typed, AnyToken, CallSteps
<1> QED BY <1>1 DEF SameCall, HasRow, CallRecords, Found

-----------------------------------------------------------------------------
(***************************************************************************)
(* What the services and faults do to a call and to the tables.            *)
(***************************************************************************)
LEMMA InsertType ==
    ASSUME Typed, NEW k, NEW family \in AnyToken, Insert(k, family)
    PROVE  db' \in [Tokens -> TokenRows]
<1>1. [state |-> "active", family |-> family, age |-> 0] \in TokenRows
  BY DEF TokenRows, TokenStates
<1> QED BY <1>1 DEF Typed, Insert

Over(r, how) == [r EXCEPT !.state = how, !.age = 0]

LEMMA OverType ==
    ASSUME NEW r \in TokenRows, NEW how \in TokenStates
    PROVE  Over(r, how) \in TokenRows /\ Over(r, how).state = how /\ Over(r, how).family = r.family
<1> DEFINE s == [r EXCEPT !.state = how]
<1>1. s \in TokenRows /\ s.state = how /\ s.family = r.family
  BY DEF TokenRows
<1>2. Over(r, how) = [s EXCEPT !.age = 0]
  BY DEF Over
<1> HIDE DEF s
<1>3. 0 \in Int
  OBVIOUS
<1> QED BY <1>1, <1>2, <1>3 DEF TokenRows

\* Tokens that are revoked, those of a set.
Revoking(S, how) ==
    db' = [k \in Tokens |-> IF db[k].state = "active" /\ k \in S THEN Over(db[k], how) ELSE db[k]]

LEMMA RevokingType ==
    ASSUME Typed, NEW how \in TokenStates, NEW S, Revoking(S, how)
    PROVE  /\ db' \in [Tokens -> TokenRows]
           /\ \A k \in Tokens : db'[k] = db[k] \/ db'[k] = Over(db[k], how)
BY OverType DEF Typed, Revoking

\* The step that a service makes with a call, or a fault: nothing of the tabs and of the
\* browser's cookie changes.
Served(c, to) ==
    /\ c \in calls /\ Goes(c, to) /\ SameCall(c, to)
    /\ UNCHANGED <<tab, cookie>>
    /\ db' \in [Tokens -> TokenRows] /\ account' \in Statuses /\ profile' \in BOOLEAN
    /\ disturbed' \in BOOLEAN /\ (disturbed => disturbed')
    /\ (profile => profile') /\ (to.step = "activate" => profile')
    /\ account' = "active" => account = "active" \/ c.step = "activate"

LEMMA RevokeIsOver ==
    ASSUME Typed, Revoke
    PROVE  \E c \in calls :
               /\ c.step = "revoke"
               /\ db' = [db EXCEPT ![c.row] = Over(@, "rotated")]
               /\ Goes(c, [c EXCEPT !.step = "create"])
               /\ UNCHANGED <<tab, cookie, account, profile, faults, disturbed>>
<1>1. PICK c \in calls :
         /\ c.step = "revoke"
         /\ db' = [db EXCEPT ![c.row].state = "rotated", ![c.row].age = 0]
         /\ Goes(c, [c EXCEPT !.step = "create"])
         /\ UNCHANGED <<tab, cookie, account, profile, faults, disturbed>>
  BY DEF Revoke
<1> DEFINE r == c.row
           d == [db EXCEPT ![r].state = "rotated"]
<1>2. r \in Tokens
  BY <1>1 DEF Typed, HasRow
<1>3. d = [db EXCEPT ![r] = [db[r] EXCEPT !.state = "rotated"]]
  OBVIOUS
<1>4. d[r] = [db[r] EXCEPT !.state = "rotated"]
  BY <1>2 DEF Typed
<1>5. db' = [d EXCEPT ![r] = [d[r] EXCEPT !.age = 0]]
  BY <1>1
<1>6. Over(db[r], "rotated") = [d[r] EXCEPT !.age = 0]
  BY <1>4 DEF Over
<1>7. [d EXCEPT ![r] = [d[r] EXCEPT !.age = 0]] = [db EXCEPT ![r] = Over(db[r], "rotated")]
  <2> DEFINE x == Over(db[r], "rotated")
  <2>1. d \in [Tokens -> {d[k] : k \in Tokens}]
    BY <1>2 DEF Typed
  <2> HIDE DEF x
  <2> QED BY <1>2, <1>3, <1>6 DEF Typed, x
<1> QED BY <1>1, <1>5, <1>7

LEMMA FamilyIsRevoked ==
    ASSUME RevokeFamily
    PROVE  \E c \in calls :
               /\ c.step = "reuse"
               /\ Revoking({k \in Tokens : db[k].family = db[c.cookie].family}, "ended")
               /\ Goes(c, Refused(c))
               /\ UNCHANGED <<tab, cookie, account, profile, faults, disturbed>>
<1>1. PICK c \in calls :
         /\ c.step = "reuse"
         /\ db' = [k \in Tokens |->
                     IF db[k].state = "active" /\ db[k].family = db[c.cookie].family
                     THEN Over(db[k], "ended") ELSE db[k]]
         /\ Goes(c, Refused(c))
         /\ UNCHANGED <<tab, cookie, account, profile, faults, disturbed>>
  BY DEF RevokeFamily, RevokeWhere, Over
<1> QED BY <1>1 DEF Revoking

LEMMA LogoutRevokes ==
    ASSUME LogoutServed
    PROVE  \E c \in calls :
               /\ c.kind = "logout" /\ c.step = "sent"
               /\ Revoking(Tokens, "out")
               /\ Goes(c, Answered(c, "none", NoToken))
               /\ UNCHANGED <<tab, cookie, account, profile, faults, disturbed>>
<1>1. PICK c \in calls :
         /\ c.kind = "logout" /\ c.step = "sent"
         /\ db' = [k \in Tokens |->
                     IF db[k].state = "active" /\ TRUE THEN Over(db[k], "out") ELSE db[k]]
         /\ Goes(c, Answered(c, "none", NoToken))
         /\ UNCHANGED <<tab, cookie, account, profile, faults, disturbed>>
  BY DEF LogoutServed, RevokeWhere, Over
<1> QED BY <1>1 DEF Revoking

LEMMA LoginIsServed ==
    ASSUME Typed, LoginServed \/ LoginRefused
    PROVE  \E c \in calls : \E to : Served(c, to) /\ to.step \in {"ok", "refused"}
<1>1. CASE LoginServed
  <2>1. PICK c \in calls :
           /\ Unused # {}
           /\ account' = IF account = "none" THEN "onboarding_pending" ELSE account
           /\ Insert(NewToken, NewFamily)
           /\ Goes(c, Answered(c, account', NewToken))
           /\ UNCHANGED <<tab, cookie, profile, faults, disturbed>>
    BY <1>1 DEF LoginServed
  <2>2. NewToken \in AnyToken /\ NewFamily \in AnyToken /\ account' \in Statuses
    BY <2>1, NewTokenIsUnused, NewFamilyIsNew DEF Unused, AnyToken, Typed, Statuses
  <2>3. db' \in [Tokens -> TokenRows]
    BY <2>1, <2>2, InsertType
  <2> QED BY <2>1, <2>2, <2>3, AnsweredIsSame DEF Served, Typed
<1>2. CASE LoginRefused
  <2>1. PICK c \in calls : Goes(c, Refused(c)) /\ UNCHANGED <<tab, cookie, services, faults, disturbed>>
    BY <1>2 DEF LoginRefused
  <2> QED BY <2>1, RefusedIsSame DEF Served, Typed, services
<1> QED BY <1>1, <1>2

LEMMA FindIsServed ==
    ASSUME Typed, NEW c \in calls, Refreshes(c), c.step = "sent",
           Goes(c, CASE c.cookie = NoToken -> Refused(c)
                     [] c.cookie # NoToken /\ db[c.cookie].state = "active" ->
                            [c EXCEPT !.step = "revoke", !.row = c.cookie]
                     [] c.cookie # NoToken /\ db[c.cookie].state # "active"
                            /\ IsWithinGracePeriod(db[c.cookie]) -> [c EXCEPT !.step = "family"]
                     [] OTHER -> [c EXCEPT !.step = "reuse"]),
           UNCHANGED <<tab, cookie, services, faults, disturbed>>
    PROVE  \E to : /\ Served(c, to) /\ to.step \in {"refused", "revoke", "family", "reuse"}
                   /\ to.step = "revoke" => to.row \in Tokens /\ db[to.row].state = "active"
<1>1. c \in CallRecords /\ c.cookie \in AnyToken
  BY DEF Typed, CallRecords
<1>2. ASSUME NEW to, Goes(c, to), SameCall(c, to), to.step # "activate"
      PROVE  Served(c, to)
  BY <1>2 DEF Served, Typed, services
<1>3. CASE c.cookie = NoToken
  BY <1>2, <1>3, RefusedIsSame
<1>4. CASE c.cookie # NoToken /\ db[c.cookie].state = "active"
  <2>1. Goes(c, Found(c, c.cookie))
    BY <1>4 DEF Found
  <2>2. c.cookie \in Tokens
    BY <1>1, <1>4 DEF AnyToken
  <2> QED BY <1>2, <1>4, <2>1, <2>2, FoundIsSame
<1>5. CASE c.cookie # NoToken /\ db[c.cookie].state # "active"
  <2>1. \E step \in {"family", "reuse"} : Goes(c, [c EXCEPT !.step = step])
    BY <1>5
  <2> QED BY <1>2, <2>1, StepIsSame DEF CallSteps
<1> QED BY <1>3, <1>4, <1>5

LEMMA AuthIsServed ==
    ASSUME Typed, AuthService \/ ProfileService \/ Faults
    PROVE  \E c \in calls : \E to : Served(c, to)
<1>1. CASE LoginServed \/ LoginRefused
  BY <1>1, LoginIsServed
<1>2. CASE Find
  BY <1>2, FindIsServed DEF Find
<1>3. CASE FindActive
  <2>1. PICK c \in calls :
           /\ (\E k \in Tokens : Goes(c, Found(c, k))) \/ Goes(c, Refused(c))
           /\ UNCHANGED <<tab, cookie, services, faults, disturbed>>
    BY <1>3 DEF FindActive, Found
  <2>2. ASSUME NEW to, Goes(c, to), SameCall(c, to), to.step # "activate"
        PROVE  Served(c, to)
    BY <2>1, <2>2 DEF Served, Typed, services
  <2> QED BY <2>1, <2>2, FoundIsSame, RefusedIsSame
<1>4. CASE Revoke
  <2>1. PICK c \in calls :
           /\ c.step = "revoke"
           /\ db' = [db EXCEPT ![c.row] = Over(@, "rotated")]
           /\ Goes(c, [c EXCEPT !.step = "create"])
           /\ UNCHANGED <<tab, cookie, account, profile, faults, disturbed>>
    BY <1>4, RevokeIsOver
  <2>2. db' \in [Tokens -> TokenRows] /\ c.row \in Tokens
    BY <2>1, OverType DEF Typed, HasRow, TokenStates
  <2> QED BY <2>1, <2>2, StepIsSame DEF Served, Typed, CallSteps
<1>5. CASE Create
  <2>1. PICK c \in calls :
           /\ Unused # {}
           /\ Insert(NewToken, db[c.row].family)
           /\ Goes(c, Answered(c, account, NewToken))
           /\ UNCHANGED <<tab, cookie, account, profile, faults, disturbed>>
           /\ c.step = "create"
    BY <1>5 DEF Create
  <2>2. NewToken \in AnyToken
    BY <2>1, NewTokenIsUnused DEF Unused, AnyToken
  <2>3. c.row \in Tokens /\ db[c.row].family \in AnyToken
    BY <2>1 DEF Typed, HasRow, TokenRows
  <2>4. db' \in [Tokens -> TokenRows]
    BY <2>1, <2>3, InsertType
  <2> QED BY <2>1, <2>2, <2>4, AnsweredIsSame DEF Served, Typed
<1>6. CASE RevokeFamily
  <2>1. PICK c \in calls :
           /\ Revoking({k \in Tokens : db[k].family = db[c.cookie].family}, "ended")
           /\ Goes(c, Refused(c))
           /\ UNCHANGED <<tab, cookie, account, profile, faults, disturbed>>
    BY <1>6, FamilyIsRevoked
  <2>2. db' \in [Tokens -> TokenRows]
    BY <2>1, RevokingType DEF TokenStates
  <2> QED BY <2>1, <2>2, RefusedIsSame DEF Served, Typed
<1>7. CASE LogoutServed
  <2>1. PICK c \in calls :
           /\ Revoking(Tokens, "out")
           /\ Goes(c, Answered(c, "none", NoToken))
           /\ UNCHANGED <<tab, cookie, account, profile, faults, disturbed>>
    BY <1>7, LogoutRevokes
  <2>2. db' \in [Tokens -> TokenRows]
    BY <2>1, RevokingType DEF TokenStates
  <2> QED BY <2>1, <2>2, AnsweredIsSame DEF Served, Typed, Statuses, AnyToken
<1>8. CASE Upsert
  <2>1. PICK c \in calls :
           /\ \/ profile' = TRUE /\ Goes(c, [c EXCEPT !.step = "activate"])
              \/ profile' = profile /\ Goes(c, Refused(c))
           /\ UNCHANGED <<tab, cookie, db, account, faults, disturbed>>
    BY <1>8 DEF Upsert
  <2>2. profile' \in BOOLEAN
    BY <2>1 DEF Typed
  <2>3. profile => profile'
    BY <2>1
  <2>4. SameCall(c, [c EXCEPT !.step = "activate"])
    BY StepIsSame DEF CallSteps
  <2>5. CASE profile'
    BY <2>1, <2>2, <2>3, <2>4, <2>5, RefusedIsSame DEF Served, Typed
  <2>6. CASE ~profile'
    BY <2>1, <2>2, <2>3, <2>6, RefusedIsSame DEF Served, Typed
  <2> QED BY <2>5, <2>6
<1>9. CASE ActivateUser
  <2>1. PICK c \in calls :
           /\ c.step = "activate" /\ account' = "active" /\ Goes(c, Answered(c, "active", NoToken))
           /\ UNCHANGED <<tab, cookie, db, profile, faults, disturbed>>
    BY <1>9 DEF ActivateUser
  <2> QED BY <2>1, AnsweredIsSame DEF Served, Typed, Statuses, AnyToken
<1>10. CASE Lose
  <2>1. PICK c \in calls :
           /\ Goes(c, Lost(c)) /\ disturbed' = (disturbed \/ c.kind = "boot")
           /\ UNCHANGED <<tab, cookie, services>>
    BY <1>10 DEF Lose
  <2> QED BY <2>1, LostIsSame DEF Served, Typed, services
<1>11. CASE StatementFails
  <2>1. PICK c \in calls :
           /\ Goes(c, Refused(c)) /\ disturbed' = TRUE
           /\ UNCHANGED <<tab, cookie, services>>
    BY <1>11 DEF StatementFails
  <2> QED BY <2>1, RefusedIsSame DEF Served, Typed, services
<1>12. CASE IssueFails
  <2>1. PICK c \in calls :
           /\ \/ /\ c.step = "create" /\ Unused # {}
                 /\ Insert(NewToken, db[c.row].family)
                 /\ UNCHANGED account
              \/ c.step = "activate" /\ account' = "active" /\ UNCHANGED db
              \/ account' = "onboarding_pending" /\ UNCHANGED db
           /\ Goes(c, Refused(c)) /\ disturbed' = TRUE
           /\ UNCHANGED <<tab, cookie, profile>>
    BY <1>12 DEF IssueFails
  <2>2. account' \in Statuses
    BY <2>1 DEF Typed, Statuses
  <2>3. db' \in [Tokens -> TokenRows]
    <3>1. CASE UNCHANGED db
      BY <3>1 DEF Typed
    <3>2. CASE c.step = "create" /\ Unused # {} /\ Insert(NewToken, db[c.row].family)
      <4>1. db[c.row].family \in AnyToken
        BY <2>1, <3>2 DEF Typed, HasRow, TokenRows
      <4> QED BY <3>2, <4>1, InsertType
    <3> QED BY <2>1, <3>1, <3>2
  <2>4. account' = "active" => account = "active" \/ c.step = "activate"
    BY <2>1
  <2>5. profile' \in BOOLEAN /\ profile' = profile
    BY <2>1 DEF Typed
  <2>6. Goes(c, Refused(c)) /\ SameCall(c, Refused(c)) /\ Refused(c).step = "refused"
    BY <2>1, RefusedIsSame
  <2> QED BY <2>1, <2>2, <2>3, <2>4, <2>5, <2>6 DEF Served
<1> QED BY <1>1, <1>2, <1>3, <1>4, <1>5, <1>6, <1>7, <1>8, <1>9, <1>10, <1>11, <1>12
        DEF AuthService, ProfileService, Faults

-----------------------------------------------------------------------------
(***************************************************************************)
(* What an answer does to a tab.                                           *)
(***************************************************************************)
LEMMA AuthenticatedIs ==
    ASSUME NEW s \in TabStates, NEW status \in Statuses
    PROVE  LET a == Authenticated(s, status)
           IN  /\ a \in TabStates /\ a.phase = "authenticated" /\ a.timer # {}
               /\ [a EXCEPT !.path = "/"] \in TabStates
               /\ [a EXCEPT !.path = "/"].phase = "authenticated"
               /\ [a EXCEPT !.path = "/"].timer # {}
<1> DEFINE a == Authenticated(s, status)
<1>1. {Life} \in SUBSET Int
  BY SessionAssumption
<1>2. a \in TabStates /\ a.phase = "authenticated" /\ a.timer = {Life}
  BY <1>1 DEF Authenticated, TabStates
<1> HIDE DEF a
<1>3. /\ [a EXCEPT !.path = "/"] \in TabStates
      /\ [a EXCEPT !.path = "/"].phase = "authenticated"
      /\ [a EXCEPT !.path = "/"].timer = {Life}
  BY <1>2 DEF TabStates, AllPaths
<1> QED BY <1>2, <1>3 DEF a

LEMMA AnonymousIs ==
    ASSUME NEW s \in TabStates
    PROVE  Anonymous(s) \in TabStates /\ Anonymous(s).phase = "anonymous"
<1>1. {} \in SUBSET Int /\ "none" \in Statuses
  BY DEF Statuses
<1> QED BY <1>1 DEF Anonymous, TabStates

LEMMA RetriedIs ==
    ASSUME NEW s \in TabStates
    PROVE  LET r == [s EXCEPT !.retries = @ \cup {Retry}]
           IN  r \in TabStates /\ r.phase = s.phase /\ r.retries # {}
<1>1. Retry \in Int
  BY SessionAssumption
<1> QED BY <1>1 DEF TabStates

\* Whoever is logged in after an answer has a timer, or was before and keeps its timers; and
\* the first refresh of a page is answered once.
LEMMA AnswerIs ==
    ASSUME NEW s \in TabStates, NEW c \in CallRecords
    PROVE  LET a == Answer(s, c)
           IN  /\ a \in TabStates
               /\ Signed(a) => \/ a.timer # {}
                               \/ a.retries # {}
                               \/ Signed(s) /\ c.kind # "refresh" /\ a = s
               /\ a.phase = "checking" => s.phase = "checking" /\ c.kind # "boot"
<1> DEFINE a == Answer(s, c)
<1>1. c.status \in Statuses /\ c.kind \in CallKinds
  BY DEF CallRecords
<1>2. CASE c.kind = "boot"
  <2>1. (a = s /\ s.phase # "checking") \/ a = Authenticated(s, c.status) \/ a = Anonymous(s)
    BY <1>2 DEF Answer, BootAnswered
  <2> HIDE DEF a
  <2> QED BY <1>1, <1>2, <2>1, AuthenticatedIs, AnonymousIs DEF Signed, a
<1>3. CASE c.kind = "refresh"
  <2>1. a = Authenticated(s, c.status) \/ a = Anonymous(s)
        \/ a = [s EXCEPT !.retries = @ \cup {Retry}]
    BY <1>3 DEF Answer, RefreshAnswered
  <2> HIDE DEF a
  <2> QED BY <1>1, <1>3, <2>1, AuthenticatedIs, AnonymousIs, RetriedIs DEF Signed, a
<1>4. CASE c.kind = "logout"
  <2>1. a = Anonymous(s)
    BY <1>4 DEF Answer
  <2> HIDE DEF a
  <2> QED BY <2>1, AnonymousIs DEF Signed, a
<1>5. CASE c.kind \in {"login", "profile"}
  <2>1. a = s \/ a = [Authenticated(s, c.status) EXCEPT !.path = "/"]
    BY <1>5 DEF Answer, EntryAnswered
  <2> HIDE DEF a
  <2> QED BY <1>1, <1>5, <2>1, AuthenticatedIs DEF Signed, a
<1> QED BY <1>1, <1>2, <1>3, <1>4, <1>5 DEF CallKinds

LEMMA ShowIs ==
    ASSUME Typed, NEW t \in Tabs, NEW new \in TabStates, Show(t, new)
    PROVE  /\ tab' \in [Tabs -> TabStates]
           /\ tab'[t].phase = new.phase
           /\ tab'[t].timer = new.timer /\ tab'[t].retries = new.retries
           /\ \A u \in Tabs \ {t} : tab'[u] = tab[u]
<1> DEFINE path == Routes(tab[t], new)
           google == new.google /\ path = tab[t].path
           s == [new EXCEPT !.path = path, !.google = google]
<1>1. path \in AllPaths /\ google \in BOOLEAN
  BY DEF Routes, AllPaths, TabStates
<1>2. tab' = [tab EXCEPT ![t] = s]
  BY DEF Show
<1> HIDE DEF path, google
<1>3. s \in TabStates /\ s.phase = new.phase /\ s.timer = new.timer /\ s.retries = new.retries
  BY <1>1 DEF TabStates
<1> HIDE DEF s
<1> QED BY <1>2, <1>3 DEF Typed

-----------------------------------------------------------------------------
(***************************************************************************)
(* Every action keeps the types, and everybody who is logged in has a      *)
(* renewal to come.                                                        *)
(***************************************************************************)
LEMMA ServedKeeps ==
    ASSUME Typed, RenewalIsPending, NEW c, NEW to, Served(c, to)
    PROVE  Typed' /\ RenewalIsPending'
<1>1. calls' = (calls \ {c}) \cup {to} /\ SameCall(c, to) /\ c \in calls /\ UNCHANGED <<tab, cookie>>
  BY DEF Served, Goes
<1>2. Typed'
  BY <1>1 DEF Typed, Served, SameCall, HasRow
<1>3. ASSUME NEW t, NEW kind, InFlight(t, kind)
      PROVE  InFlight(t, kind)'
  BY <1>1, <1>3 DEF InFlight, SameCall
<1>4. RenewalIsPending'
  BY <1>1, <1>3 DEF RenewalIsPending, Signed
<1> QED BY <1>2, <1>4

LEMMA ForgetType ==
    ASSUME Typed, Forget
    PROVE  db' \in [Tokens -> TokenRows]
<1>1. Blank \in TokenRows
  BY DEF Blank, TokenRows, TokenStates, AnyToken
<1> QED BY <1>1 DEF Forget, Typed

LEMMA DeliverKeeps ==
    ASSUME Typed, RenewalIsPending, Deliver
    PROVE  Typed' /\ RenewalIsPending'
<1>1. PICK c \in calls :
         /\ calls' = calls \ {c}
         /\ IF c.page
            THEN Show(c.tab, Answer(tab[c.tab], c)) /\ cookie' = CookieAfter(c)
            ELSE UNCHANGED <<tab, cookie>>
         /\ Forget
         /\ UNCHANGED <<account, profile, faults, disturbed>>
  BY DEF Deliver
<1> DEFINE t == c.tab
           a == Answer(tab[t], c)
<1>2. c \in CallRecords /\ t \in Tabs /\ tab[t] \in TabStates
  BY DEF Typed, CallRecords
<1>3. db' \in [Tokens -> TokenRows]
  BY <1>1, ForgetType
<1>4. cookie' \in AnyToken
  BY <1>1, <1>2 DEF CookieAfter, Typed, CallRecords, AnyToken
<1>5. ASSUME NEW u, NEW kind, InFlight(u, kind), c.page => u # t \/ kind # c.kind
      PROVE  InFlight(u, kind)'
  BY <1>1, <1>5 DEF InFlight
<1>6. CASE ~c.page
  <2>1. UNCHANGED tab
    BY <1>1, <1>6
  <2>2. Typed'
    BY <1>1, <1>3, <1>4, <2>1 DEF Typed, HasRow
  <2> QED BY <1>5, <1>6, <2>1, <2>2 DEF RenewalIsPending, Signed
<1>7. CASE c.page
  <2>1. /\ a \in TabStates
        /\ Signed(a) => \/ a.timer # {} \/ a.retries # {}
                        \/ Signed(tab[t]) /\ c.kind # "refresh" /\ a = tab[t]
        /\ a.phase = "checking" => tab[t].phase = "checking" /\ c.kind # "boot"
    BY <1>2, AnswerIs
  <2> HIDE DEF a
  <2>2. Show(t, a)
    BY <1>1, <1>7 DEF a
  <2>3. /\ tab' \in [Tabs -> TabStates] /\ tab'[t].phase = a.phase
        /\ tab'[t].timer = a.timer /\ tab'[t].retries = a.retries
        /\ \A u \in Tabs \ {t} : tab'[u] = tab[u]
    BY <1>2, <2>1, <2>2, ShowIs
  <2>4. Typed'
    BY <1>1, <1>3, <1>4, <2>3 DEF Typed, HasRow
  <2>5. ASSUME NEW u \in Tabs \ {t}
        PROVE  /\ Signed(tab'[u]) => tab'[u].timer # {} \/ tab'[u].retries # {} \/ InFlight(u, "refresh")'
               /\ tab'[u].phase = "checking" => InFlight(u, "boot")'
    BY <1>5, <2>3 DEF RenewalIsPending
  <2>6. Signed(tab'[t]) => tab'[t].timer # {} \/ tab'[t].retries # {} \/ InFlight(t, "refresh")'
    BY <1>2, <1>5, <2>1, <2>3 DEF RenewalIsPending, Signed
  <2>7. tab'[t].phase = "checking" => InFlight(t, "boot")'
    BY <1>2, <1>5, <2>1, <2>3 DEF RenewalIsPending
  <2>8. RenewalIsPending'
    BY <2>5, <2>6, <2>7 DEF RenewalIsPending, Signed
  <2> QED BY <2>4, <2>8
<1> QED BY <1>6, <1>7

LEMMA BeginIs ==
    ASSUME Typed, NEW t \in Tabs, NEW kind \in CallKinds, Begin(t, kind)
    PROVE  /\ calls' \subseteq CallRecords /\ \A c \in calls' : HasRow(c)
           /\ InFlight(t, kind)'
           /\ \A u, k : InFlight(u, k) => InFlight(u, k)'
           /\ disturbed' \in BOOLEAN /\ (disturbed => disturbed')
<1> DEFINE new == Call(t, kind)
<1>1. calls' = calls \cup {new}
  BY DEF Begin
<1>2. /\ new \in CallRecords /\ HasRow(new)
      /\ new.tab = t /\ new.kind = kind /\ new.page
  BY DEF Call, CallRecords, HasRow, Typed, CallSteps, Statuses, AnyToken
<1> HIDE DEF new
<1>3. \A c \in calls' : HasRow(c)
  BY <1>1, <1>2 DEF Typed
<1>4. InFlight(t, kind)'
  BY <1>1, <1>2 DEF InFlight
<1>5. \A u, k : InFlight(u, k) => InFlight(u, k)'
  BY <1>1 DEF InFlight
<1>6. disturbed' \in BOOLEAN /\ (disturbed => disturbed')
  BY DEF Begin, Typed
<1> QED BY <1>1, <1>2, <1>3, <1>4, <1>5, <1>6 DEF Typed

\* A tab's new state, when it begins a call of a kind or none.
LEMMA TabKeeps ==
    ASSUME Typed, RenewalIsPending, NEW t \in Tabs, NEW s \in TabStates,
           tab' \in [Tabs -> TabStates], tab'[t].phase = s.phase,
           tab'[t].timer = s.timer, tab'[t].retries = s.retries,
           \A u \in Tabs \ {t} : tab'[u] = tab[u],
           calls' \subseteq CallRecords, \A c \in calls' : HasRow(c),
           \A u \in Tabs \ {t} : \A k : InFlight(u, k) => InFlight(u, k)',
           Signed(s) => s.timer # {} \/ s.retries # {} \/ InFlight(t, "refresh")',
           s.phase = "checking" => InFlight(t, "boot")',
           disturbed' \in BOOLEAN, UNCHANGED <<cookie, services>>
    PROVE  Typed' /\ RenewalIsPending'
<1>1. Typed'
  BY DEF Typed, services
<1>2. ASSUME NEW u \in Tabs \ {t}
      PROVE  /\ Signed(tab'[u]) => tab'[u].timer # {} \/ tab'[u].retries # {} \/ InFlight(u, "refresh")'
             /\ tab'[u].phase = "checking" => InFlight(u, "boot")'
  BY DEF RenewalIsPending
<1>3. /\ Signed(tab'[t]) => tab'[t].timer # {} \/ tab'[t].retries # {} \/ InFlight(t, "refresh")'
      /\ tab'[t].phase = "checking" => InFlight(t, "boot")'
  BY DEF Signed
<1>4. RenewalIsPending'
  BY <1>2, <1>3 DEF RenewalIsPending, Signed
<1> QED BY <1>1, <1>4

LEMMA TimeoutKeeps ==
    ASSUME Typed, RenewalIsPending, NEW t \in Tabs, RenewalDue(t) \/ RetryDue(t)
    PROVE  Typed' /\ RenewalIsPending'
<1>1. Begin(t, "refresh") /\ UNCHANGED <<cookie, services>>
  BY DEF RenewalDue, RetryDue
<1>2. /\ calls' \subseteq CallRecords /\ \A c \in calls' : HasRow(c)
      /\ InFlight(t, "refresh")'
      /\ \A u, k : InFlight(u, k) => InFlight(u, k)'
      /\ disturbed' \in BOOLEAN
  BY <1>1, BeginIs DEF CallKinds
<1>3. PICK s : /\ s \in TabStates /\ s.phase = tab[t].phase
               /\ tab' = [tab EXCEPT ![t] = s]
  <2>1. CASE RenewalDue(t)
    <3>1. [tab[t] EXCEPT !.timer = {}] \in TabStates /\ [tab[t] EXCEPT !.timer = {}].phase = tab[t].phase
      BY DEF Typed, TabStates
    <3>2. tab' = [tab EXCEPT ![t] = [tab[t] EXCEPT !.timer = {}]]
      BY <2>1 DEF RenewalDue
    <3> QED BY <3>1, <3>2
  <2>2. CASE RetryDue(t)
    <3> DEFINE r == tab[t].retries \ {0}
    <3>1. r \in SUBSET Int
      BY DEF Typed, TabStates
    <3>2. tab' = [tab EXCEPT ![t] = [tab[t] EXCEPT !.retries = r]]
      BY <2>2 DEF RetryDue
    <3> HIDE DEF r
    <3>3. [tab[t] EXCEPT !.retries = r] \in TabStates /\ [tab[t] EXCEPT !.retries = r].phase = tab[t].phase
      BY <3>1 DEF Typed, TabStates
    <3> QED BY <3>2, <3>3
  <2> QED BY <2>1, <2>2
<1>4. tab' \in [Tabs -> TabStates] /\ tab'[t] = s /\ \A u \in Tabs \ {t} : tab'[u] = tab[u]
  BY <1>3 DEF Typed
<1>5. s.phase = "checking" => InFlight(t, "boot")'
  BY <1>2, <1>3 DEF RenewalIsPending
<1> QED BY <1>1, <1>2, <1>3, <1>4, <1>5, TabKeeps

LEMMA OpenKeeps ==
    ASSUME Typed, RenewalIsPending, NEW t \in Tabs, Open(t) \/ startGoogleLogin(t)
    PROVE  Typed' /\ RenewalIsPending'
<1>1. Begin(t, "boot") /\ UNCHANGED <<cookie, services>>
  BY DEF Open, startGoogleLogin
<1>2. /\ calls' \subseteq CallRecords /\ \A c \in calls' : HasRow(c)
      /\ InFlight(t, "boot")'
      /\ \A u, k : InFlight(u, k) => InFlight(u, k)'
      /\ disturbed' \in BOOLEAN
  BY <1>1, BeginIs DEF CallKinds
<1>3. PICK s : s \in TabStates /\ s.phase = "checking" /\ tab' = [tab EXCEPT ![t] = s]
  <2>1. ClosedTab \in TabStates
    BY DEF ClosedTab, TabStates, Statuses, AllPaths
  <2>2. \A p \in Paths : p \in AllPaths
    BY SessionAssumption DEF AllPaths
  <2>3. ASSUME NEW p \in Paths
        PROVE  /\ [ClosedTab EXCEPT !.phase = "checking", !.path = p] \in TabStates
               /\ [ClosedTab EXCEPT !.phase = "checking", !.path = p].phase = "checking"
    <3> HIDE DEF ClosedTab
    <3> QED BY <2>1, <2>2 DEF TabStates
  <2>4. /\ [ClosedTab EXCEPT !.phase = "checking", !.google = TRUE] \in TabStates
        /\ [ClosedTab EXCEPT !.phase = "checking", !.google = TRUE].phase = "checking"
    BY <2>1 DEF TabStates
  <2> QED BY <2>3, <2>4 DEF Open, startGoogleLogin
<1>4. tab' \in [Tabs -> TabStates] /\ tab'[t] = s /\ \A u \in Tabs \ {t} : tab'[u] = tab[u]
  BY <1>3 DEF Typed
<1>5. ~Signed(s)
  BY <1>3 DEF Signed
<1> QED BY <1>1, <1>2, <1>3, <1>4, <1>5, TabKeeps

LEMMA CloseKeeps ==
    ASSUME Typed, RenewalIsPending, NEW t \in Tabs, Close(t)
    PROVE  Typed' /\ RenewalIsPending'
<1> DEFINE After(c) == [c EXCEPT !.page = @ /\ c.tab # t]
<1>1. /\ tab' = [tab EXCEPT ![t] = ClosedTab] /\ calls' = {After(c) : c \in calls}
      /\ disturbed' \in BOOLEAN /\ UNCHANGED <<cookie, services>>
  BY DEF Close, Typed
<1>2. ClosedTab \in TabStates /\ ClosedTab.phase = "closed"
  BY DEF ClosedTab, TabStates, Statuses, AllPaths
<1>3. ASSUME NEW c \in calls
      PROVE  /\ After(c) \in CallRecords /\ HasRow(After(c))
             /\ After(c).tab = c.tab /\ After(c).kind = c.kind /\ (c.page /\ c.tab # t => After(c).page)
  <2> DEFINE p == c.page /\ c.tab # t
  <2>1. c \in CallRecords /\ HasRow(c) /\ p \in BOOLEAN
    BY DEF Typed
  <2>2. After(c) = [c EXCEPT !.page = p]
    OBVIOUS
  <2>3. p = (c.page /\ c.tab # t)
    OBVIOUS
  <2> HIDE DEF p, After
  <2> QED BY <2>1, <2>2, <2>3 DEF CallRecords, HasRow
<1> HIDE DEF After
<1>4. calls' \subseteq CallRecords /\ \A c \in calls' : HasRow(c)
  BY <1>1, <1>3
<1>5. ASSUME NEW u \in Tabs \ {t}, NEW k, InFlight(u, k)
      PROVE  InFlight(u, k)'
  BY <1>1, <1>3, <1>5 DEF InFlight
<1>6. tab' \in [Tabs -> TabStates] /\ tab'[t] = ClosedTab /\ \A u \in Tabs \ {t} : tab'[u] = tab[u]
  BY <1>1, <1>2 DEF Typed
<1>7. ~Signed(ClosedTab) /\ ClosedTab.phase # "checking"
  BY <1>2 DEF Signed
<1> QED BY <1>1, <1>2, <1>4, <1>5, <1>6, <1>7, TabKeeps

LEMMA NavigateKeeps ==
    ASSUME Typed, RenewalIsPending, NEW t \in Tabs, Navigate(t)
    PROVE  Typed' /\ RenewalIsPending'
<1>1. PICK p \in Paths : Show(t, [tab[t] EXCEPT !.path = p])
  BY DEF Navigate
<1> DEFINE s == [tab[t] EXCEPT !.path = p]
<1>2. UNCHANGED <<calls, cookie, services, disturbed>>
  BY DEF Navigate
<1>3. p \in AllPaths
  BY SessionAssumption DEF AllPaths
<1>4. /\ s \in TabStates /\ s.phase = tab[t].phase
      /\ s.timer = tab[t].timer /\ s.retries = tab[t].retries
  BY <1>3 DEF Typed, TabStates
<1>5. Show(t, s)
  BY <1>1
<1> HIDE DEF s
<1>6. /\ tab' \in [Tabs -> TabStates] /\ tab'[t].phase = s.phase
      /\ tab'[t].timer = s.timer /\ tab'[t].retries = s.retries
      /\ \A u \in Tabs \ {t} : tab'[u] = tab[u]
  BY <1>4, <1>5, ShowIs
<1>7. \A u, k : InFlight(u, k) => InFlight(u, k)'
  BY <1>2 DEF InFlight
<1>8. /\ calls' \subseteq CallRecords /\ \A c \in calls' : HasRow(c)
      /\ disturbed' \in BOOLEAN
  BY <1>2 DEF Typed, HasRow
<1>9. /\ Signed(s) => s.timer # {} \/ s.retries # {} \/ InFlight(t, "refresh")'
      /\ s.phase = "checking" => InFlight(t, "boot")'
  BY <1>4, <1>7 DEF RenewalIsPending, Signed
<1>10. UNCHANGED <<cookie, services>>
  BY <1>2
<1> QED BY <1>4, <1>6, <1>7, <1>8, <1>9, <1>10, TabKeeps

LEMMA AskKeeps ==
    ASSUME Typed, RenewalIsPending, NEW t \in Tabs,
           Login(t) \/ Signup(t) \/ GoogleCallback(t) \/ Logout(t) \/ CompleteProfile(t)
    PROVE  Typed' /\ RenewalIsPending'
<1>1. PICK g \in BOOLEAN : tab' = [tab EXCEPT ![t] = [tab[t] EXCEPT !.google = g]]
  <2>1. tab' = tab \/ tab' = [tab EXCEPT ![t] = [tab[t] EXCEPT !.google = FALSE]]
    BY DEF Login, Signup, GoogleCallback, Logout, CompleteProfile
  <2>2. tab = [tab EXCEPT ![t] = [tab[t] EXCEPT !.google = tab[t].google]] /\ tab[t].google \in BOOLEAN
    BY DEF Typed, TabStates
  <2> QED BY <2>1, <2>2
<1>2. UNCHANGED <<cookie, services>>
  BY DEF Login, Signup, GoogleCallback, Logout, CompleteProfile
<1>3. (\E kind \in {"login", "logout", "profile"} : Begin(t, kind)) \/ UNCHANGED <<calls, disturbed>>
  BY DEF Login, Signup, GoogleCallback, Logout, CompleteProfile
<1>4. /\ calls' \subseteq CallRecords /\ \A c \in calls' : HasRow(c)
      /\ \A u, k : InFlight(u, k) => InFlight(u, k)'
      /\ disturbed' \in BOOLEAN
  <2>1. CASE UNCHANGED <<calls, disturbed>>
    BY <2>1 DEF Typed, HasRow, InFlight
  <2> QED BY <1>3, <2>1, BeginIs DEF CallKinds
<1> DEFINE s == [tab[t] EXCEPT !.google = g]
<1>5. /\ s \in TabStates /\ s.phase = tab[t].phase
      /\ s.timer = tab[t].timer /\ s.retries = tab[t].retries
  BY DEF Typed, TabStates
<1>6. tab' = [tab EXCEPT ![t] = s]
  BY <1>1
<1> HIDE DEF s
<1>7. tab' \in [Tabs -> TabStates] /\ tab'[t] = s /\ \A u \in Tabs \ {t} : tab'[u] = tab[u]
  BY <1>5, <1>6 DEF Typed
<1>8. /\ Signed(s) => s.timer # {} \/ s.retries # {} \/ InFlight(t, "refresh")'
      /\ s.phase = "checking" => InFlight(t, "boot")'
  BY <1>4, <1>5 DEF RenewalIsPending, Signed
<1> QED BY <1>2, <1>4, <1>5, <1>7, <1>8, TabKeeps

LEMMA TickKeeps ==
    ASSUME Typed, RenewalIsPending, Tick
    PROVE  Typed' /\ RenewalIsPending'
<1> DEFINE After(t) == [tab[t] EXCEPT !.timer = Older(@), !.retries = Older(@)]
<1>1. /\ tab' = [t \in Tabs |-> After(t)]
      /\ UNCHANGED <<calls, cookie, account, profile, disturbed>>
  BY DEF Tick
<1>2. ASSUME NEW t \in Tabs
      PROVE  /\ After(t) \in TabStates /\ After(t).phase = tab[t].phase
             /\ tab[t].timer # {} => After(t).timer # {}
             /\ tab[t].retries # {} => After(t).retries # {}
  <2> DEFINE o == Older(tab[t].timer)
             r == Older(tab[t].retries)
  <2>1. tab[t] \in TabStates /\ o \in SUBSET Int /\ r \in SUBSET Int
    BY DEF Typed, TabStates, Older
  <2>2. (tab[t].timer # {} => o # {}) /\ (tab[t].retries # {} => r # {})
    BY DEF Older
  <2>3. After(t) = [tab[t] EXCEPT !.timer = o, !.retries = r]
    OBVIOUS
  <2> HIDE DEF o, r, After
  <2> QED BY <2>1, <2>2, <2>3 DEF TabStates
<1> HIDE DEF After
<1>3. db' \in [Tokens -> TokenRows]
  <2>1. ASSUME NEW k \in Tokens
        PROVE  [db[k] EXCEPT !.age = @ + 1] \in TokenRows
    BY DEF Typed, TokenRows
  <2> QED BY <2>1 DEF Tick, Typed
<1>4. Typed'
  BY <1>1, <1>2, <1>3 DEF Typed, HasRow
<1>5. \A u, k : InFlight(u, k) => InFlight(u, k)'
  BY <1>1 DEF InFlight
<1>6. RenewalIsPending'
  BY <1>1, <1>2, <1>5 DEF RenewalIsPending, Signed
<1> QED BY <1>4, <1>6

LEMMA InitKeeps == Init => Typed /\ RenewalIsPending
<1>1. ClosedTab \in TabStates /\ ~Signed(ClosedTab) /\ ClosedTab.phase # "checking"
  BY DEF ClosedTab, TabStates, Statuses, AllPaths, Signed
<1>2. Blank \in TokenRows /\ NoToken \in AnyToken
  BY DEF Blank, TokenRows, TokenStates, AnyToken
<1>3. "none" \in Statuses
  BY DEF Statuses
<1> HIDE DEF ClosedTab
<1> QED BY <1>1, <1>2, <1>3 DEF Init, Typed, HasRow, RenewalIsPending

LEMMA StepKeeps == Typed /\ RenewalIsPending /\ [Next]_vars => Typed' /\ RenewalIsPending'
<1> SUFFICES ASSUME Typed, RenewalIsPending, [Next]_vars PROVE Typed' /\ RenewalIsPending'
  OBVIOUS
<1>1. CASE AuthService \/ ProfileService \/ Faults
  BY <1>1, AuthIsServed, ServedKeeps
<1>2. CASE Deliver
  BY <1>2, DeliverKeeps
<1>3. CASE Timeouts
  BY <1>3, TimeoutKeeps DEF Timeouts
<1>4. CASE User
  BY <1>4, OpenKeeps, CloseKeeps, NavigateKeeps, AskKeeps DEF User
<1>5. CASE Tick
  BY <1>5, TickKeeps
<1>6. CASE UNCHANGED vars
  BY <1>6 DEF vars, Typed, HasRow, RenewalIsPending, Signed, InFlight
<1> QED BY <1>1, <1>2, <1>3, <1>4, <1>5, <1>6 DEF Next

\* Whoever is logged in has a renewal to come, for any times, however many calls are left,
\* lost or overlap.
THEOREM RenewalAlwaysPending == Spec => []RenewalIsPending
<1>1. Init => Typed /\ RenewalIsPending
  BY InitKeeps
<1>2. Typed /\ RenewalIsPending /\ [Next]_vars => Typed' /\ RenewalIsPending'
  BY StepKeeps
<1> QED BY <1>1, <1>2, PTL DEF Spec

-----------------------------------------------------------------------------
(***************************************************************************)
(* Only who has a profile is active.                                       *)
(***************************************************************************)
LEMMA ProfileStep ==
    ASSUME Typed, ProfileInv, [Next]_vars
    PROVE  ProfileInv'
<1>1. CASE AuthService \/ ProfileService \/ Faults
  <2>1. PICK c \in calls : \E to : Served(c, to)
    BY <1>1, AuthIsServed
  <2> QED BY <2>1 DEF Served, Goes, ProfileInv, ActiveHasProfile
<1>2. ASSUME UNCHANGED <<account, profile>>,
             \A d \in calls' : d.step = "activate" => \E c \in calls : c.step = "activate"
      PROVE  ProfileInv'
  BY <1>2 DEF ProfileInv, ActiveHasProfile
<1>3. CASE Deliver \/ Tick \/ UNCHANGED vars
  BY <1>2, <1>3 DEF Deliver, Tick, vars
<1>4. ASSUME NEW t \in Tabs, NEW kind, Begin(t, kind)
      PROVE  \A d \in calls' : d.step = "activate" => \E c \in calls : c.step = "activate"
  <2>1. Call(t, kind).step # "activate" /\ calls' = calls \cup {Call(t, kind)}
    BY <1>4 DEF Begin, Call
  <2> QED BY <2>1
<1>5. CASE Timeouts
  BY <1>2, <1>4, <1>5 DEF Timeouts, RenewalDue, RetryDue, services
<1>6. ASSUME NEW t \in Tabs, Close(t)
      PROVE  \A d \in calls' : d.step = "activate" => \E c \in calls : c.step = "activate"
  <2>1. ASSUME NEW c \in calls
        PROVE  [c EXCEPT !.page = @ /\ c.tab # t].step = c.step
    BY DEF Typed, CallRecords
  <2>2. calls' = {[c EXCEPT !.page = @ /\ c.tab # t] : c \in calls}
    BY <1>6 DEF Close
  <2> QED BY <2>1, <2>2
<1>7. CASE User
  <2>1. PICK t \in Tabs : \/ Close(t) \/ Open(t) \/ Navigate(t) \/ Login(t) \/ Signup(t)
                          \/ startGoogleLogin(t) \/ GoogleCallback(t) \/ Logout(t) \/ CompleteProfile(t)
    BY <1>7 DEF User
  <2>2. CASE Close(t)
    BY <1>2, <1>6, <2>2 DEF Close, services
  <2>3. CASE ~Close(t)
    <3>1. UNCHANGED <<account, profile>> /\ ((\E kind : Begin(t, kind)) \/ UNCHANGED calls)
      BY <2>1, <2>3 DEF Open, Navigate, Login, Signup, startGoogleLogin, GoogleCallback, Logout,
                        CompleteProfile, services
    <3> QED BY <1>2, <1>4, <3>1
  <2> QED BY <2>2, <2>3
<1> QED BY <1>1, <1>3, <1>5, <1>7 DEF Next

\* Whoever's account is active has a profile, wherever onboarding is left or fails.
THEOREM ActiveAlwaysHasProfile == Spec => []ActiveHasProfile
<1>1. Init => Typed /\ RenewalIsPending /\ ProfileInv
  BY InitKeeps DEF Init, ProfileInv, ActiveHasProfile
<1>2. Typed /\ RenewalIsPending /\ ProfileInv /\ [Next]_vars => (Typed /\ RenewalIsPending /\ ProfileInv)'
  BY StepKeeps, ProfileStep
<1>3. ProfileInv => ActiveHasProfile
  BY DEF ProfileInv
<1> QED BY <1>1, <1>2, <1>3, PTL DEF Spec

-----------------------------------------------------------------------------
(***************************************************************************)
(* One active token a family, while nothing has disturbed it.              *)
(***************************************************************************)

\* Matters, in a table, to whoever presents some tokens.
RelatedIn(d, k) == {j \in Tokens : d[j].state # "none" /\ d[j].family = d[k].family}

MattersIn(d, k, presented) ==
    \/ k \in presented
    \/ /\ d[k].state = "active"
       /\ RelatedIn(d, k) \cap presented # {}
       /\ \A j \in RelatedIn(d, k) \ presented : d[j].state = "active" => k <= j

LEMMA MattersIs ==
    \A k, presented : Matters(k, presented) = MattersIn(db, k, presented)
BY DEF Matters, MattersIn, RelatedIn

\* Whoever presents more leaves out less.
LEMMA MattersMore ==
    ASSUME NEW d, NEW k, NEW P, NEW Q, P \subseteq Q, MattersIn(d, k, P)
    PROVE  MattersIn(d, k, Q)
BY DEF MattersIn

\* What is left out was nothing that the rest needs.
LEMMA MattersStill ==
    ASSUME NEW P, NEW d, NEW e, NEW k \in Tokens,
           \A j \in Tokens : e[j] = IF MattersIn(d, j, P) THEN d[j] ELSE Blank,
           e[k].state # "none"
    PROVE  MattersIn(e, k, P)
<1>1. Blank.state = "none"
  BY DEF Blank
<1>2. \A j \in Tokens : e[j].state # "none" => MattersIn(d, j, P) /\ e[j] = d[j]
  BY <1>1
<1>3. MattersIn(d, k, P) /\ e[k] = d[k]
  BY <1>2
<1>4. RelatedIn(e, k) \subseteq RelatedIn(d, k)
  BY <1>2, <1>3 DEF RelatedIn
<1>5. \A j \in RelatedIn(d, k) \cap P : j \in RelatedIn(e, k)
  BY <1>3 DEF RelatedIn, MattersIn
<1>6. \A j \in RelatedIn(e, k) : e[j] = d[j]
  BY <1>2 DEF RelatedIn
<1> QED BY <1>3, <1>4, <1>5, <1>6 DEF MattersIn

LEMMA OnlyServed ==
    ASSUME AloneInv, NEW c, NEW to, Served(c, to), UniqueActive',
           to.step = "revoke" => db'[to.row].state = "active",
           to.step = "create" => FamilyIsFree(db[to.row].family)'
    PROVE  AloneInv'
<1>1. calls' = {to} /\ to.page /\ to.step # "sent"
  BY DEF AloneInv, Served, SameCall, Goes
<1> QED BY <1>1 DEF AloneInv

\* A token's end ends nothing else.
LEMMA EndsOnly ==
    ASSUME UniqueActive, \A k \in Tokens : db'[k].state = "active" => db'[k] = db[k]
    PROVE  UniqueActive'
BY DEF UniqueActive

\* A new token of a family that has no active one.
LEMMA InsertUnique ==
    ASSUME Typed, UniqueActive, NEW k \in Tokens, NEW family, Insert(k, family),
           \A j \in Tokens \ {k} : db[j].state = "active" => db[j].family # family
    PROVE  UniqueActive'
<1>1. db'[k].family = family /\ \A j \in Tokens \ {k} : db'[j] = db[j]
  BY DEF Typed, Insert
<1> QED BY <1>1 DEF UniqueActive

LEMMA LoginAlone ==
    ASSUME Typed, AloneInv, LoginServed
    PROVE  UniqueActive'
<1>1. PICK c \in calls :
         /\ c.kind = "login" /\ c.step = "sent" /\ Unused # {}
         /\ Insert(NewToken, NewFamily)
  BY DEF LoginServed
<1>2. OnlyWhatMatters
  BY <1>1 DEF AloneInv
<1>3. ASSUME NEW j \in Tokens, db[j].state = "active"
      PROVE  db[j].family # NewFamily
  <2>1. Matters(j, {cookie})
    BY <1>2, <1>3 DEF OnlyWhatMatters
  <2>2. Matters(j, Presented)
    BY <2>1, MattersIs, MattersMore DEF Presented
  <2> QED BY <1>1, <2>2, NewFamilyIsNew DEF Unused
<1>4. NewToken \in Tokens
  BY <1>1, NewTokenIsUnused DEF Unused
<1> QED BY <1>1, <1>3, <1>4, InsertUnique DEF AloneInv

LEMMA ServedAlone ==
    ASSUME Typed, AloneInv, AuthService \/ ProfileService \/ Faults, ~disturbed'
    PROVE  AloneInv'
<1>1. UniqueActive
  BY DEF AloneInv
<1>2. ASSUME NEW c \in calls, NEW to, Served(c, to), UniqueActive', to.step \notin {"revoke", "create"}
      PROVE  AloneInv'
  BY <1>2, OnlyServed
<1>3. UNCHANGED db => UniqueActive'
  BY <1>1, EndsOnly
<1>4. CASE LoginServed \/ LoginRefused
  <2>1. UniqueActive'
    BY <1>3, <1>4, LoginAlone DEF LoginRefused, services
  <2> QED BY <1>2, <1>4, <2>1, LoginIsServed
<1>5. CASE Find
  <2>1. PICK c \in calls : \E to :
           /\ Served(c, to) /\ to.step \in {"refused", "revoke", "family", "reuse"}
           /\ to.step = "revoke" => to.row \in Tokens /\ db[to.row].state = "active"
    BY <1>5, FindIsServed DEF Find
  <2>2. UNCHANGED db
    BY <1>5 DEF Find, services
  <2> QED BY <1>3, <2>1, <2>2, OnlyServed
<1>6. CASE FindActive
  <2>1. PICK c \in calls :
           /\ \/ \E k \in Tokens : db[k].state = "active" /\ Goes(c, Found(c, k))
              \/ Goes(c, Refused(c))
           /\ UNCHANGED <<tab, cookie, services, faults, disturbed>>
    BY <1>6 DEF FindActive, Found
  <2>2. ASSUME NEW to, Goes(c, to), SameCall(c, to), to.step # "activate"
        PROVE  Served(c, to)
    BY <2>1, <2>2 DEF Served, Typed, services
  <2>3. UniqueActive' /\ UNCHANGED db
    BY <1>3, <2>1 DEF services
  <2>4. CASE Goes(c, Refused(c))
    BY <1>2, <2>2, <2>3, <2>4, RefusedIsSame
  <2>5. ASSUME NEW k \in Tokens, db[k].state = "active", Goes(c, Found(c, k))
        PROVE  AloneInv'
    BY <2>2, <2>3, <2>5, FoundIsSame, OnlyServed
  <2> QED BY <2>1, <2>4, <2>5
<1>7. CASE Revoke
  <2>1. PICK c \in calls :
           /\ c.step = "revoke"
           /\ db' = [db EXCEPT ![c.row] = Over(@, "rotated")]
           /\ Goes(c, [c EXCEPT !.step = "create"])
           /\ UNCHANGED <<tab, cookie, account, profile, faults, disturbed>>
    BY <1>7, RevokeIsOver
  <2> DEFINE to == [c EXCEPT !.step = "create"]
  <2>2. c.row \in Tokens /\ db[c.row].state = "active"
    BY <2>1 DEF AloneInv, Typed, HasRow
  <2>3. /\ db' \in [Tokens -> TokenRows] /\ db'[c.row].state = "rotated"
        /\ db'[c.row].family = db[c.row].family
        /\ \A k \in Tokens \ {c.row} : db'[k] = db[k]
    BY <2>1, <2>2, OverType DEF Typed, TokenStates
  <2>4. UniqueActive'
    BY <1>1, <2>3, EndsOnly
  <2>5. to.step = "create" /\ to.row = c.row /\ SameCall(c, to)
    BY <2>2, StepIsSame DEF CallSteps
  <2>6. FamilyIsFree(db[to.row].family)'
    BY <1>1, <2>2, <2>3, <2>5 DEF FamilyIsFree, UniqueActive
  <2>7. Served(c, to)
    BY <2>1, <2>3, <2>5 DEF Served, Typed
  <2> HIDE DEF to
  <2> QED BY <2>4, <2>5, <2>6, <2>7, OnlyServed
<1>8. CASE Create
  <2>1. PICK c \in calls :
           /\ c.step = "create" /\ Unused # {}
           /\ Insert(NewToken, db[c.row].family)
           /\ Goes(c, Answered(c, account, NewToken))
           /\ UNCHANGED <<tab, cookie, account, profile, faults, disturbed>>
    BY <1>8 DEF Create
  <2>2. NewToken \in Tokens /\ NewToken \in AnyToken
    BY <2>1, NewTokenIsUnused DEF Unused, AnyToken
  <2>3. db[c.row].family \in AnyToken
    BY <2>1 DEF Typed, HasRow, TokenRows
  <2>4. UniqueActive'
    BY <1>1, <2>1, <2>2, InsertUnique DEF AloneInv, FamilyIsFree
  <2>5. db' \in [Tokens -> TokenRows]
    BY <2>1, <2>3, InsertType
  <2>6. \E to : Served(c, to) /\ to.step = "ok"
    BY <2>1, <2>2, <2>5, AnsweredIsSame DEF Served, Typed
  <2> QED BY <1>2, <2>4, <2>6
<1>9. ASSUME NEW S, NEW how \in TokenStates \ {"active"}, Revoking(S, how)
      PROVE  UniqueActive'
  <2>1. \A k \in Tokens : db'[k] = db[k] \/ db'[k] = Over(db[k], how)
    BY <1>9, RevokingType
  <2> QED BY <1>1, <2>1, EndsOnly, OverType DEF Typed
<1>10. CASE RevokeFamily
  <2>1. PICK c \in calls :
           /\ Revoking({k \in Tokens : db[k].family = db[c.cookie].family}, "ended")
           /\ Goes(c, Refused(c))
           /\ UNCHANGED <<tab, cookie, account, profile, faults, disturbed>>
    BY <1>10, FamilyIsRevoked
  <2>2. db' \in [Tokens -> TokenRows] /\ UniqueActive'
    BY <1>9, <2>1, RevokingType DEF TokenStates
  <2>3. Served(c, Refused(c)) /\ Refused(c).step = "refused"
    BY <2>1, <2>2, RefusedIsSame DEF Served, Typed
  <2> QED BY <1>2, <2>2, <2>3
<1>11. CASE LogoutServed
  <2>1. PICK c \in calls :
           /\ Revoking(Tokens, "out")
           /\ Goes(c, Answered(c, "none", NoToken))
           /\ UNCHANGED <<tab, cookie, account, profile, faults, disturbed>>
    BY <1>11, LogoutRevokes
  <2>2. db' \in [Tokens -> TokenRows] /\ UniqueActive'
    BY <1>9, <2>1, RevokingType DEF TokenStates
  <2>3. \E to : Served(c, to) /\ to.step = "ok"
    BY <2>1, <2>2, AnsweredIsSame DEF Served, Typed, Statuses, AnyToken
  <2> QED BY <1>2, <2>2, <2>3
<1>12. CASE ProfileService \/ Lose
  <2>1. PICK c \in calls : \E to : Goes(c, to) /\ to.step \in {"activate", "refused", "ok", "lost"}
    <3>1. \A c \in calls : [c EXCEPT !.step = "activate"].step = "activate"
      BY StepIsSame DEF CallSteps
    <3>2. \A c \in calls : Refused(c).step = "refused" /\ Lost(c).step = "lost"
      BY RefusedIsSame, LostIsSame
    <3>3. \A c \in calls : Answered(c, "active", NoToken).step = "ok"
      BY AnsweredIsSame DEF Statuses, AnyToken
    <3> QED BY <1>12, <3>1, <3>2, <3>3 DEF ProfileService, Upsert, ActivateUser, Lose
  <2>2. PICK to : Goes(c, to) /\ to.step \in {"activate", "refused", "ok", "lost"}
    BY <2>1
  <2>3. PICK d \in calls : \E done : Served(d, done)
    BY AuthIsServed
  <2>4. PICK done : Served(d, done)
    BY <2>3
  <2>5. UNCHANGED db
    BY <1>12 DEF ProfileService, Upsert, ActivateUser, Lose, services
  <2>6. calls' = {to} /\ calls' = {done}
    BY <2>2, <2>4 DEF AloneInv, Goes, Served
  <2> QED BY <1>2, <1>3, <2>2, <2>4, <2>5, <2>6
<1>13. CASE StatementFails \/ IssueFails
  BY <1>13 DEF StatementFails, IssueFails
<1> QED BY <1>4, <1>5, <1>6, <1>7, <1>8, <1>10, <1>11, <1>12, <1>13 DEF AuthService, Faults

LEMMA DeliverAlone ==
    ASSUME Typed, AloneInv, Deliver
    PROVE  AloneInv'
<1>1. calls' = {} /\ Forget
  BY DEF Deliver, AloneInv
<1>2. Presented' = {cookie'}
  BY <1>1 DEF Presented
<1>3. \A k \in Tokens : db'[k] = IF MattersIn(db, k, {cookie'}) THEN db[k] ELSE Blank
  BY <1>1, <1>2, MattersIs DEF Forget
<1>4. UniqueActive'
  <2>1. Blank.state # "active"
    BY DEF Blank
  <2> QED BY <1>3, <2>1, EndsOnly DEF AloneInv
<1>5. ASSUME NEW k \in Tokens, db'[k].state # "none"
      PROVE  MattersIn(db', k, {cookie'})
  BY <1>3, <1>5, MattersStill
<1>6. OnlyWhatMatters'
  BY <1>5 DEF OnlyWhatMatters, Matters, MattersIn, RelatedIn
<1> QED BY <1>1, <1>4, <1>6 DEF AloneInv

\* A call begins alone: none is on its way, for those of a page that is gone were left.
LEMMA BeginAlone ==
    ASSUME AloneInv, NEW t, NEW kind, Begin(t, kind), UNCHANGED <<cookie, db>>, ~disturbed'
    PROVE  AloneInv'
<1>1. calls = {}
  BY DEF Begin, Reloads, AloneInv
<1>2. calls' = {Call(t, kind)}
  BY <1>1 DEF Begin
<1>3. Call(t, kind).page /\ Call(t, kind).step = "sent"
  BY DEF Call
<1>4. OnlyWhatMatters' /\ UniqueActive'
  BY <1>1 DEF AloneInv, OnlyWhatMatters, UniqueActive, Matters
<1> QED BY <1>2, <1>3, <1>4 DEF AloneInv

LEMMA SameAlone ==
    ASSUME AloneInv, UNCHANGED <<calls, cookie, db>>
    PROVE  AloneInv'
BY DEF AloneInv, OnlyWhatMatters, UniqueActive, FamilyIsFree, Matters

LEMMA CloseAlone ==
    ASSUME Typed, AloneInv, NEW t \in Tabs, Close(t), ~disturbed'
    PROVE  AloneInv'
<1>1. \A c \in calls : c.tab # t /\ c.page
  BY DEF Close, Abandons, AloneInv
<1>2. ASSUME NEW c \in calls
      PROVE  [c EXCEPT !.page = @ /\ c.tab # t] = c
  <2> DEFINE p == c.page /\ c.tab # t
  <2>1. c \in CallRecords /\ p = c.page
    BY <1>1 DEF Typed, CallRecords
  <2>2. [c EXCEPT !.page = @ /\ c.tab # t] = [c EXCEPT !.page = p]
    OBVIOUS
  <2> HIDE DEF p
  <2> QED BY <2>1, <2>2 DEF CallRecords
<1>3. calls' = {[c EXCEPT !.page = @ /\ c.tab # t] : c \in calls}
  BY DEF Close
<1>4. calls' = calls
  BY <1>2, <1>3
<1> QED BY <1>4, SameAlone DEF Close, services

LEMMA TickAlone ==
    ASSUME Typed, AloneInv, Tick
    PROVE  AloneInv'
<1>1. calls = {} /\ UNCHANGED <<calls, cookie>>
  BY DEF Tick
<1>2. ASSUME NEW k \in Tokens
      PROVE  db'[k].state = db[k].state /\ db'[k].family = db[k].family
  <2>1. [db[k] EXCEPT !.age = @ + 1].state = db[k].state /\ [db[k] EXCEPT !.age = @ + 1].family = db[k].family
    BY DEF Typed, TokenRows
  <2> QED BY <2>1 DEF Tick
<1>3. UniqueActive'
  BY <1>2 DEF UniqueActive, AloneInv
<1>4. ASSUME NEW k \in Tokens
      PROVE  RelatedIn(db', k) = RelatedIn(db, k)
  BY <1>2 DEF RelatedIn
<1>5. ASSUME NEW k \in Tokens, MattersIn(db, k, {cookie})
      PROVE  MattersIn(db', k, {cookie})
  <2>1. \A j \in RelatedIn(db, k) : j \in Tokens
    BY DEF RelatedIn
  <2> QED BY <1>2, <1>4, <1>5, <2>1 DEF MattersIn
<1>6. OnlyWhatMatters'
  BY <1>1, <1>2, <1>5, MattersIs DEF AloneInv, OnlyWhatMatters, Matters, MattersIn, RelatedIn
<1> QED BY <1>1, <1>3, <1>6 DEF AloneInv

\* What was disturbed stays so.
LEMMA DisturbedStays ==
    ASSUME Typed, [Next]_vars
    PROVE  disturbed => disturbed'
<1>1. CASE AuthService \/ ProfileService \/ Faults
  BY <1>1, AuthIsServed DEF Served
<1>2. CASE Deliver \/ Tick \/ UNCHANGED vars
  BY <1>2 DEF Deliver, Tick, vars
<1>3. CASE Timeouts
  BY <1>3 DEF Timeouts, RenewalDue, RetryDue, Begin
<1>4. CASE User
  BY <1>4 DEF User, Open, Close, Navigate, Login, Signup, startGoogleLogin, GoogleCallback,
              Logout, CompleteProfile, Begin
<1> QED BY <1>1, <1>2, <1>3, <1>4 DEF Next

LEMMA TokenStep ==
    ASSUME Typed, TokenInv, [Next]_vars
    PROVE  TokenInv'
<1> SUFFICES ASSUME ~disturbed' PROVE AloneInv'
  BY DEF TokenInv
<1>1. disturbed => disturbed'
  BY DisturbedStays
<1>2. AloneInv
  BY <1>1 DEF TokenInv
<1>3. CASE AuthService \/ ProfileService \/ Faults
  BY <1>2, <1>3, ServedAlone
<1>4. CASE Deliver \/ Tick
  BY <1>2, <1>4, DeliverAlone, TickAlone
<1>5. CASE Timeouts
  BY <1>2, <1>5, BeginAlone DEF Timeouts, RenewalDue, RetryDue, services
<1>6. CASE User
  <2>1. PICK t \in Tabs : \/ Close(t) \/ Open(t) \/ Navigate(t) \/ Login(t) \/ Signup(t)
                          \/ startGoogleLogin(t) \/ GoogleCallback(t) \/ Logout(t) \/ CompleteProfile(t)
    BY <1>6 DEF User
  <2>2. CASE Close(t)
    BY <1>2, <2>2, CloseAlone
  <2>3. CASE ~Close(t)
    <3>1. UNCHANGED <<cookie, db>> /\ ((\E kind : Begin(t, kind)) \/ UNCHANGED calls)
      BY <2>1, <2>3 DEF Open, Navigate, Login, Signup, startGoogleLogin, GoogleCallback, Logout,
                        CompleteProfile, services
    <3> QED BY <1>2, <3>1, BeginAlone, SameAlone
  <2> QED BY <2>2, <2>3
<1>7. CASE UNCHANGED vars
  BY <1>2, <1>7, SameAlone DEF vars
<1> QED BY <1>3, <1>4, <1>5, <1>6, <1>7 DEF Next

\* A family of refresh tokens has one active member, after a repeated request too, as long
\* as no calls overlap, no statement fails and no first refresh of a page is lost.
THEOREM OneActiveInFamily == Spec => []OneActiveToken
<1>1. Init => Typed /\ RenewalIsPending /\ TokenInv
  <2>1. Blank.state = "none"
    BY DEF Blank
  <2>2. Init => AloneInv
    BY <2>1 DEF Init, AloneInv, UniqueActive, OnlyWhatMatters
  <2> QED BY <2>2, InitKeeps DEF TokenInv
<1>2. Typed /\ RenewalIsPending /\ TokenInv /\ [Next]_vars => (Typed /\ RenewalIsPending /\ TokenInv)'
  BY StepKeeps, TokenStep
<1>3. TokenInv => OneActiveToken
  BY DEF TokenInv, AloneInv, UniqueActive, OneActiveToken
<1> QED BY <1>1, <1>2, <1>3, PTL DEF Spec
-----------------------------------------------------------------------------
(***************************************************************************)
(* Nobody is thrown out: with one fault at most, and while nothing         *)
(* disturbs the calls, the browser's token is the active one of its        *)
(* family, or over, or its next one is made or comes, or was lost and is   *)
(* asked for again within the grace.                                       *)
(***************************************************************************)

\* One thing goes wrong at most, and a lost refresh is repeated within the grace: after 10 s,
\* of 15 s.  A second loss in a row, or a later repetition, ends the session.
OneFault == MaxFaults <= 1 /\ Retry <= Grace

\* The browser's token is over: there is none, or a logout revoked it.
IsOver == cookie = NoToken \/ db[cookie].state = "out"

SameFamily(j, k) == db[j].family = db[k].family

\* What a call knows of the browser's token.
CallKnows(c) ==
    /\ c.step \in {"sent", "family", "reuse"} => c.cookie = cookie
    /\ c.step \in {"revoke", "family", "reuse", "create"} => Refreshes(c) /\ cookie # NoToken
    /\ c.step \in {"revoke", "create"} => SameFamily(c.row, cookie)
    /\ c.step = "reuse" => IsOver
    /\ Refreshes(c) /\ c.step = "refused" => c.cookie = NoToken /\ IsOver
    /\ c.step = "ok" =>
          /\ Refreshes(c) => c.made # NoToken
          /\ c.kind = "logout" => c.made = NoToken
          /\ c.made # NoToken => db[c.made].state = "active"

\* The browser's token is being rotated by a call: its next one is to be made, or comes.
Rotating ==
    \E c \in calls :
        /\ Refreshes(c) /\ db[cookie].age = 0
        /\ c.step = "create" \/ (c.step = "ok" /\ SameFamily(c.made, cookie))

\* Its next one was lost, and a refresh repeats the request, or will, within the grace.
Repeats(n) == n >= 0 /\ db[cookie].age + n <= Grace

Repeated ==
    \/ \E t \in Tabs : \E n \in tab[t].retries : Repeats(n)
    \/ \E c \in calls : Refreshes(c) /\ (c.step = "lost" => c.kind = "refresh" /\ Repeats(Retry))

FamilyGoesOn ==
    \/ \E k \in Tokens : db[k].state = "active" /\ SameFamily(k, cookie)
    \/ \E c \in calls : c.step = "create" \/ (c.kind = "logout" /\ c.step = "ok")

LostItsNext ==
    faults = MaxFaults /\ db[cookie].age <= Grace /\ Repeated /\ FamilyGoesOn

CookieInv ==
    \/ IsOver
    \/ db[cookie].state = "active"
    \/ db[cookie].state = "rotated" /\ (Rotating \/ LostItsNext)

StayInv == CookieInv /\ \A c \in calls : CallKnows(c)

Counted == faults \in 0 .. MaxFaults

LEMMA KnownTypes ==
    ASSUME Typed
    PROVE  /\ cookie # NoToken => cookie \in Tokens
           /\ \A c \in calls : c \in CallRecords /\ c.made \in AnyToken /\ c.kind \in CallKinds
           /\ \A c \in calls : c.step \in {"revoke", "create"} => c.row \in Tokens
           /\ \A k \in Tokens : db[k] \in TokenRows /\ db[k].age \in Int
           /\ \A t \in Tabs : tab[t] \in TabStates /\ tab[t].retries \subseteq Int
           /\ Retry \in Nat /\ Grace \in Nat /\ MaxFaults \in Nat
BY SessionAssumption DEF Typed, AnyToken, CallRecords, HasRow, TokenRows, TabStates

LEMMA StepsOf ==
    ASSUME NEW c \in CallRecords, NEW made, NEW status, NEW step
    PROVE  /\ Answered(c, status, made).made = made /\ Answered(c, status, made).kind = c.kind
           /\ Lost(c).kind = c.kind
           /\ [c EXCEPT !.step = step].kind = c.kind /\ [c EXCEPT !.step = step].row = c.row
           /\ [c EXCEPT !.step = step].cookie = c.cookie
           /\ [c EXCEPT !.step = step].step = step
           /\ Found(c, made).row = made /\ Found(c, made).kind = c.kind
BY DEF CallRecords, Answered, Lost, Found

LEMMA RefusedIs ==
    ASSUME NEW c \in CallRecords
    PROVE  /\ Refused(c).kind = c.kind /\ Refused(c).step = "refused"
           /\ Refused(c).cookie = IF c.cookie # NoToken /\ db[c.cookie].state = "out"
                                  THEN NoToken ELSE c.cookie
<1> DEFINE k == IF c.cookie # NoToken /\ db[c.cookie].state = "out" THEN NoToken ELSE c.cookie
<1>1. Refused(c) = [c EXCEPT !.step = "refused", !.row = NoToken, !.cookie = k]
  BY DEF Refused
<1> HIDE DEF k
<1>2. Refused(c).kind = c.kind /\ Refused(c).step = "refused" /\ Refused(c).cookie = k
  BY <1>1 DEF CallRecords
<1> QED BY <1>2 DEF k

\* A refresh that goes on, or the timeout of one, goes on with its repetition.
LEMMA RepeatedStill ==
    ASSUME AloneInv, Repeated, NEW c, NEW to, Served(c, to), to.step # "lost",
           db'[cookie].age = db[cookie].age
    PROVE  Repeated'
<1>1. /\ calls = {c} /\ calls' = {to} /\ to.kind = c.kind /\ UNCHANGED <<tab, cookie>>
  BY DEF AloneInv, Served, SameCall, Goes
<1>2. CASE Refreshes(c)
  BY <1>1, <1>2 DEF Repeated, Refreshes
<1>3. CASE ~Refreshes(c)
  BY <1>1, <1>3 DEF Repeated, Repeats
<1> QED BY <1>2, <1>3

\* The active token of the family of the browser's one is kept, whatever is made.
LEMMA HeirMatters ==
    ASSUME Typed, UniqueActive, cookie \in Tokens, db[cookie].state # "none",
           NEW k \in Tokens, db[k].state = "active", SameFamily(k, cookie)
    PROVE  MattersIn(db, k, {cookie})
<1>1. cookie \in RelatedIn(db, k)
  BY DEF RelatedIn, SameFamily
<1>2. \A j \in RelatedIn(db, k) : db[j].state = "active" => j = k
  BY DEF RelatedIn, UniqueActive
<1>3. k <= k
  BY TokensFinite
<1> QED BY <1>1, <1>2, <1>3 DEF MattersIn

LEMMA MadeIsAnother ==
    ASSUME Typed, UniqueActive, cookie \in Tokens, db[cookie].state # "none", Unused # {}
    PROVE  /\ NewToken # cookie
           /\ \A k \in Tokens : db[k].state = "active" /\ SameFamily(k, cookie) => NewToken # k
<1>1. cookie \in Presented
  BY DEF Presented
<1>2. ASSUME NEW k \in Tokens, MattersIn(db, k, {cookie})
      PROVE  NewToken # k
  <2>1. Matters(k, Presented)
    BY <1>1, <1>2, MattersIs, MattersMore
  <2> QED BY <2>1, NewTokenIsUnused DEF Unused
<1>3. MattersIn(db, cookie, {cookie})
  BY DEF MattersIn
<1> QED BY <1>2, <1>3, HeirMatters

-----------------------------------------------------------------------------
(***************************************************************************)
(* The services' steps.                                                    *)
(***************************************************************************)

\* A step that changes no token.
LEMMA QuietStays ==
    ASSUME Typed, AloneInv, StayInv, NEW c, NEW to, Served(c, to), UNCHANGED <<db, faults>>,
           c.step \notin {"create", "ok"}, to.step # "lost", CallKnows(to)'
    PROVE  StayInv'
<1>1. /\ calls = {c} /\ calls' = {to} /\ to.kind = c.kind /\ UNCHANGED <<tab, cookie>>
  BY DEF AloneInv, Served, SameCall, Goes
<1>2. Repeated => Repeated'
  BY RepeatedStill
<1>3. ~Rotating
  BY <1>1 DEF Rotating
<1>4. FamilyGoesOn => FamilyGoesOn'
  BY <1>1 DEF FamilyGoesOn, SameFamily
<1>5. CookieInv'
  BY <1>1, <1>2, <1>3, <1>4 DEF StayInv, CookieInv, IsOver, LostItsNext
<1> QED BY <1>1, <1>5 DEF StayInv

LEMMA FindStays ==
    ASSUME Typed, AloneInv, StayInv, Find
    PROVE  StayInv'
<1>1. PICK c \in calls :
         /\ Refreshes(c) /\ c.step = "sent"
         /\ Goes(c, CASE c.cookie = NoToken -> Refused(c)
                     [] c.cookie # NoToken /\ db[c.cookie].state = "active" ->
                            [c EXCEPT !.step = "revoke", !.row = c.cookie]
                     [] c.cookie # NoToken /\ db[c.cookie].state # "active"
                            /\ IsWithinGracePeriod(db[c.cookie]) -> [c EXCEPT !.step = "family"]
                     [] OTHER -> [c EXCEPT !.step = "reuse"])
         /\ UNCHANGED <<tab, cookie, services, faults, disturbed>>
  BY DEF Find
<1>2. c.cookie = cookie /\ calls = {c} /\ UNCHANGED <<cookie, db, faults>>
  BY <1>1 DEF StayInv, CallKnows, AloneInv, services
<1>3. c \in CallRecords
  BY KnownTypes
<1>4. ASSUME NEW to, Goes(c, to), SameCall(c, to), to.step # "activate", to.step # "lost", CallKnows(to)'
      PROVE  StayInv'
  <2>1. Served(c, to)
    BY <1>1, <1>4 DEF Served, Typed, services
  <2> QED BY <1>1, <1>2, <1>4, <2>1, QuietStays
<1>5. CASE cookie = NoToken
  <2>1. PICK to : to = Refused(c)
    OBVIOUS
  <2>2. /\ Goes(c, to) /\ SameCall(c, to) /\ to.step = "refused" /\ to.cookie = NoToken
    BY <1>1, <1>2, <1>3, <1>5, <2>1, RefusedIsSame, RefusedIs
  <2> QED BY <1>2, <1>4, <1>5, <2>2 DEF CallKnows, IsOver
<1>6. CASE cookie # NoToken /\ db[cookie].state = "active"
  <2>1. PICK to : to = Found(c, cookie)
    OBVIOUS
  <2>2. Goes(c, to)
    BY <1>1, <1>2, <1>6, <2>1 DEF Found
  <2>3. SameCall(c, to) /\ to.step = "revoke" /\ to.row = cookie
    BY <1>6, <2>1, KnownTypes, FoundIsSame
  <2> QED BY <1>1, <1>2, <1>4, <1>6, <2>2, <2>3 DEF CallKnows, SameCall, Refreshes, SameFamily
<1>7. CASE cookie # NoToken /\ db[cookie].state # "active"
  <2>1. IsOver \/ db[cookie].age <= Grace
    BY <1>1, <1>2, <1>7 DEF StayInv, CookieInv, LostItsNext, Rotating
  <2>2. PICK step \in {"family", "reuse"} :
           Goes(c, [c EXCEPT !.step = step]) /\ (step = "reuse" => IsOver)
    <3>1. c.cookie # NoToken /\ db[c.cookie].state # "active"
      BY <1>2, <1>7
    <3>2. CASE IsWithinGracePeriod(db[c.cookie])
      <4>1. Goes(c, [c EXCEPT !.step = "family"])
        BY <1>1, <3>1, <3>2
      <4> QED BY <4>1
    <3>3. CASE ~IsWithinGracePeriod(db[c.cookie])
      <4>1. Goes(c, [c EXCEPT !.step = "reuse"])
        BY <1>1, <3>1, <3>3
      <4>2. IsOver
        BY <1>2, <2>1, <3>3 DEF IsWithinGracePeriod
      <4> QED BY <4>1, <4>2
    <3> QED BY <3>2, <3>3
  <2>3. PICK to : to = [c EXCEPT !.step = step]
    OBVIOUS
  <2>4. SameCall(c, to) /\ to.step = step /\ Goes(c, to)
    <3>1. step \in CallSteps
      BY DEF CallSteps
    <3>2. SameCall(c, [c EXCEPT !.step = step]) /\ [c EXCEPT !.step = step].step = step
      BY <3>1, StepIsSame
    <3> QED BY <2>2, <2>3, <3>2
  <2>5. to.cookie = c.cookie
    BY <1>3, <2>3 DEF CallRecords
  <2> QED BY <1>1, <1>2, <1>4, <1>7, <2>2, <2>4, <2>5 DEF CallKnows, SameCall, Refreshes, IsOver
<1> QED BY <1>5, <1>6, <1>7

LEMMA FindActiveStays ==
    ASSUME Typed, AloneInv, StayInv, FindActive
    PROVE  StayInv'
<1>1. PICK c \in calls :
         /\ c.step = "family"
         /\ \/ \E k \in Tokens :
                 /\ db[k].state = "active" /\ db[k].family = db[c.cookie].family
                 /\ Goes(c, Found(c, k))
            \/ /\ ~\E k \in Tokens : db[k].state = "active" /\ db[k].family = db[c.cookie].family
               /\ Goes(c, Refused(c))
         /\ UNCHANGED <<tab, cookie, services, faults, disturbed>>
  BY DEF FindActive, Found
<1>2. /\ c.cookie = cookie /\ cookie # NoToken /\ Refreshes(c) /\ calls = {c}
      /\ UNCHANGED <<cookie, db, faults>>
  BY <1>1 DEF StayInv, CallKnows, AloneInv, services
<1>3. c \in CallRecords
  BY KnownTypes
<1>4. ASSUME NEW to, Goes(c, to), SameCall(c, to), to.step # "activate", to.step # "lost", CallKnows(to)'
      PROVE  StayInv'
  <2>1. Served(c, to)
    BY <1>1, <1>4 DEF Served, Typed, services
  <2> QED BY <1>1, <1>2, <1>4, <2>1, QuietStays
<1>5. ASSUME NEW k \in Tokens, db[k].family = db[c.cookie].family, Goes(c, Found(c, k))
      PROVE  StayInv'
  <2>1. PICK to : to = Found(c, k)
    OBVIOUS
  <2>2. SameCall(c, to) /\ to.step = "revoke" /\ to.row = k
    BY <2>1, FoundIsSame
  <2> QED BY <1>2, <1>4, <1>5, <2>1, <2>2 DEF CallKnows, SameCall, Refreshes, SameFamily
<1>6. CASE /\ ~\E k \in Tokens : db[k].state = "active" /\ db[k].family = db[c.cookie].family
           /\ Goes(c, Refused(c))
  <2>1. PICK to : to = Refused(c)
    OBVIOUS
  <2>2. cookie \in Tokens
    BY <1>2, KnownTypes
  <2>3. db[cookie].state = "out"
    <3>1. ~FamilyGoesOn /\ ~Rotating
      BY <1>1, <1>2, <1>6 DEF FamilyGoesOn, Rotating, SameFamily
    <3>2. db[cookie].state # "active"
      BY <1>2, <1>6, <2>2
    <3> QED BY <1>2, <3>1, <3>2 DEF StayInv, CookieInv, IsOver, LostItsNext
  <2>4. SameCall(c, to) /\ to.step = "refused" /\ to.cookie = NoToken
    BY <1>2, <1>3, <2>1, <2>3, RefusedIsSame, RefusedIs
  <2> QED BY <1>2, <1>4, <1>6, <2>1, <2>3, <2>4 DEF CallKnows, IsOver
<1> QED BY <1>1, <1>5, <1>6

LEMMA RevokeStays ==
    ASSUME Typed, AloneInv, StayInv, Revoke
    PROVE  StayInv'
<1>1. PICK c \in calls :
         /\ c.step = "revoke"
         /\ db' = [db EXCEPT ![c.row] = Over(@, "rotated")]
         /\ Goes(c, [c EXCEPT !.step = "create"])
         /\ UNCHANGED <<tab, cookie, account, profile, faults, disturbed>>
  BY RevokeIsOver
<1>2. PICK to : to = [c EXCEPT !.step = "create"]
  OBVIOUS
<1>3. /\ cookie # NoToken /\ Refreshes(c) /\ calls = {c} /\ UNCHANGED <<cookie, faults>>
      /\ SameFamily(c.row, cookie)
  BY <1>1 DEF StayInv, CallKnows, AloneInv
<1>4. c.row \in Tokens /\ db[c.row].state = "active" /\ cookie \in Tokens /\ c \in CallRecords
  BY <1>1, <1>3, KnownTypes DEF AloneInv
<1>5. /\ db' \in [Tokens -> TokenRows] /\ db'[c.row] = Over(db[c.row], "rotated")
      /\ db'[c.row].state = "rotated"
      /\ db'[c.row].family = db[c.row].family
      /\ \A k \in Tokens \ {c.row} : db'[k] = db[k]
  BY <1>1, <1>4, OverType DEF Typed, TokenStates
<1>6. db'[c.row].age = 0
  <2>1. db[c.row] \in TokenRows
    BY <1>4, KnownTypes
  <2> QED BY <1>5, <2>1 DEF Over, TokenRows
<1>7. to.step = "create" /\ to.row = c.row /\ SameCall(c, to) /\ to.kind = c.kind
  <2>1. /\ SameCall(c, [c EXCEPT !.step = "create"])
        /\ [c EXCEPT !.step = "create"].step = "create" /\ [c EXCEPT !.step = "create"].row = c.row
    BY <1>4, StepIsSame DEF CallSteps
  <2> QED BY <1>2, <2>1 DEF SameCall
<1>8. Served(c, to) /\ calls' = {to}
  BY <1>1, <1>2, <1>3, <1>5, <1>7 DEF Served, Typed, Goes
<1>9. db'[c.row].family = db'[cookie].family
  BY <1>3, <1>4, <1>5 DEF SameFamily
<1>10. CallKnows(to)'
  BY <1>3, <1>7, <1>9 DEF CallKnows, Refreshes, SameFamily
<1>11. CookieInv'
  <2>1. CASE c.row = cookie
    BY <1>3, <1>5, <1>6, <1>7, <1>8, <2>1 DEF CookieInv, Rotating, Refreshes
  <2>2. CASE c.row # cookie
    <3>1. db'[cookie] = db[cookie] /\ db[cookie].state # "active"
      BY <1>3, <1>4, <1>5, <2>2 DEF AloneInv, UniqueActive, SameFamily
    <3>2. Repeated => Repeated'
      BY <1>7, <1>8, <3>1, RepeatedStill
    <3>3. FamilyGoesOn'
      BY <1>7, <1>8 DEF FamilyGoesOn
    <3>4. ~Rotating
      BY <1>1, <1>3 DEF Rotating
    <3> QED BY <1>3, <3>1, <3>2, <3>3, <3>4 DEF StayInv, CookieInv, IsOver, LostItsNext
  <2> QED BY <2>1, <2>2
<1> QED BY <1>8, <1>10, <1>11 DEF StayInv

LEMMA InsertIs ==
    ASSUME Typed, NEW k \in Tokens, NEW family, Insert(k, family)
    PROVE  /\ db'[k].state = "active" /\ db'[k].family = family
           /\ \A j \in Tokens \ {k} : db'[j] = db[j]
BY DEF Typed, Insert

\* A token is made, and its call answered.
LEMMA MakingStays ==
    ASSUME Typed, AloneInv, StayInv, NEW c \in calls, NEW k, NEW family,
           NEW status \in Statuses, Unused # {}, k = NewToken, Insert(k, family), db' \in [Tokens -> TokenRows],
           c.kind # "logout", c.step # "ok",
           c.step = "create" => family = db[c.row].family,
           NEW to, to = Answered(c, status, k), Served(c, to), UNCHANGED faults
    PROVE  StayInv'
<1>1. k \in Tokens /\ k # NoToken /\ c \in CallRecords
  BY NewTokenIsUnused, KnownTypes, TokensFinite DEF Unused
<1>2. /\ db'[k].state = "active" /\ db'[k].family = family
      /\ \A j \in Tokens \ {k} : db'[j] = db[j]
  BY <1>1, InsertIs
<1>3. to.made = k /\ to.step = "ok" /\ to.kind = c.kind
  BY <1>1, StepsOf, AnsweredIsSame DEF AnyToken
<1>4. calls = {c} /\ calls' = {to} /\ UNCHANGED <<tab, cookie>>
  BY DEF AloneInv, Served, Goes
<1>5. CallKnows(to)'
  BY <1>1, <1>2, <1>3 DEF CallKnows, Refreshes
<1>6. CASE cookie = NoToken
  BY <1>4, <1>5, <1>6 DEF StayInv, CookieInv, IsOver
<1>7. CASE cookie # NoToken
  <2>1. cookie \in Tokens /\ db[cookie].state # "none"
    BY <1>7, KnownTypes DEF StayInv, CookieInv, IsOver
  <2>2. k # cookie /\ db'[cookie] = db[cookie]
    BY <1>2, <2>1, MadeIsAnother DEF AloneInv
  <2>3. Repeated => Repeated'
    BY <1>3, <2>2, RepeatedStill
  <2>4. c.step = "create" => SameFamily(k, cookie)'
    BY <1>2, <1>4, <2>2 DEF StayInv, CallKnows, SameFamily
  <2>5. Rotating => Rotating'
    BY <1>3, <1>4, <2>2, <2>4 DEF Rotating, Refreshes
  <2>6. FamilyGoesOn => FamilyGoesOn'
    <3>1. CASE c.step = "create"
      BY <1>1, <1>2, <2>4, <3>1 DEF FamilyGoesOn
    <3>2. CASE c.step # "create"
      <4>1. ASSUME NEW j \in Tokens, db[j].state = "active", SameFamily(j, cookie)
            PROVE  db'[j].state = "active" /\ SameFamily(j, cookie)'
        BY <1>2, <1>4, <2>1, <2>2, <4>1, MadeIsAnother DEF AloneInv, SameFamily
      <4> QED BY <1>4, <3>2, <4>1 DEF FamilyGoesOn
    <3> QED BY <3>1, <3>2
  <2>7. CookieInv'
    BY <1>4, <2>2, <2>3, <2>5, <2>6 DEF StayInv, CookieInv, IsOver, LostItsNext
  <2> QED BY <1>4, <1>5, <2>7 DEF StayInv
<1> QED BY <1>6, <1>7

LEMMA LoginStays ==
    ASSUME Typed, AloneInv, StayInv, LoginServed \/ LoginRefused
    PROVE  StayInv'
<1>1. CASE LoginServed
  <2>1. PICK c \in calls :
           /\ c.kind = "login" /\ c.step = "sent" /\ Unused # {}
           /\ account' = IF account = "none" THEN "onboarding_pending" ELSE account
           /\ Insert(NewToken, NewFamily)
           /\ Goes(c, Answered(c, account', NewToken))
           /\ UNCHANGED <<tab, cookie, profile, faults, disturbed>>
    BY <1>1 DEF LoginServed
  <2>2. NewToken \in AnyToken /\ NewFamily \in AnyToken /\ account' \in Statuses
    BY <2>1, NewTokenIsUnused, NewFamilyIsNew DEF Unused, AnyToken, Typed, Statuses
  <2>3. PICK status \in Statuses : status = account'
    BY <2>2
  <2>4. PICK family : family = NewFamily
    OBVIOUS
  <2>5. PICK k, to : k = NewToken /\ to = Answered(c, status, k)
    OBVIOUS
  <2>6. db' \in [Tokens -> TokenRows]
    BY <2>1, <2>2, InsertType
  <2>7. SameCall(c, to) /\ to.step = "ok"
    BY <2>2, <2>5, AnsweredIsSame
  <2>8. Goes(c, to)
    BY <2>1, <2>3, <2>5
  <2>9. Served(c, to)
    BY <2>1, <2>2, <2>6, <2>7, <2>8 DEF Served, Typed
  <2> QED BY <2>1, <2>4, <2>5, <2>6, <2>9, MakingStays
<1>2. CASE LoginRefused
  <2>1. PICK c \in calls : /\ c.kind = "login" /\ c.step = "sent" /\ Goes(c, Refused(c))
                           /\ UNCHANGED <<tab, cookie, services, faults, disturbed>>
    BY <1>2 DEF LoginRefused
  <2>2. PICK to : to = Refused(c)
    OBVIOUS
  <2>3. SameCall(c, to) /\ to.step = "refused"
    BY <2>2, RefusedIsSame
  <2>4. Served(c, to)
    BY <2>1, <2>2, <2>3 DEF Served, Typed, services
  <2>5. CallKnows(to)'
    BY <2>1, <2>3 DEF CallKnows, Refreshes, SameCall
  <2> QED BY <2>1, <2>3, <2>4, <2>5, QuietStays DEF services
<1> QED BY <1>1, <1>2

LEMMA CreateStays ==
    ASSUME Typed, AloneInv, StayInv, Create
    PROVE  StayInv'
<1>1. PICK c \in calls :
         /\ c.step = "create" /\ Unused # {}
         /\ Insert(NewToken, db[c.row].family)
         /\ Goes(c, Answered(c, account, NewToken))
         /\ UNCHANGED <<tab, cookie, account, profile, faults, disturbed>>
  BY DEF Create
<1>2. PICK status \in Statuses : status = account
  BY DEF Typed
<1>3. PICK family : family = db[c.row].family
  OBVIOUS
<1>4. PICK k, to : k = NewToken /\ to = Answered(c, status, k)
  OBVIOUS
<1>5. NewToken \in AnyToken /\ family \in AnyToken
  BY <1>1, <1>3, NewTokenIsUnused DEF Unused, AnyToken, Typed, HasRow, TokenRows
<1>6. db' \in [Tokens -> TokenRows]
  BY <1>1, <1>3, <1>5, InsertType
<1>7. SameCall(c, to) /\ to.step = "ok"
  BY <1>4, <1>5, AnsweredIsSame
<1>8. Served(c, to)
  BY <1>1, <1>2, <1>4, <1>6, <1>7 DEF Served, Typed
<1>9. c.kind # "logout"
  BY <1>1 DEF StayInv, CallKnows, Refreshes
<1> QED BY <1>1, <1>3, <1>4, <1>6, <1>8, <1>9, MakingStays

LEMMA FamilyEndStays ==
    ASSUME Typed, AloneInv, StayInv, RevokeFamily
    PROVE  StayInv'
<1>1. PICK c \in calls :
         /\ c.step = "reuse"
         /\ Revoking({k \in Tokens : db[k].family = db[c.cookie].family}, "ended")
         /\ Goes(c, Refused(c))
         /\ UNCHANGED <<tab, cookie, account, profile, faults, disturbed>>
  BY FamilyIsRevoked
<1>2. PICK to : to = Refused(c)
  OBVIOUS
<1>3. /\ IsOver /\ cookie # NoToken /\ c.cookie = cookie /\ calls = {c} /\ UNCHANGED cookie
      /\ c \in CallRecords
  BY <1>1, KnownTypes DEF StayInv, CallKnows, AloneInv
<1>4. cookie \in Tokens /\ db[cookie].state = "out"
  BY <1>3, KnownTypes DEF IsOver
<1>5. db'[cookie] = db[cookie]
  BY <1>1, <1>4 DEF Revoking
<1>6. to.step = "refused" /\ to.cookie = NoToken
  BY <1>2, <1>3, <1>4, RefusedIs
<1>7. IsOver'
  BY <1>3, <1>4, <1>5 DEF IsOver
<1>8. CallKnows(to)'
  BY <1>6, <1>7 DEF CallKnows
<1>9. calls' = {to}
  BY <1>1, <1>2, <1>3 DEF Goes
<1> QED BY <1>7, <1>8, <1>9 DEF StayInv, CookieInv

LEMMA LogoutStays ==
    ASSUME Typed, AloneInv, StayInv, LogoutServed
    PROVE  StayInv'
<1>1. PICK c \in calls :
         /\ c.kind = "logout" /\ c.step = "sent"
         /\ Revoking(Tokens, "out")
         /\ Goes(c, Answered(c, "none", NoToken))
         /\ UNCHANGED <<tab, cookie, account, profile, faults, disturbed>>
  BY LogoutRevokes
<1>2. PICK to : to = Answered(c, "none", NoToken)
  OBVIOUS
<1>3. calls = {c} /\ calls' = {to} /\ UNCHANGED <<tab, cookie, faults>> /\ c \in CallRecords
  BY <1>1, <1>2, KnownTypes DEF AloneInv, Goes
<1>4. to.step = "ok" /\ to.kind = "logout" /\ to.made = NoToken /\ SameCall(c, to)
  BY <1>1, <1>2, <1>3, StepsOf, AnsweredIsSame DEF Statuses, AnyToken
<1>5. CallKnows(to)'
  BY <1>4 DEF CallKnows, Refreshes
<1>6. db' \in [Tokens -> TokenRows]
  BY <1>1, RevokingType DEF TokenStates
<1>7. Served(c, to)
  BY <1>1, <1>2, <1>4, <1>6 DEF Served, Typed
<1>8. CASE IsOver \/ db[cookie].state = "active"
  <2>1. ASSUME cookie = NoToken PROVE IsOver'
    BY <1>3, <2>1 DEF IsOver
  <2>2. ASSUME cookie # NoToken PROVE IsOver'
    <3>1. cookie \in Tokens
      BY <2>2, KnownTypes
    <3>2. db'[cookie] = IF db[cookie].state = "active" THEN Over(db[cookie], "out") ELSE db[cookie]
      BY <1>1, <3>1 DEF Revoking
    <3>3. db'[cookie].state = "out"
      BY <1>8, <2>2, <3>1, <3>2, KnownTypes, OverType DEF IsOver, TokenStates
    <3> QED BY <1>3, <3>3 DEF IsOver
  <2>3. IsOver'
    BY <2>1, <2>2
  <2> QED BY <1>3, <1>5, <2>3 DEF StayInv, CookieInv
<1>9. CASE ~IsOver /\ db[cookie].state = "rotated"
  <2>1. cookie \in Tokens
    BY <1>9, KnownTypes DEF IsOver
  <2>2. db'[cookie] = db[cookie]
    BY <1>1, <1>9, <2>1 DEF Revoking
  <2>3. LostItsNext
    BY <1>1, <1>3, <1>9 DEF StayInv, CookieInv, Rotating, Refreshes
  <2>4. Repeated'
    BY <1>4, <1>7, <2>2, <2>3, RepeatedStill DEF LostItsNext
  <2>5. FamilyGoesOn'
    BY <1>3, <1>4 DEF FamilyGoesOn
  <2>6. LostItsNext'
    BY <1>3, <2>2, <2>3, <2>4, <2>5 DEF LostItsNext
  <2> QED BY <1>3, <1>5, <1>9, <2>2, <2>6 DEF StayInv, CookieInv
<1> QED BY <1>8, <1>9 DEF StayInv, CookieInv

LEMMA ProfileStays ==
    ASSUME Typed, AloneInv, StayInv, ProfileService
    PROVE  StayInv'
<1>1. PICK c \in calls, to \in {[d EXCEPT !.step = "activate"] : d \in calls}
                               \cup {Refused(d) : d \in calls}
                               \cup {Answered(d, "active", NoToken) : d \in calls} :
         /\ c.kind = "profile" /\ c.step \in {"sent", "activate"} /\ Goes(c, to)
         /\ UNCHANGED <<tab, cookie, db, faults, disturbed>>
  BY DEF ProfileService, Upsert, ActivateUser
<1>2. calls = {c} /\ calls' = {to} /\ c \in CallRecords
  BY <1>1, KnownTypes DEF AloneInv, Goes
<1>3. /\ to.step \in {"activate", "refused", "ok"} /\ to.kind = "profile"
      /\ to.step = "ok" => to.made = NoToken
  <2>1. CASE to = [c EXCEPT !.step = "activate"]
    <3>1. to.kind = c.kind /\ to.step = "activate"
      BY <1>2, <2>1 DEF CallRecords
    <3> QED BY <1>1, <3>1
  <2>2. CASE to = Refused(c)
    BY <1>1, <1>2, <2>2, RefusedIs
  <2>3. CASE to = Answered(c, "active", NoToken)
    BY <1>1, <1>2, <2>3, StepsOf, AnsweredIsSame DEF Statuses, AnyToken
  <2> QED BY <1>1, <1>2, <2>1, <2>2, <2>3
<1>4. CallKnows(to)'
  BY <1>3 DEF CallKnows, Refreshes
<1>5. PICK d \in calls : \E done : Served(d, done)
  BY AuthIsServed
<1>6. Served(c, to)
  BY <1>2, <1>5 DEF Served, Goes
<1> QED BY <1>1, <1>3, <1>4, <1>6, QuietStays

\* What a lost refresh made is the browser's next token: the repeated request is for it.
LEMMA LoseStays ==
    ASSUME Typed, AloneInv, StayInv, OneFault, Counted, Lose, ~disturbed'
    PROVE  StayInv'
<1>1. PICK c \in calls :
         /\ Fault /\ c.step \in {"sent", "ok", "refused"} /\ Goes(c, Lost(c))
         /\ disturbed' = (disturbed \/ c.kind = "boot")
         /\ UNCHANGED <<tab, cookie, services>>
  BY DEF Lose
<1>2. PICK to : to = Lost(c)
  OBVIOUS
<1>3. calls = {c} /\ calls' = {to} /\ c \in CallRecords /\ UNCHANGED <<cookie, db>>
  BY <1>1, <1>2, KnownTypes DEF AloneInv, Goes, services
<1>4. to.step = "lost" /\ to.kind = c.kind /\ c.kind # "boot"
  BY <1>1, <1>2, <1>3, LostIsSame, StepsOf
<1>5. CallKnows(to)'
  BY <1>4 DEF CallKnows
<1>6. faults # MaxFaults /\ faults' = MaxFaults
  BY <1>1, KnownTypes DEF Fault, Counted, OneFault
<1>7. CASE IsOver \/ db[cookie].state = "active"
  BY <1>3, <1>5, <1>7 DEF StayInv, CookieInv, IsOver
<1>8. CASE ~IsOver /\ db[cookie].state = "rotated"
  <2>1. Rotating
    BY <1>6, <1>8 DEF StayInv, CookieInv, LostItsNext
  <2>2. /\ Refreshes(c) /\ db[cookie].age = 0 /\ SameFamily(c.made, cookie) /\ c.step = "ok"
    BY <1>1, <1>3, <2>1 DEF Rotating
  <2>3. c.made \in Tokens /\ db[c.made].state = "active"
    BY <1>3, <2>2, KnownTypes DEF StayInv, CallKnows, AnyToken
  <2>4. Repeats(Retry)' /\ db'[cookie].age <= Grace
    BY <1>3, <2>2, KnownTypes DEF Repeats, OneFault
  <2>5. Refreshes(to) /\ to.kind = "refresh"
    BY <1>4, <2>2 DEF Refreshes
  <2>6. Repeated'
    BY <1>3, <2>4, <2>5 DEF Repeated
  <2>7. FamilyGoesOn'
    BY <1>3, <2>2, <2>3 DEF FamilyGoesOn, SameFamily
  <2>8. LostItsNext'
    BY <1>3, <1>6, <2>4, <2>6, <2>7 DEF LostItsNext
  <2> QED BY <1>3, <1>5, <1>8, <2>8 DEF StayInv, CookieInv
<1> QED BY <1>7, <1>8 DEF StayInv, CookieInv

LEMMA ServicesStay ==
    ASSUME Typed, AloneInv, StayInv, OneFault, Counted, ~disturbed',
           AuthService \/ ProfileService \/ Faults
    PROVE  StayInv'
<1>1. ~StatementFails /\ ~IssueFails
  BY DEF StatementFails, IssueFails
<1> QED BY <1>1, FindStays, FindActiveStays, RevokeStays, CreateStays, LoginStays, FamilyEndStays,
           LogoutStays, ProfileStays, LoseStays
        DEF AuthService, Faults

-----------------------------------------------------------------------------
(***************************************************************************)
(* The browser's steps.                                                    *)
(***************************************************************************)

\* A tab that keeps its repetitions, or gets more of them.
Keeps(old, new) == \A t \in Tabs : old[t].retries \subseteq new[t].retries

\* A step that changes no call and no token.
LEMMA TabsStay ==
    ASSUME StayInv, Keeps(tab, tab'), UNCHANGED <<calls, cookie, db, faults>>
    PROVE  StayInv'
<1>1. Repeated => Repeated'
  BY DEF Repeated, Repeats, Keeps
<1>2. Rotating' = Rotating /\ FamilyGoesOn' = FamilyGoesOn /\ IsOver' = IsOver
  BY DEF Rotating, FamilyGoesOn, SameFamily, IsOver
<1>3. CookieInv'
  BY <1>1, <1>2 DEF StayInv, CookieInv, LostItsNext
<1>4. \A c : CallKnows(c)' = CallKnows(c)
  BY DEF CallKnows, SameFamily, IsOver
<1> QED BY <1>3, <1>4 DEF StayInv

\* A call begins: it repeats a lost refresh, or what repeats it is kept.
LEMMA BeginStays ==
    ASSUME AloneInv, StayInv, NEW t, NEW kind, Begin(t, kind), ~disturbed', UNCHANGED <<cookie, db>>,
           kind \in {"boot", "refresh"} \/ Keeps(tab, tab')
    PROVE  StayInv'
<1>1. calls = {} /\ UNCHANGED faults
  BY DEF Begin, Reloads, AloneInv
<1>2. PICK c : c = Call(t, kind)
  OBVIOUS
<1>3. calls' = {c} /\ c.kind = kind /\ c.step = "sent" /\ c.cookie = cookie
  BY <1>1, <1>2 DEF Begin, Call
<1>4. CallKnows(c)'
  BY <1>3 DEF CallKnows
<1>5. Repeated => Repeated'
  <2>1. CASE kind \in {"boot", "refresh"}
    BY <1>3, <2>1 DEF Repeated, Refreshes
  <2>2. CASE Keeps(tab, tab')
    BY <1>1, <2>2 DEF Repeated, Repeats, Keeps
  <2> QED BY <2>1, <2>2
<1>6. ~Rotating
  BY <1>1 DEF Rotating
<1>7. FamilyGoesOn => FamilyGoesOn'
  BY <1>1 DEF FamilyGoesOn, SameFamily
<1>8. CookieInv'
  BY <1>1, <1>5, <1>6, <1>7 DEF StayInv, CookieInv, LostItsNext, IsOver
<1> QED BY <1>3, <1>4, <1>8 DEF StayInv

LEMMA AnswerKeeps ==
    ASSUME NEW s \in TabStates, NEW c \in CallRecords
    PROVE  /\ s.retries \subseteq Answer(s, c).retries
           /\ c.kind = "refresh" /\ c.step = "lost" => Retry \in Answer(s, c).retries
           /\ Signed(s) /\ Answer(s, c).phase = "anonymous" =>
                 c.kind = "logout" \/ (c.kind = "refresh" /\ c.step = "refused")
<1> DEFINE a == Answer(s, c)
           Retried == [s EXCEPT !.retries = @ \cup {Retry}]
<1>1. \A status : /\ Authenticated(s, status).retries = s.retries
                  /\ Authenticated(s, status).phase = "authenticated"
                  /\ [Authenticated(s, status) EXCEPT !.path = "/"].retries = s.retries
                  /\ [Authenticated(s, status) EXCEPT !.path = "/"].phase = "authenticated"
  BY DEF Authenticated, TabStates
<1>2. Anonymous(s).retries = s.retries
  BY DEF Anonymous, TabStates
<1>3. Retried.retries = s.retries \cup {Retry} /\ Retried.phase = s.phase
  BY DEF TabStates
<1>4. c.kind \in CallKinds
  BY DEF CallRecords
<1> HIDE DEF Retried
<1>5. CASE c.kind = "boot"
  <2>1. (a = s \/ a = Authenticated(s, c.status) \/ a = Anonymous(s)) /\ (Signed(s) => a = s)
    BY <1>5 DEF Answer, BootAnswered, Signed
  <2> HIDE DEF a
  <2>2. Signed(s) => a.phase # "anonymous"
    BY <2>1 DEF Signed
  <2>3. a.retries = s.retries
    BY <1>1, <1>2, <2>1
  <2> QED BY <1>5, <2>2, <2>3 DEF a
<1>6. CASE c.kind = "refresh"
  <2>1. a = CASE c.step = "ok"      -> Authenticated(s, c.status)
              [] c.step = "refused" -> Anonymous(s)
              [] OTHER              -> Retried
    BY <1>6 DEF Answer, RefreshAnswered, Retried
  <2> HIDE DEF a
  <2>2. CASE c.step = "ok"
    <3>1. a = Authenticated(s, c.status)
      BY <2>1, <2>2
    <3>2. a.retries = s.retries /\ a.phase = "authenticated"
      BY <1>1, <3>1
    <3> QED BY <2>2, <3>2 DEF a
  <2>3. CASE c.step = "refused"
    <3>1. a = Anonymous(s)
      BY <2>1, <2>3
    <3> QED BY <1>2, <1>6, <2>3, <3>1 DEF a
  <2>4. CASE c.step \notin {"ok", "refused"}
    <3>1. a = Retried
      BY <2>1, <2>4
    <3>2. a.retries = s.retries \cup {Retry} /\ a.phase = s.phase
      BY <1>3, <3>1
    <3> QED BY <3>2 DEF a, Signed
  <2> QED BY <2>2, <2>3, <2>4
<1>7. CASE c.kind = "logout"
  <2>1. a = Anonymous(s)
    BY <1>7 DEF Answer
  <2> QED BY <1>2, <1>7, <2>1
<1>8. CASE c.kind \in {"login", "profile"}
  <2>1. a = s \/ a = [Authenticated(s, c.status) EXCEPT !.path = "/"]
    BY <1>8 DEF Answer, EntryAnswered
  <2> HIDE DEF a
  <2>2. a.retries = s.retries /\ (Signed(s) => a.phase # "anonymous")
    BY <1>1, <2>1 DEF Signed
  <2> QED BY <1>8, <2>2 DEF a
<1> QED BY <1>4, <1>5, <1>6, <1>7, <1>8 DEF CallKinds

\* What a page does with the answer, or the loss, of the one call.
Delivers(c) ==
    /\ c.step \in {"ok", "refused", "lost"}
    /\ calls = {c} /\ calls' = {}
    /\ Show(c.tab, Answer(tab[c.tab], c)) /\ cookie' = CookieAfter(c)
    /\ Forget
    /\ UNCHANGED <<account, profile, faults, disturbed>>

LEMMA DeliversIs ==
    ASSUME AloneInv, Deliver
    PROVE  \E c \in calls : Delivers(c)
BY DEF Deliver, AloneInv, Delivers

LEMMA ShownKeeps ==
    ASSUME Typed, NEW c \in calls, Delivers(c)
    PROVE  /\ Keeps(tab, tab')
           /\ c.kind = "refresh" /\ c.step = "lost" => \E t \in Tabs : Retry \in tab'[t].retries
           /\ \A t \in Tabs : Signed(tab[t]) /\ tab'[t].phase = "anonymous" =>
                 /\ t = c.tab
                 /\ c.kind = "logout" \/ (c.kind = "refresh" /\ c.step = "refused")
<1> DEFINE t == c.tab
           a == Answer(tab[t], c)
<1>1. c \in CallRecords /\ t \in Tabs /\ tab[t] \in TabStates
  BY DEF Typed, CallRecords
<1>2. a \in TabStates
  BY <1>1, AnswerIs
<1>3. /\ tab[t].retries \subseteq a.retries
      /\ c.kind = "refresh" /\ c.step = "lost" => Retry \in a.retries
      /\ Signed(tab[t]) /\ a.phase = "anonymous" =>
            c.kind = "logout" \/ (c.kind = "refresh" /\ c.step = "refused")
  BY <1>1, AnswerKeeps
<1>4. Show(t, a)
  BY DEF Delivers
<1> HIDE DEF a
<1>5. /\ tab'[t].phase = a.phase /\ tab'[t].retries = a.retries
      /\ \A u \in Tabs \ {t} : tab'[u] = tab[u]
  BY <1>1, <1>2, <1>4, ShowIs
<1>6. Keeps(tab, tab')
  BY <1>3, <1>5 DEF Keeps
<1>7. \A u \in Tabs \ {t} : Signed(tab[u]) => tab'[u].phase # "anonymous"
  BY <1>5 DEF Signed
<1> QED BY <1>1, <1>3, <1>5, <1>6, <1>7

LEMMA DeliverStays ==
    ASSUME Typed, AloneInv, StayInv, Deliver
    PROVE  StayInv'
<1>1. PICK c \in calls : Delivers(c)
  BY DeliversIs
<1>2. calls' = {} /\ calls = {c} /\ cookie' = CookieAfter(c) /\ UNCHANGED faults /\ CallKnows(c)
  BY <1>1 DEF Delivers, StayInv
<1>3. Presented' = {cookie'}
  BY <1>2 DEF Presented
<1>4. \A k \in Tokens : db'[k] = IF MattersIn(db, k, {cookie'}) THEN db[k] ELSE Blank
  BY <1>1, <1>3, MattersIs DEF Delivers, Forget
<1>5. cookie' \in Tokens => db'[cookie'] = db[cookie']
  BY <1>4 DEF MattersIn
<1>6. CASE c.step = "ok" /\ c.made # NoToken
  <2>1. cookie' = c.made /\ db[c.made].state = "active"
    BY <1>2, <1>6 DEF CookieAfter, CallKnows
  <2>2. cookie' \in Tokens
    BY <1>6, <2>1, KnownTypes DEF AnyToken
  <2>3. CookieInv'
    BY <1>5, <2>1, <2>2 DEF CookieInv
  <2> QED BY <1>2, <2>3 DEF StayInv
<1>7. CASE ~(c.step = "ok" /\ c.made # NoToken) /\ c.step = "ok" /\ c.kind = "logout"
  BY <1>2, <1>7 DEF StayInv, CookieInv, IsOver, CookieAfter
<1>8. CASE ~(c.step = "ok" /\ c.made # NoToken) /\ ~(c.step = "ok" /\ c.kind = "logout")
  <2>1. cookie' = cookie
    BY <1>2, <1>8 DEF CookieAfter
  <2>2. CASE cookie = NoToken
    BY <1>2, <2>1, <2>2 DEF StayInv, CookieInv, IsOver
  <2>3. CASE cookie # NoToken
    <3>1. cookie \in Tokens /\ db'[cookie'] = db[cookie]
      BY <1>5, <2>1, <2>3, KnownTypes
    <3>2. CASE IsOver \/ db[cookie].state = "active"
      BY <1>2, <2>1, <3>1, <3>2 DEF StayInv, CookieInv, IsOver
    <3>3. CASE ~IsOver /\ db[cookie].state = "rotated"
      <4>1. ~(Refreshes(c) /\ c.step \in {"ok", "refused"})
        BY <1>2, <1>8, <3>3 DEF CallKnows
      <4>2. c.step \in {"ok", "refused", "lost"}
        BY <1>1 DEF Delivers
      <4>3. LostItsNext
        BY <1>2, <3>3, <4>1, <4>2 DEF StayInv, CookieInv, Rotating
      <4>4. Repeated'
        <5>1. CASE \E t \in Tabs : \E n \in tab[t].retries : Repeats(n)
          BY <1>1, <2>1, <3>1, <5>1, ShownKeeps DEF Repeated, Repeats, Keeps
        <5>2. CASE \E d \in calls : Refreshes(d) /\ (d.step = "lost" => d.kind = "refresh" /\ Repeats(Retry))
          <6>1. c.step = "lost" /\ c.kind = "refresh" /\ Repeats(Retry)
            BY <1>2, <4>1, <4>2, <5>2
          <6>2. PICK t \in Tabs : Retry \in tab'[t].retries
            BY <1>1, <6>1, ShownKeeps
          <6>3. Repeats(Retry)'
            BY <2>1, <3>1, <6>1 DEF Repeats
          <6> QED BY <6>2, <6>3 DEF Repeated
        <5> QED BY <4>3, <5>1, <5>2 DEF LostItsNext, Repeated
      <4>5. FamilyGoesOn'
        <5>1. PICK k \in Tokens : db[k].state = "active" /\ SameFamily(k, cookie)
          BY <1>2, <1>8, <4>2, <4>3 DEF LostItsNext, FamilyGoesOn
        <5>2. MattersIn(db, k, {cookie})
          BY <3>1, <3>3, <5>1, HeirMatters DEF AloneInv
        <5>3. db'[k] = db[k]
          BY <1>4, <2>1, <5>2
        <5> QED BY <2>1, <3>1, <5>1, <5>3 DEF FamilyGoesOn, SameFamily
      <4>6. LostItsNext'
        BY <1>2, <3>1, <4>3, <4>4, <4>5 DEF LostItsNext
      <4> QED BY <1>2, <3>1, <3>3, <4>6 DEF StayInv, CookieInv
    <3> QED BY <3>2, <3>3 DEF StayInv, CookieInv
  <2> QED BY <2>2, <2>3
<1> QED BY <1>6, <1>7, <1>8

LEMMA OlderIs ==
    ASSUME Typed, Tick
    PROVE  /\ \A t \in Tabs : /\ tab'[t].retries = Older(tab[t].retries) /\ 0 \notin tab[t].retries
                              /\ tab'[t].phase = tab[t].phase
           /\ \A k \in Tokens :
                 /\ db'[k].state = db[k].state /\ db'[k].family = db[k].family
                 /\ db[k].state = "rotated" /\ db[k].age <= Grace => db'[k].age = db[k].age + 1
<1>1. ASSUME NEW t \in Tabs
      PROVE  tab'[t].retries = Older(tab[t].retries) /\ tab'[t].phase = tab[t].phase
  <2> DEFINE s == tab[t]
             timer == Older(s.timer)
             retries == Older(s.retries)
  <2>1. tab'[t] = [[s EXCEPT !.timer = timer] EXCEPT !.retries = retries]
    BY DEF Tick
  <2>2. s \in TabStates
    BY DEF Typed
  <2> HIDE DEF s, timer, retries
  <2>3. tab'[t].retries = retries /\ tab'[t].phase = s.phase
    BY <2>1, <2>2 DEF TabStates
  <2> QED BY <2>3 DEF s, retries
<1>2. ASSUME NEW k \in Tokens
      PROVE  /\ db'[k].state = db[k].state /\ db'[k].family = db[k].family
             /\ db[k].state = "rotated" /\ db[k].age <= Grace => db'[k].age = db[k].age + 1
  <2>1. /\ [db[k] EXCEPT !.age = @ + 1].state = db[k].state
        /\ [db[k] EXCEPT !.age = @ + 1].family = db[k].family
        /\ [db[k] EXCEPT !.age = @ + 1].age = db[k].age + 1
    BY DEF Typed, TokenRows
  <2>2. db'[k] = IF db[k].state \in {"none", "active"} \/ db[k].age > Grace THEN db[k]
                 ELSE [db[k] EXCEPT !.age = @ + 1]
    BY DEF Tick
  <2>3. db[k].age \in Int /\ Grace \in Int
    BY KnownTypes
  <2> QED BY <2>1, <2>2, <2>3
<1> QED BY <1>1, <1>2 DEF Tick

LEMMA TickStays ==
    ASSUME Typed, AloneInv, StayInv, Tick
    PROVE  StayInv'
<1>1. calls = {} /\ UNCHANGED <<calls, cookie, faults>>
  BY DEF Tick
<1>2. CASE cookie = NoToken
  BY <1>1, <1>2 DEF StayInv, CookieInv, IsOver
<1>3. CASE cookie # NoToken
  <2>1. cookie \in Tokens /\ db'[cookie].state = db[cookie].state
    BY <1>3, KnownTypes, OlderIs
  <2>2. CASE IsOver \/ db[cookie].state = "active"
    BY <1>1, <2>1, <2>2 DEF StayInv, CookieInv, IsOver
  <2>3. CASE ~IsOver /\ db[cookie].state = "rotated"
    <3>1. LostItsNext
      BY <1>1, <2>3 DEF StayInv, CookieInv, Rotating
    <3>2. db'[cookie].age = db[cookie].age + 1 /\ db[cookie].age \in Int /\ Grace \in Int
      BY <2>1, <2>3, <3>1, KnownTypes, OlderIs DEF LostItsNext
    <3>3. PICK t \in Tabs, n \in Int : n \in tab[t].retries /\ Repeats(n)
      BY <1>1, <3>1, KnownTypes DEF LostItsNext, Repeated
    <3>4. n - 1 \in tab'[t].retries /\ n # 0
      BY <3>3, OlderIs DEF Older
    <3>5. n >= 0 /\ db[cookie].age + n <= Grace
      BY <3>3 DEF Repeats
    <3>6. Repeats(n - 1)' /\ db'[cookie].age <= Grace
      BY <1>1, <3>2, <3>4, <3>5 DEF Repeats
    <3>7. Repeated'
      BY <3>4, <3>6 DEF Repeated
    <3>8. FamilyGoesOn'
      BY <1>1, <2>1, <3>1, OlderIs DEF LostItsNext, FamilyGoesOn, SameFamily
    <3> QED BY <1>1, <2>1, <2>3, <3>1, <3>6, <3>7, <3>8 DEF StayInv, CookieInv, LostItsNext
  <2> QED BY <2>2, <2>3 DEF StayInv, CookieInv
<1> QED BY <1>2, <1>3

\* What the user does, and a timeout.
LEMMA UserStays ==
    ASSUME Typed, AloneInv, StayInv, NEW t \in Tabs, ~disturbed',
           \/ RenewalDue(t) \/ RetryDue(t)
           \/ Open(t) \/ Close(t) \/ Navigate(t) \/ Login(t) \/ Signup(t)
           \/ startGoogleLogin(t) \/ GoogleCallback(t) \/ Logout(t) \/ CompleteProfile(t)
    PROVE  StayInv'
<1>1. CASE RenewalDue(t) \/ RetryDue(t) \/ Open(t) \/ startGoogleLogin(t)
  BY <1>1, BeginStays DEF RenewalDue, RetryDue, Open, startGoogleLogin, services
<1>2. UNCHANGED tab => Keeps(tab, tab')
  BY DEF Keeps
<1>3. CASE Login(t) \/ Signup(t) \/ Logout(t) \/ CompleteProfile(t)
  BY <1>2, <1>3, BeginStays DEF Login, Signup, Logout, CompleteProfile, services
<1>4. CASE GoogleCallback(t)
  <2>1. [tab[t] EXCEPT !.google = FALSE].retries = tab[t].retries
    BY DEF Typed, TabStates
  <2>2. tab' = [tab EXCEPT ![t].google = FALSE] /\ UNCHANGED <<cookie, services>>
    BY <1>4 DEF GoogleCallback
  <2>3. Keeps(tab, tab')
    BY <2>1, <2>2 DEF Keeps, Typed
  <2>4. Begin(t, "login") \/ UNCHANGED <<calls, faults, disturbed>>
    BY <1>4 DEF GoogleCallback
  <2> QED BY <2>2, <2>3, <2>4, BeginStays, TabsStay DEF services
<1>5. CASE Navigate(t)
  <2>1. PICK p \in Paths : Show(t, [tab[t] EXCEPT !.path = p])
    BY <1>5 DEF Navigate
  <2> DEFINE s == [tab[t] EXCEPT !.path = p]
  <2>2. s \in TabStates /\ s.retries = tab[t].retries
    BY SessionAssumption DEF Typed, TabStates, AllPaths
  <2>3. Show(t, s)
    BY <2>1
  <2> HIDE DEF s
  <2>4. Keeps(tab, tab')
    BY <2>2, <2>3, ShowIs DEF Keeps
  <2> QED BY <1>5, <2>4, TabsStay DEF Navigate, services
<1>6. CASE Close(t)
  <2>1. tab[t].retries = {} /\ UNCHANGED <<calls, cookie, db, faults>>
    <3>1. \A c \in calls : c.tab # t /\ c.page
      BY <1>6 DEF Close, Abandons, AloneInv
    <3>2. ASSUME NEW c \in calls
          PROVE  [c EXCEPT !.page = @ /\ c.tab # t] = c
      <4> DEFINE p == c.page /\ c.tab # t
      <4>1. c \in CallRecords /\ p = c.page
        BY <3>1 DEF Typed, CallRecords
      <4>2. [c EXCEPT !.page = @ /\ c.tab # t] = [c EXCEPT !.page = p]
        OBVIOUS
      <4> HIDE DEF p
      <4> QED BY <4>1, <4>2 DEF CallRecords
    <3>3. calls' = {[c EXCEPT !.page = @ /\ c.tab # t] : c \in calls}
      BY <1>6 DEF Close
    <3>4. calls' = calls
      BY <3>2, <3>3
    <3> QED BY <1>6, <3>4 DEF Close, Abandons, services
  <2>2. Keeps(tab, tab')
    BY <1>6, <2>1 DEF Close, Keeps, Typed
  <2> QED BY <2>1, <2>2, TabsStay
<1> QED BY <1>1, <1>3, <1>4, <1>5, <1>6

LEMMA StayStep ==
    ASSUME OneFault, Typed, TokenInv, Counted, disturbed \/ StayInv, [Next]_vars
    PROVE  disturbed' \/ StayInv'
<1> SUFFICES ASSUME ~disturbed' PROVE StayInv'
  OBVIOUS
<1>1. ~disturbed
  BY DisturbedStays
<1>2. AloneInv /\ StayInv
  BY <1>1 DEF TokenInv
<1>3. CASE AuthService \/ ProfileService \/ Faults
  BY <1>2, <1>3, ServicesStay
<1>4. CASE Deliver \/ Tick
  BY <1>2, <1>4, DeliverStays, TickStays
<1>5. CASE Timeouts \/ User
  BY <1>2, <1>5, UserStays DEF Timeouts, User
<1>6. CASE UNCHANGED vars
  <2>1. Keeps(tab, tab')
    BY <1>6 DEF vars, Keeps
  <2> QED BY <1>2, <1>6, <2>1, TabsStay DEF vars, services
<1> QED BY <1>3, <1>4, <1>5, <1>6 DEF Next

\* No more goes wrong than the bound.
LEMMA CountedStep ==
    ASSUME Typed, Counted, [Next]_vars
    PROVE  Counted'
<1>1. Fault => Counted'
  BY KnownTypes DEF Fault, Counted
<1>2. (UNCHANGED faults) => Counted'
  BY DEF Counted
<1>3. Fault \/ UNCHANGED faults
  <2>1. CASE AuthService \/ ProfileService \/ Deliver \/ Tick
    BY <2>1 DEF AuthService, LoginServed, LoginRefused, Find, FindActive, Revoke, Create, RevokeFamily,
                LogoutServed, ProfileService, Upsert, ActivateUser, Deliver, Tick
  <2>2. CASE Faults
    BY <2>2 DEF Faults, Lose, StatementFails, IssueFails
  <2>3. CASE Timeouts
    BY <2>3 DEF Timeouts, RenewalDue, RetryDue, Begin
  <2>4. CASE User
    BY <2>4 DEF User, Open, Close, Navigate, Login, Signup, startGoogleLogin, GoogleCallback,
                Logout, CompleteProfile, Begin
  <2>5. CASE UNCHANGED vars
    BY <2>5 DEF vars
  <2> QED BY <2>1, <2>2, <2>3, <2>4, <2>5 DEF Next
<1> QED BY <1>1, <1>2, <1>3

\* Only an answer makes a tab anonymous that was logged in.
LEMMA StaysInStep ==
    ASSUME Typed, TokenInv, disturbed \/ StayInv, [Next]_vars,
           NEW t \in Tabs, Signed(tab[t]), tab'[t].phase = "anonymous", ~disturbed
    PROVE  Ended(t)
<1>1. AloneInv /\ StayInv /\ tab[t].phase = "authenticated" /\ tab[t] \in TabStates
  BY DEF TokenInv, Signed, Typed
<1>2. CASE Deliver
  <2>1. PICK c \in calls : Delivers(c)
    BY <1>1, <1>2, DeliversIs
  <2>2. t = c.tab /\ (c.kind = "logout" \/ (c.kind = "refresh" /\ c.step = "refused"))
    BY <2>1, ShownKeeps
  <2>3. c.kind = "logout" \/ c.cookie = NoToken
    BY <1>1, <2>2 DEF StayInv, CallKnows, Refreshes
  <2>4. c \in calls \ calls'
    BY <2>1 DEF Delivers
  <2> QED BY <2>2, <2>3, <2>4 DEF Ended
<1>3. CASE AuthService \/ ProfileService \/ Faults
  BY <1>1, <1>3, AuthIsServed DEF Served
<1>4. CASE Tick \/ UNCHANGED vars
  BY <1>1, <1>4, OlderIs DEF vars
<1>5. CASE Timeouts
  <2>1. PICK u \in Tabs : RenewalDue(u) \/ RetryDue(u)
    BY <1>5 DEF Timeouts
  <2>2. \A s : [tab[u] EXCEPT !.timer = s].phase = tab[u].phase
               /\ [tab[u] EXCEPT !.retries = s].phase = tab[u].phase
    BY DEF Typed, TabStates
  <2>3. \E s : tab' = [tab EXCEPT ![u] = s] /\ s.phase = tab[u].phase
    <3>1. RenewalDue(u) => tab' = [tab EXCEPT ![u] = [tab[u] EXCEPT !.timer = {}]]
      BY DEF RenewalDue
    <3>2. RetryDue(u) => tab' = [tab EXCEPT ![u] = [tab[u] EXCEPT !.retries = tab[u].retries \ {0}]]
      BY DEF RetryDue
    <3> QED BY <2>1, <2>2, <3>1, <3>2
  <2> QED BY <1>1, <2>3 DEF Typed
<1>6. CASE User
  <2>1. PICK u \in Tabs : \/ Close(u) \/ Open(u) \/ Navigate(u) \/ Login(u) \/ Signup(u)
                          \/ startGoogleLogin(u) \/ GoogleCallback(u) \/ Logout(u) \/ CompleteProfile(u)
    BY <1>6 DEF User
  <2>2. CASE Login(u) \/ Signup(u) \/ Logout(u) \/ CompleteProfile(u)
    BY <1>1, <2>2 DEF Login, Signup, Logout, CompleteProfile
  <2>3. CASE Close(u)
    BY <1>1, <2>3 DEF Close, ClosedTab, Typed
  <2>4. CASE Open(u) \/ startGoogleLogin(u)
    <3>1. ClosedTab \in TabStates
      BY DEF ClosedTab, TabStates, Statuses, AllPaths
    <3>2. \A p : /\ [ClosedTab EXCEPT !.phase = "checking", !.path = p].phase = "checking"
                 /\ [ClosedTab EXCEPT !.phase = "checking", !.google = p].phase = "checking"
      BY <3>1 DEF TabStates
    <3>3. \E s : s.phase = "checking" /\ tab' = [tab EXCEPT ![u] = s]
      BY <2>4, <3>2 DEF Open, startGoogleLogin
    <3> QED BY <1>1, <3>3 DEF Typed
  <2>5. CASE GoogleCallback(u)
    <3>1. [tab[u] EXCEPT !.google = FALSE].phase = tab[u].phase
      BY DEF Typed, TabStates
    <3>2. tab' = [tab EXCEPT ![u] = [tab[u] EXCEPT !.google = FALSE]]
      BY <2>5 DEF GoogleCallback
    <3> QED BY <1>1, <3>1, <3>2 DEF Typed
  <2>6. CASE Navigate(u)
    <3>1. PICK p \in Paths : Show(u, [tab[u] EXCEPT !.path = p])
      BY <2>6 DEF Navigate
    <3> DEFINE s == [tab[u] EXCEPT !.path = p]
    <3>2. s \in TabStates /\ s.phase = tab[u].phase
      BY SessionAssumption DEF Typed, TabStates, AllPaths
    <3>3. Show(u, s)
      BY <3>1
    <3> HIDE DEF s
    <3> QED BY <1>1, <3>2, <3>3, ShowIs
  <2> QED BY <2>1, <2>2, <2>3, <2>4, <2>5, <2>6
<1> QED BY <1>2, <1>3, <1>4, <1>5, <1>6 DEF Next

\* Nobody is thrown out of a session that goes on: a tab that is authenticated stays so until
\* somebody logs out, though an answer with the new cookie is lost.
THEOREM NobodyIsThrownOut ==
    ASSUME OneFault
    PROVE  Spec => StaysIn
<1> DEFINE Inv == Typed /\ RenewalIsPending /\ TokenInv /\ Counted /\ (disturbed \/ StayInv)
           Stays == \A t \in Tabs :
                       Signed(tab[t]) /\ tab'[t].phase = "anonymous" => Ended(t) \/ disturbed
<1>1. Init => Inv
  <2> SUFFICES ASSUME Init PROVE Inv
    OBVIOUS
  <2>1. Blank.state = "none"
    BY DEF Blank
  <2>2. AloneInv
    BY <2>1 DEF Init, AloneInv, UniqueActive, OnlyWhatMatters
  <2>3. Counted
    BY SessionAssumption DEF Init, Counted
  <2>4. StayInv
    BY DEF Init, StayInv, CookieInv, IsOver
  <2> QED BY <2>2, <2>3, <2>4, InitKeeps DEF TokenInv
<1>2. Inv /\ [Next]_vars => Inv'
  BY StepKeeps, TokenStep, CountedStep, StayStep
<1>3. Inv /\ [Next]_vars => [Stays]_vars
  BY StaysInStep
<1> QED BY <1>1, <1>2, <1>3, PTL DEF Spec, StaysIn
=============================================================================
