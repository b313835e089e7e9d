--------------------------- MODULE RoomPageProofs ---------------------------
(***************************************************************************)
(* Theorems about RoomPage, for all numbers of connections, tabs, events   *)
(* under way and repetitions: types; an open page ends up showing the room *)
(* as it is; a player whose page holds the connection that the row names   *)
(* is not put out.                                                         *)
(***************************************************************************)
EXTENDS RoomPage, SequenceTheorems, TLAPS

(***************************************************************************)
(* The inductive invariant: types, ...                                     *)
(***************************************************************************)
RealViews == [status : Statuses, seat : 0 .. MaxActs, gone : SUBSET Users]

ConnSteps   == {"free", "registered", "refused", "marked", "open", "gone"}
ConnRecords == [tab : Nat, step : ConnSteps, plays : BOOLEAN, read : Views]

FullTypes  == {"room_state", "player_joined", "reconnected", "player_left", "match_start",
               "match_finished"}
SmallTypes == {"disconnected", "player_ready"}
EventRecords ==
    [type : FullTypes \cup SmallTypes \cup {"room_closed"}, user : Users, view : Views, on : BOOLEAN]

\* An event of a full type brings the whole room, and no other does.
EventFits(e) ==
    /\ e \in EventRecords
    /\ e.type \in FullTypes => e.view \in RealViews
    /\ e.type \notin FullTypes => e.view = NoView

PageRecords ==
    [at : {"away", "room", "game"}, tab : 1 .. MaxTabs, conn : 0 .. MaxConns, answer : Views,
     view : Views, ready : SUBSET Users, inbox : Seq(EventRecords), stale : BOOLEAN]

PageTyped(p) ==
    /\ p \in PageRecords
    /\ \A i \in DOMAIN p.inbox : EventFits(p.inbox[i])
    /\ p.at = "room" => p.view \in RealViews

RowTyped(r, n) ==
    /\ r \in [status : Statuses, seat : Nat, gone : SUBSET Users, conn : 0 .. MaxConns]
    /\ r.seat <= n

ConnTyped(k) ==
    /\ k \in [Conns -> ConnRecords]
    /\ \A c \in Conns : k[c].step \in {"registered", "marked"} => k[c].read \in RealViews

Typed ==
    /\ me \in Users
    /\ sits \in Nat /\ acts \in Nat /\ sits <= acts /\ acts <= MaxActs
    /\ RowTyped(row, sits)
    /\ ConnTyped(conn) /\ presence \in 0 .. MaxConns /\ due \subseteq Conns
    /\ PageTyped(page)

(***************************************************************************)
(* ... that connections end once, and the page's has not, ...              *)
(***************************************************************************)
Ended(c) == conn[c].step = "gone"

ConnInv ==
    /\ \A c \in due : Ended(c)
    /\ page.conn # 0 => conn[page.conn].step # "free" /\ ~Ended(page.conn)
    /\ me \in row.gone => row.conn # 0 /\ Ended(row.conn)

(***************************************************************************)
(* ... and that the events on their way lead from what the page shows to   *)
(* the room as it is: the last of a full type, if there is one, and the    *)
(* disconnections after it.                                                *)
(***************************************************************************)
Base(v, q, i) == IF i = 0 THEN v ELSE q[i].view

After(q, i) == {q[j].user : j \in {k \in i + 1 .. Len(q) : q[k].type = "disconnected"}}

LeadsFrom(v, q, w, i) ==
    /\ i # 0 => q[i].type \in FullTypes
    /\ \A j \in i + 1 .. Len(q) : q[j].type \in SmallTypes
    /\ w = [Base(v, q, i) EXCEPT !.gone = @ \cup After(q, i)]

Leads(v, q, w) == \E i \in 0 .. Len(q) : LeadsFrom(v, q, w, i)

IsClosing(q) == \E i \in DOMAIN q : q[i].type = "room_closed"

ViewInv ==
    Hears /\ ~page.stale => IsClosing(page.inbox) \/ Leads(page.view, page.inbox, ViewOf(row))

-----------------------------------------------------------------------------
(***************************************************************************)
(* Views, and the events that lead to them.                                *)
(***************************************************************************)
AnyViews == [status : Statuses \cup {"none"}, seat : Nat, gone : SUBSET Users]

\* Another player u is gone from the view v.
Gone(v, u) == [v EXCEPT !.gone = @ \cup {u}]

\* What a page may show is a view with the three fields.
LEMMA ViewsAreViews == Views \subseteq AnyViews
  <1>1. RealViews \subseteq AnyViews
    BY RoomPageAssumption DEF RealViews, AnyViews
  <1>2. NoView \in AnyViews
    BY DEF NoView, AnyViews
  <1>3. QED
    BY <1>1, <1>2 DEF Views, RealViews

\* The view of a room has no other fields.
LEMMA ViewOfRow ==
  ASSUME NEW r, NEW n \in 0 .. MaxActs, RowTyped(r, n)
  PROVE  ViewOf(r) \in RealViews
  BY RoomPageAssumption DEF RowTyped, ViewOf, RealViews

\* Nobody leaves a view when the set of those who leave it is empty, or is
\* gone already.
LEMMA NobodyLeaves ==
  ASSUME NEW v \in AnyViews, NEW U \in SUBSET v.gone
  PROVE  v = [v EXCEPT !.gone = @ \cup U]
  <1>1. v.gone \cup U = v.gone
    OBVIOUS
  <1>2. QED
    BY <1>1 DEF AnyViews

\* An event that brings the room as it is ends what is under way.
LEMMA LeadsByFull ==
  ASSUME NEW v, NEW q \in Seq(EventRecords), NEW e \in EventRecords,
         e.type \in FullTypes
  PROVE  Leads(v, q \o <<e>>, e.view)
  <1> DEFINE s == q \o <<e>>
             n == Len(q) + 1
  <1>1. Len(s) = n /\ s[n] = e /\ n \in 0 .. Len(s) /\ n # 0
    OBVIOUS
  <1>2. n + 1 .. Len(s) = {}
    BY <1>1
  <1>3. After(s, n) = {}
    BY <1>2 DEF After
  <1>4. e.view \in AnyViews
    BY ViewsAreViews DEF EventRecords
  <1>5. e.view = [Base(v, s, n) EXCEPT !.gone = @ \cup After(s, n)]
    <2>1. Base(v, s, n) = e.view
      BY <1>1 DEF Base
    <2>2. {} \in SUBSET e.view.gone
      OBVIOUS
    <2>3. QED
      BY <2>1, <2>2, <1>3, <1>4, NobodyLeaves
  <1>6. LeadsFrom(v, s, e.view, n)
    BY <1>1, <1>2, <1>5 DEF LeadsFrom
  <1>7. QED
    BY <1>1, <1>6 DEF Leads

\* s is q with one more event e, and i leads as far as before, apart from e.
Extends(s, q, e, v, i) ==
    /\ i \in 0 .. Len(s)
    /\ Base(v, s, i) = Base(v, q, i)
    /\ i # 0 => s[i].type \in FullTypes
    /\ \A j \in i + 1 .. Len(s) : s[j].type \in SmallTypes
    /\ After(s, i) = After(q, i) \cup (IF e.type = "disconnected" THEN {e.user} ELSE {})

\* After one more event of the other kinds, what there was stays there.
LEMMA LeadsLonger ==
  ASSUME NEW v, NEW q \in Seq(EventRecords), NEW e \in EventRecords,
         NEW w, NEW i \in 0 .. Len(q), LeadsFrom(v, q, w, i), e.type \in SmallTypes
  PROVE  Extends(q \o <<e>>, q, e, v, i)
  <1> DEFINE s == q \o <<e>>
  <1>1. /\ Len(s) = Len(q) + 1 /\ s[Len(q) + 1] = e
        /\ \A j \in 1 .. Len(q) : s[j] = q[j]
    OBVIOUS
  <1>2. i \in 0 .. Len(s)
    BY <1>1
  <1>3. i # 0 => i \in 1 .. Len(q)
    OBVIOUS
  <1>4. Base(v, s, i) = Base(v, q, i)
    BY <1>1, <1>3 DEF Base
  <1>5. i # 0 => s[i].type \in FullTypes
    BY <1>1, <1>3 DEF LeadsFrom
  <1>6. i + 1 .. Len(s) = (i + 1 .. Len(q)) \cup {Len(q) + 1}
    BY <1>1
  <1>7. \A j \in i + 1 .. Len(q) : s[j] = q[j]
    BY <1>1
  <1>8. \A j \in i + 1 .. Len(s) : s[j].type \in SmallTypes
    BY <1>1, <1>6, <1>7 DEF LeadsFrom
  <1>9. After(s, i) = After(q, i) \cup (IF e.type = "disconnected" THEN {e.user} ELSE {})
    <2>1. ASSUME NEW u PROVE u \in After(s, i) <=>
              (u \in After(q, i) \/ (e.type = "disconnected" /\ u = e.user))
      BY <1>1, <1>6, <1>7 DEF After
    <2>2. QED
      BY <2>1
  <1> HIDE DEF s
  <1>10. QED
    BY <1>2, <1>4, <1>5, <1>8, <1>9 DEF s, Extends

\* A disconnection more under way is one in the view at its end.
LEMMA LeadsByDisconnection ==
  ASSUME NEW v \in AnyViews, NEW q \in Seq(EventRecords), NEW e \in EventRecords,
         NEW w, Leads(v, q, w), e.type = "disconnected"
  PROVE  Leads(v, q \o <<e>>, Gone(w, e.user))
  <1>1. PICK i \in 0 .. Len(q) : LeadsFrom(v, q, w, i)
    BY DEF Leads
  <1>2. e.type \in SmallTypes
    BY DEF SmallTypes
  <1> DEFINE s == q \o <<e>>
             b == Base(v, q, i)
             A == After(q, i)
  <1>a. Extends(s, q, e, v, i)
    BY <1>1, <1>2, LeadsLonger
  <1>3. /\ i \in 0 .. Len(s) /\ Base(v, s, i) = b
        /\ i # 0 => s[i].type \in FullTypes
        /\ \A j \in i + 1 .. Len(s) : s[j].type \in SmallTypes
        /\ After(s, i) = A \cup {e.user}
    BY <1>a, <1>2 DEF Extends
  <1>b. i # 0 => q[i] \in EventRecords
    OBVIOUS
  <1>4. b \in AnyViews
    BY <1>b, ViewsAreViews DEF Base, EventRecords
  <1>5. w = [b EXCEPT !.gone = @ \cup A]
    BY <1>1 DEF LeadsFrom
  <1> HIDE DEF b, A, s
  <1>6. Gone(w, e.user) = [b EXCEPT !.gone = @ \cup (A \cup {e.user})]
    BY <1>4, <1>5 DEF Gone, AnyViews
  <1>7. LeadsFrom(v, s, Gone(w, e.user), i)
    BY <1>3, <1>6 DEF LeadsFrom
  <1>8. QED
    BY <1>3, <1>7 DEF Leads, s

\* Ready or not, the view at its end is the same.
LEMMA LeadsByReady ==
  ASSUME NEW v, NEW q \in Seq(EventRecords), NEW e \in EventRecords,
         NEW w, Leads(v, q, w), e.type = "player_ready"
  PROVE  Leads(v, q \o <<e>>, w)
  <1>1. PICK i \in 0 .. Len(q) : LeadsFrom(v, q, w, i)
    BY DEF Leads
  <1>2. e.type \in SmallTypes /\ e.type # "disconnected"
    BY DEF SmallTypes
  <1> DEFINE s == q \o <<e>>
  <1>a. Extends(s, q, e, v, i)
    BY <1>1, <1>2, LeadsLonger
  <1>3. /\ i \in 0 .. Len(s) /\ Base(v, s, i) = Base(v, q, i)
        /\ i # 0 => s[i].type \in FullTypes
        /\ \A j \in i + 1 .. Len(s) : s[j].type \in SmallTypes
        /\ After(s, i) = After(q, i)
    BY <1>a, <1>2 DEF Extends
  <1> HIDE DEF s
  <1>4. LeadsFrom(v, s, w, i)
    BY <1>1, <1>3 DEF LeadsFrom
  <1>5. QED
    BY <1>3, <1>4 DEF Leads, s

\* With nothing under way, the page shows it.
LEMMA LeadsNowhere ==
  ASSUME NEW v \in AnyViews, NEW w, Leads(v, <<>>, w)
  PROVE  v = w
  <1>1. LeadsFrom(v, <<>>, w, 0)
    BY DEF Leads
  <1>2. After(<<>>, 0) = {}
    BY DEF After
  <1>3. w = [v EXCEPT !.gone = @ \cup {}]
    BY <1>1, <1>2 DEF LeadsFrom, Base
  <1>4. QED
    BY <1>3, NobodyLeaves

\* What the page reads of the room instead of what it shows does no harm.
LEMMA LeadsFromWhatIs ==
  ASSUME NEW v \in AnyViews, NEW q, NEW w \in AnyViews, Leads(v, q, w)
  PROVE  Leads(w, q, w)
  <1>1. PICK i \in 0 .. Len(q) : LeadsFrom(v, q, w, i)
    BY DEF Leads
  <1>2. CASE i = 0
    <2>1. w = [v EXCEPT !.gone = @ \cup After(q, i)]
      BY <1>1, <1>2 DEF LeadsFrom, Base
    <2>2. After(q, i) \in SUBSET w.gone
      BY <2>1 DEF AnyViews
    <2>3. w = [w EXCEPT !.gone = @ \cup After(q, i)]
      BY <2>2, NobodyLeaves
    <2>4. LeadsFrom(w, q, w, i)
      BY <1>1, <1>2, <2>3 DEF LeadsFrom, Base
    <2>5. QED
      BY <2>4 DEF Leads
  <1>3. CASE i # 0
    BY <1>1, <1>3 DEF Leads, LeadsFrom, Base
  <1>4. QED
    BY <1>2, <1>3

\* When the page has made of the first event under way what it makes of it,
\* the others lead on.
LEMMA LeadsOn ==
  ASSUME NEW v \in AnyViews, NEW q \in Seq(EventRecords), q # <<>>, NEW w, Leads(v, q, w),
         NEW x,
         Head(q).type \in FullTypes => x = Head(q).view,
         Head(q).type = "disconnected" => x = Gone(v, Head(q).user),
         Head(q).type = "player_ready" => x = v
  PROVE  Leads(x, Tail(q), w)
  <1> DEFINE t == Tail(q)
             e == Head(q)
  <1>1. PICK i \in 0 .. Len(q) : LeadsFrom(v, q, w, i)
    BY DEF Leads
  <1>2. /\ Len(t) = Len(q) - 1 /\ Len(q) \in Nat \ {0} /\ e = q[1]
        /\ \A j \in 1 .. Len(t) : t[j] = q[j + 1]
    OBVIOUS
  <1> HIDE DEF t, e
  <1>3. CASE i = 0
    <2>1. e.type \in SmallTypes
      BY <1>1, <1>2, <1>3 DEF LeadsFrom
    <2>2. \A j \in 0 + 1 .. Len(t) : t[j].type \in SmallTypes
      BY <1>1, <1>2, <1>3 DEF LeadsFrom
    <2>3. After(q, 0) = After(t, 0) \cup (IF e.type = "disconnected" THEN {e.user} ELSE {})
      <3>1. ASSUME NEW u \in After(q, 0)
            PROVE  u \in After(t, 0) \/ (e.type = "disconnected" /\ u = e.user)
        <4>1. PICK j \in 1 .. Len(q) : q[j].type = "disconnected" /\ u = q[j].user
          BY <3>1 DEF After
        <4>2. CASE j = 1
          BY <4>1, <4>2, <1>2
        <4>3. CASE j # 1
          <5>1. j - 1 \in 1 .. Len(t) /\ t[j - 1] = q[j]
            BY <4>3, <1>2
          <5>2. QED
            BY <4>1, <5>1 DEF After
        <4>4. QED
          BY <4>2, <4>3
      <3>2. ASSUME NEW u \in After(t, 0) PROVE u \in After(q, 0)
        <4>1. PICK j \in 1 .. Len(t) : t[j].type = "disconnected" /\ u = t[j].user
          BY <3>2 DEF After
        <4>2. j + 1 \in 1 .. Len(q) /\ t[j] = q[j + 1]
          BY <1>2
        <4>3. QED
          BY <4>1, <4>2 DEF After
      <3>3. ASSUME e.type = "disconnected" PROVE e.user \in After(q, 0)
        BY <3>3, <1>2 DEF After
      <3>4. QED
        BY <3>1, <3>2, <3>3
    <2>4. w = [v EXCEPT !.gone = @ \cup After(q, 0)]
      BY <1>1, <1>3 DEF LeadsFrom, Base
    <2>5. w = [x EXCEPT !.gone = @ \cup After(t, 0)]
      <3>1. CASE e.type = "disconnected"
        <4>1. x = [v EXCEPT !.gone = @ \cup {e.user}]
          BY <3>1 DEF Gone, e
        <4>2. After(q, 0) = After(t, 0) \cup {e.user}
          BY <2>3, <3>1
        <4>3. QED
          BY <2>4, <4>1, <4>2 DEF AnyViews
      <3>2. CASE e.type = "player_ready"
        <4>1. x = v
          BY <3>2 DEF e
        <4>2. After(q, 0) = After(t, 0)
          BY <2>3, <3>2
        <4>3. QED
          BY <2>4, <4>1, <4>2
      <3>3. QED
        BY <2>1, <3>1, <3>2 DEF SmallTypes
    <2>6. LeadsFrom(x, t, w, 0)
      BY <2>2, <2>5 DEF LeadsFrom, Base
    <2>7. QED
      BY <2>6, <1>2 DEF Leads, t
  <1>4. CASE i # 0
    <2>1. /\ i - 1 \in 0 .. Len(t) /\ i \in 1 .. Len(q)
          /\ i - 1 # 0 => t[i - 1] = q[i]
      BY <1>2, <1>4
    <2>2. \A j \in i .. Len(t) : t[j].type \in SmallTypes
      <3>1. \A j \in i .. Len(t) : j + 1 \in i + 1 .. Len(q) /\ t[j] = q[j + 1]
        BY <1>2, <1>4
      <3>2. QED
        BY <1>1, <3>1 DEF LeadsFrom
    <2>3. After(t, i - 1) = After(q, i)
      <3>1. ASSUME NEW u \in After(q, i) PROVE u \in After(t, i - 1)
        <4>1. PICK j \in i + 1 .. Len(q) : q[j].type = "disconnected" /\ u = q[j].user
          BY <3>1 DEF After
        <4>2. j - 1 \in (i - 1) + 1 .. Len(t) /\ t[j - 1] = q[j]
          BY <1>2, <1>4
        <4>3. QED
          BY <4>1, <4>2 DEF After
      <3>2. ASSUME NEW u \in After(t, i - 1) PROVE u \in After(q, i)
        <4>1. PICK j \in (i - 1) + 1 .. Len(t) : t[j].type = "disconnected" /\ u = t[j].user
          BY <3>2 DEF After
        <4>2. j + 1 \in i + 1 .. Len(q) /\ t[j] = q[j + 1]
          BY <1>2, <1>4
        <4>3. QED
          BY <4>1, <4>2 DEF After
      <3>3. QED
        BY <3>1, <3>2
    <2>4. Base(x, t, i - 1) = Base(v, q, i)
      <3>1. CASE i = 1
        <4>1. e.type \in FullTypes
          BY <3>1, <1>1, <1>2 DEF LeadsFrom
        <4>2. x = q[1].view
          BY <4>1, <1>2 DEF e
        <4>3. QED
          BY <3>1, <4>2 DEF Base
      <3>2. CASE i # 1
        BY <3>2, <1>4, <2>1 DEF Base
      <3>3. QED
        BY <3>1, <3>2
    <2>5. i - 1 # 0 => t[i - 1].type \in FullTypes
      BY <1>1, <1>4, <2>1 DEF LeadsFrom
    <2>6. w = [Base(x, t, i - 1) EXCEPT !.gone = @ \cup After(t, i - 1)]
      BY <1>1, <2>3, <2>4 DEF LeadsFrom
    <2>7. \A j \in (i - 1) + 1 .. Len(t) : t[j].type \in SmallTypes
      BY <2>2
    <2>8. LeadsFrom(x, t, w, i - 1)
      BY <2>5, <2>6, <2>7 DEF LeadsFrom
    <2>9. QED
      BY <2>1, <2>8 DEF Leads, t
  <1>5. QED
    BY <1>3, <1>4

\* The room's closing is under way until it comes.
LEMMA ClosesLater ==
  ASSUME NEW q \in Seq(EventRecords), NEW e \in EventRecords
  PROVE  IsClosing(q) \/ e.type = "room_closed" => IsClosing(q \o <<e>>)
  <1> DEFINE s == q \o <<e>>
  <1>1. /\ Len(s) = Len(q) + 1 /\ s[Len(q) + 1] = e
        /\ \A j \in 1 .. Len(q) : s[j] = q[j]
        /\ DOMAIN s = 1 .. Len(q) + 1 /\ DOMAIN q = 1 .. Len(q)
    OBVIOUS
  <1> HIDE DEF s
  <1>2. IsClosing(q) => IsClosing(s)
    BY <1>1 DEF IsClosing
  <1>3. e.type = "room_closed" => IsClosing(s)
    BY <1>1 DEF IsClosing
  <1>4. QED
    BY <1>2, <1>3 DEF s

LEMMA ClosesSooner ==
  ASSUME NEW q \in Seq(EventRecords), q # <<>>, IsClosing(q), Head(q).type # "room_closed"
  PROVE  IsClosing(Tail(q))
  <1> DEFINE t == Tail(q)
  <1>1. /\ Len(t) = Len(q) - 1 /\ Len(q) \in Nat \ {0} /\ Head(q) = q[1]
        /\ \A j \in 1 .. Len(t) : t[j] = q[j + 1]
        /\ DOMAIN t = 1 .. Len(t) /\ DOMAIN q = 1 .. Len(q)
    OBVIOUS
  <1> HIDE DEF t
  <1>2. PICK i \in 1 .. Len(q) : q[i].type = "room_closed"
    BY <1>1 DEF IsClosing
  <1>3. i # 1
    BY <1>1, <1>2
  <1>4. i - 1 \in 1 .. Len(t) /\ t[i - 1] = q[i]
    BY <1>1, <1>3
  <1>5. QED
    BY <1>1, <1>2, <1>4 DEF IsClosing, t

-----------------------------------------------------------------------------
(***************************************************************************)
(* Types.                                                                  *)
(***************************************************************************)
LEMMA OtherIsOne ==
  ASSUME me \in Users
  PROVE  Other \in Users /\ Other # me
  <1>1. \E u \in Users : u # me
    BY RoomPageAssumption DEF Users
  <1>2. QED
    BY <1>1 DEF Other

LEMMA EventsFit ==
  ASSUME NEW u \in Users
  PROVE  /\ \A type \in SmallTypes \cup {"room_closed"} : EventFits(Event(type, u))
         /\ \A on \in BOOLEAN : EventFits(ReadyEvent(u, on))
         /\ \A type \in FullTypes : \A r : \A n \in 0 .. MaxActs :
               RowTyped(r, n) => EventFits(RoomEvent(type, u, r))
  <1>1. NoView \in Views
    BY DEF Views
  <1>2. \A type \in SmallTypes \cup {"room_closed"} : type \notin FullTypes
    BY DEF SmallTypes, FullTypes
  <1>3. \A type \in SmallTypes \cup {"room_closed"} : EventFits(Event(type, u))
    BY <1>1, <1>2 DEF EventFits, EventRecords, Event
  <1>4. ASSUME NEW on \in BOOLEAN PROVE EventFits(ReadyEvent(u, on))
    <2>1. "player_ready" \in SmallTypes
      BY DEF SmallTypes
    <2>2. QED
      BY <1>1, <1>2, <2>1 DEF EventFits, EventRecords, ReadyEvent, Event
  <1>5. ASSUME NEW type \in FullTypes, NEW r, NEW n \in 0 .. MaxActs, RowTyped(r, n)
        PROVE  EventFits(RoomEvent(type, u, r))
    <2>1. ViewOf(r) \in RealViews /\ ViewOf(r) \in Views
      BY <1>5, ViewOfRow DEF Views, RealViews
    <2>2. QED
      BY <2>1 DEF EventFits, EventRecords, RoomEvent, Event
  <1>6. QED
    BY <1>3, <1>4, <1>5

\* The room's row after what may become of it.
LEMMA RowStays ==
  ASSUME NEW r, NEW n \in Nat, RowTyped(r, n)
  PROVE  /\ \A m \in Nat : m >= n => RowTyped(r, m)
         /\ \A u : RowTyped(Without(r, u), n)
         /\ \A c \in 0 .. MaxConns : RowTyped(Reconnected(r, c), n)
         /\ \A u \in Users : RowTyped([r EXCEPT !.gone = @ \cup {u}], n)
         /\ \A u : RowTyped([r EXCEPT !.gone = @ \ {u}], n)
         /\ RowTyped(Started(r), n)
         /\ RowTyped([Started(r) EXCEPT !.gone = {}], n)
         /\ RowTyped([r EXCEPT !.status = "finished"], n)
         /\ RowTyped([r EXCEPT !.status = "expired"], n)
         /\ RowTyped(Closed(r), n)
  <1>0. /\ r \in [status : Statuses, seat : Nat, gone : SUBSET Users, conn : 0 .. MaxConns]
        /\ n \in Nat /\ r.seat <= n /\ 0 \in 0 .. MaxConns
        /\ {"waiting", "playing", "finished", "expired"} \subseteq Statuses
    BY RoomPageAssumption DEF RowTyped, Statuses
  <1>1. \A m \in Nat : m >= n => RowTyped(r, m)
    BY <1>0 DEF RowTyped
  <1>2. RowTyped(Closed(r), n)
    BY <1>0 DEF RowTyped, Closed
  <1>3. RowTyped(Vacated(r), n)
    <2> DEFINE v == [r EXCEPT !.status = "waiting", !.seat = 0, !.gone = @ \ {Opponent}]
    <2>1. RowTyped(v, n)
      <3>1. v \in [status : Statuses, seat : Nat, gone : SUBSET Users, conn : 0 .. MaxConns]
        BY <1>0
      <3>2. v.seat = 0
        BY <1>0
      <3>3. QED
        BY <3>1, <3>2 DEF RowTyped
    <2>2. RowTyped([v EXCEPT !.conn = 0], n)
      BY <1>0, <2>1 DEF RowTyped
    <2> HIDE DEF v
    <2>3. CASE me = Opponent
      <3>1. Vacated(r) = [v EXCEPT !.conn = 0]
        BY <2>3 DEF Vacated, v
      <3>2. QED
        BY <2>2, <3>1
    <2>4. CASE me # Opponent
      <3>1. Vacated(r) = v
        BY <1>0, <2>4 DEF Vacated, v
      <3>2. QED
        BY <2>1, <3>1
    <2>5. QED
      BY <2>3, <2>4
  <1>4. \A u : RowTyped(Without(r, u), n)
    BY <1>2, <1>3 DEF Without
  <1>5. \A c \in 0 .. MaxConns : RowTyped(Reconnected(r, c), n)
    BY <1>0 DEF RowTyped, Reconnected
  <1>6. \A u \in Users : RowTyped([r EXCEPT !.gone = @ \cup {u}], n)
    BY <1>0 DEF RowTyped
  <1>7. \A u : RowTyped([r EXCEPT !.gone = @ \ {u}], n)
    BY <1>0 DEF RowTyped
  <1>8. RowTyped(Started(r), n) /\ RowTyped([Started(r) EXCEPT !.gone = {}], n)
    BY <1>0 DEF RowTyped, Started
  <1>9. RowTyped([r EXCEPT !.status = "finished"], n) /\ RowTyped([r EXCEPT !.status = "expired"], n)
    BY <1>0 DEF RowTyped
  <1>10. QED
    BY <1>1, <1>2, <1>4, <1>5, <1>6, <1>7, <1>8, <1>9

\* The page after an event was published.
LEMMA GetsTyped ==
  ASSUME NEW p, PageTyped(p), NEW e, EventFits(e), NEW g \in Gets(p, e)
  PROVE  PageTyped(g)
  <1>1. p \in PageRecords /\ p.inbox \in Seq(EventRecords) /\ e \in EventRecords
    BY DEF PageTyped, PageRecords, EventFits
  <1> DEFINE s == p.inbox \o <<e>>
             b == p.stale /\ e.view = NoView
  <1>2. g = p \/ g = [p EXCEPT !.stale = TRUE] \/ g = [p EXCEPT !.inbox = s, !.stale = b]
    BY DEF Gets
  <1>3. s \in Seq(EventRecords) /\ \A i \in DOMAIN s : EventFits(s[i])
    <2>1. s \in Seq(EventRecords)
      BY <1>1
    <2>2. \A i \in DOMAIN s : (i \in DOMAIN p.inbox /\ s[i] = p.inbox[i]) \/ s[i] = e
      BY <1>1
    <2>3. QED
      BY <2>1, <2>2 DEF PageTyped
  <1>4. b \in BOOLEAN
    BY <1>1 DEF PageRecords
  <1> HIDE DEF s, b
  <1>5. PageTyped([p EXCEPT !.stale = TRUE])
    BY <1>1 DEF PageTyped, PageRecords
  <1>6. PageTyped([p EXCEPT !.inbox = s, !.stale = b])
    BY <1>1, <1>3, <1>4 DEF PageTyped, PageRecords
  <1>7. QED
    BY <1>2, <1>5, <1>6

LEMMA AwayTyped ==
  ASSUME NEW p, PageTyped(p)
  PROVE  /\ PageTyped(Away(p))
         /\ PageTyped([Away(p) EXCEPT !.at = "game"])
  <1>1. /\ NoView \in Views /\ p.tab \in 1 .. MaxTabs /\ 0 \in 0 .. MaxConns
        /\ <<>> \in Seq(EventRecords) /\ DOMAIN <<>> = {}
    BY RoomPageAssumption DEF Views, PageTyped, PageRecords
  <1>2. QED
    BY <1>1 DEF PageTyped, PageRecords, Away, AwayPage

\* The page after the message e.
LEMMA OnMessageTyped ==
  ASSUME NEW p, PageTyped(p), p.at = "room", NEW e, EventFits(e)
  PROVE  PageTyped(OnMessage(p, e))
  <1>0. /\ p \in PageRecords /\ p.view \in RealViews /\ e \in EventRecords
        /\ RealViews \subseteq Views /\ e.user \in Users
        /\ \A i \in DOMAIN p.inbox : EventFits(p.inbox[i])
    BY DEF PageTyped, EventFits, EventRecords, Views, RealViews
  <1>1. CASE e.type \in FullTypes
    <2>1. e.view \in RealViews
      BY <1>1 DEF EventFits
    <2>2. PageTyped(Shows(p, e)) /\ PageTyped(OnPlayerLeft(p, e))
      BY <1>0, <2>1 DEF PageTyped, PageRecords, Shows, OnPlayerLeft
    <2>3. /\ PageTyped([p EXCEPT !.view = e.view, !.at = "game"])
          /\ PageTyped([p EXCEPT !.view = e.view, !.ready = {}])
      BY <1>0, <2>1 DEF PageTyped, PageRecords
    <2>4. QED
      BY <1>1, <2>2, <2>3 DEF FullTypes, OnMessage, OnReconnected
  <1>2. CASE e.type = "disconnected"
    <2>1. [p.view EXCEPT !.gone = @ \cup {e.user}] \in RealViews
      BY <1>0 DEF RealViews
    <2>2. PageTyped(OnDisconnected(p, e))
      BY <1>0, <2>1 DEF PageTyped, PageRecords, OnDisconnected
    <2>3. QED
      BY <1>2, <2>2 DEF OnMessage
  <1>3. CASE e.type = "player_ready"
    <2>1. PageTyped([p EXCEPT !.ready = IF e.on THEN @ \cup {e.user} ELSE @ \ {e.user}])
      BY <1>0 DEF PageTyped, PageRecords
    <2>2. QED
      BY <1>3, <2>1 DEF OnMessage
  <1>4. CASE e.type = "room_closed"
    <2>1. PageTyped([p EXCEPT !.at = "away"])
      BY <1>0 DEF PageTyped, PageRecords
    <2>2. QED
      BY <1>4, <2>1 DEF OnMessage
  <1>5. QED
    BY <1>0, <1>1, <1>2, <1>3, <1>4 DEF EventRecords, SmallTypes

\* The page when it has taken the first event.
LEMMA TailTyped ==
  ASSUME NEW p, PageTyped(p), p.inbox # <<>>
  PROVE  EventFits(Head(p.inbox)) /\ PageTyped([p EXCEPT !.inbox = Tail(@)])
  <1> DEFINE q == p.inbox
             t == Tail(q)
  <1>1. p \in PageRecords /\ q \in Seq(EventRecords) /\ q # <<>>
    BY DEF PageTyped, PageRecords
  <1>2. /\ t \in Seq(EventRecords) /\ 1 \in DOMAIN q /\ Head(q) = q[1]
        /\ \A i \in DOMAIN t : i + 1 \in DOMAIN q /\ t[i] = q[i + 1]
    BY <1>1
  <1>3. EventFits(Head(q)) /\ \A i \in DOMAIN t : EventFits(t[i])
    BY <1>2 DEF PageTyped
  <1>4. [p EXCEPT !.inbox = Tail(@)] = [p EXCEPT !.inbox = t]
    OBVIOUS
  <1> HIDE DEF t
  <1>5. QED
    BY <1>1, <1>2, <1>3, <1>4 DEF PageTyped, PageRecords

\* A connection takes a step.
LEMMA ConnSteppedTyped ==
  ASSUME NEW k, ConnTyped(k), NEW c \in Conns, NEW x \in ConnRecords,
         x.step \in {"registered", "marked"} => x.read \in RealViews
  PROVE  ConnTyped([k EXCEPT ![c] = x])
  BY DEF ConnTyped

\* The page opens its socket.
LEMMA OpensTyped ==
  ASSUME Typed, NEW p, PageTyped(p), Opens(p)
  PROVE  PageTyped(page') /\ ConnTyped(conn') /\ presence' \in 0 .. MaxConns /\ due' = due
  <1>1. /\ p \in PageRecords /\ <<>> \in Seq(EventRecords) /\ DOMAIN <<>> = {}
        /\ 0 \in 0 .. MaxConns /\ p.tab \in Nat
    BY RoomPageAssumption DEF PageTyped, PageRecords
  <1>2. ConnTyped(conn) /\ presence \in 0 .. MaxConns /\ due' = due
    BY DEF Typed, Opens
  <1>3. ViewOf(row) \in RealViews /\ RealViews \subseteq Views /\ Seated(row, me) \in BOOLEAN
    <2>1. RowTyped(row, sits) /\ sits \in 0 .. MaxActs
      BY RoomPageAssumption DEF Typed
    <2>2. QED
      BY <2>1, ViewOfRow DEF Views, RealViews, Seated
  <1>4. \A c \in 0 .. MaxConns : PageTyped([p EXCEPT !.conn = c, !.inbox = <<>>, !.stale = FALSE])
    BY <1>1 DEF PageTyped, PageRecords
  <1>5. ASSUME NEW c \in Conns,
               page' = [p EXCEPT !.conn = c, !.inbox = <<>>, !.stale = FALSE],
               \/ /\ presence' = c
                  /\ conn' = [conn EXCEPT ![c] = [tab |-> p.tab, step |-> "registered",
                                                  plays |-> Seated(row, me), read |-> ViewOf(row)]]
               \/ conn' = [conn EXCEPT ![c].step = "refused"] /\ UNCHANGED presence
        PROVE  PageTyped(page') /\ ConnTyped(conn') /\ presence' \in 0 .. MaxConns
    <2>1. c \in 0 .. MaxConns
      BY RoomPageAssumption DEF Conns
    <2>2. PageTyped(page')
      BY <1>4, <1>5, <2>1
    <2>3. [tab |-> p.tab, step |-> "registered",
           plays |-> Seated(row, me), read |-> ViewOf(row)] \in ConnRecords
      BY <1>1, <1>3 DEF ConnRecords, ConnSteps
    <2>4. [conn[c] EXCEPT !.step = "refused"] \in ConnRecords
      BY <1>2 DEF ConnTyped, ConnRecords, ConnSteps
    <2>5. [conn[c] EXCEPT !.step = "refused"].step = "refused"
      BY <1>2 DEF ConnTyped, ConnRecords
    <2>6. ConnTyped([conn EXCEPT ![c] = [conn[c] EXCEPT !.step = "refused"]])
      BY <1>2, <2>4, <2>5, ConnSteppedTyped
    <2>7. ConnTyped([conn EXCEPT ![c] = [tab |-> p.tab, step |-> "registered",
                                         plays |-> Seated(row, me), read |-> ViewOf(row)]])
      BY <1>2, <1>3, <2>3, ConnSteppedTyped
    <2>8. QED
      BY <1>2, <1>5, <2>1, <2>2, <2>6, <2>7
  <1>6. QED
    BY <1>1, <1>2, <1>4, <1>5 DEF Opens

LEMMA PublishTyped ==
  ASSUME PageTyped(page), NEW e, EventFits(e), Publish(e)
  PROVE  PageTyped(page')
  BY GetsTyped DEF Publish, PublishFor

\* A step of a connection: what it read stays, or is new.
LEMMA StepTyped ==
  ASSUME ConnTyped(conn), NEW c \in Conns
  PROVE  /\ ConnTyped([conn EXCEPT ![c].step = "refused"])
         /\ conn[c].step = "registered" => ConnTyped([conn EXCEPT ![c].step = "marked"])
         /\ \A v \in RealViews : ConnTyped([conn EXCEPT ![c].step = "marked", ![c].read = v])
         /\ ConnTyped([conn EXCEPT ![c].step = "open", ![c].read = NoView])
         /\ ConnTyped([conn EXCEPT ![c] = [NoConn EXCEPT !.step = "gone"]])
         /\ ConnTyped([conn EXCEPT ![c].plays = TRUE])
  <1> DEFINE k == conn[c]
  <1>1. /\ k \in ConnRecords /\ NoView \in Views /\ RealViews \subseteq Views
        /\ k.step \in {"registered", "marked"} => k.read \in RealViews
    BY DEF ConnTyped, Views, RealViews
  <1>2. ConnTyped([conn EXCEPT ![c].step = "refused"])
    <2>1. [k EXCEPT !.step = "refused"] \in ConnRecords /\ [k EXCEPT !.step = "refused"].step = "refused"
      BY <1>1 DEF ConnRecords, ConnSteps
    <2>2. ConnTyped([conn EXCEPT ![c] = [k EXCEPT !.step = "refused"]])
      BY <2>1, ConnSteppedTyped
    <2>3. QED
      BY <2>2
  <1>3. ASSUME k.step = "registered" PROVE ConnTyped([conn EXCEPT ![c].step = "marked"])
    <2>1. /\ [k EXCEPT !.step = "marked"] \in ConnRecords
          /\ [k EXCEPT !.step = "marked"].read \in RealViews
      BY <1>1, <1>3 DEF ConnRecords, ConnSteps
    <2>2. ConnTyped([conn EXCEPT ![c] = [k EXCEPT !.step = "marked"]])
      BY <2>1, ConnSteppedTyped
    <2>3. QED
      BY <2>2
  <1>4. ASSUME NEW v \in RealViews
        PROVE  ConnTyped([conn EXCEPT ![c].step = "marked", ![c].read = v])
    <2>1. /\ [k EXCEPT !.step = "marked", !.read = v] \in ConnRecords
          /\ [k EXCEPT !.step = "marked", !.read = v].read = v
      BY <1>1 DEF ConnRecords, ConnSteps
    <2>2. ConnTyped([conn EXCEPT ![c] = [k EXCEPT !.step = "marked", !.read = v]])
      BY <2>1, ConnSteppedTyped
    <2>3. [conn EXCEPT ![c].step = "marked", ![c].read = v] =
            [conn EXCEPT ![c] = [k EXCEPT !.step = "marked", !.read = v]]
      BY DEF ConnTyped
    <2>4. QED
      BY <2>2, <2>3
  <1>5. ConnTyped([conn EXCEPT ![c].step = "open", ![c].read = NoView])
    <2>1. /\ [k EXCEPT !.step = "open", !.read = NoView] \in ConnRecords
          /\ [k EXCEPT !.step = "open", !.read = NoView].step = "open"
      BY <1>1 DEF ConnRecords, ConnSteps
    <2>2. ConnTyped([conn EXCEPT ![c] = [k EXCEPT !.step = "open", !.read = NoView]])
      BY <2>1, ConnSteppedTyped
    <2>3. [conn EXCEPT ![c].step = "open", ![c].read = NoView] =
            [conn EXCEPT ![c] = [k EXCEPT !.step = "open", !.read = NoView]]
      BY DEF ConnTyped
    <2>4. QED
      BY <2>2, <2>3
  <1>6. ConnTyped([conn EXCEPT ![c] = [NoConn EXCEPT !.step = "gone"]])
    <2>1. /\ [NoConn EXCEPT !.step = "gone"] \in ConnRecords
          /\ [NoConn EXCEPT !.step = "gone"].step = "gone"
      BY <1>1 DEF ConnRecords, ConnSteps, NoConn
    <2>2. QED
      BY <2>1, ConnSteppedTyped
  <1>7. ConnTyped([conn EXCEPT ![c].plays = TRUE])
    <2>1. /\ [k EXCEPT !.plays = TRUE] \in ConnRecords
          /\ [k EXCEPT !.plays = TRUE].step = k.step /\ [k EXCEPT !.plays = TRUE].read = k.read
      BY <1>1 DEF ConnRecords
    <2>2. ConnTyped([conn EXCEPT ![c] = [k EXCEPT !.plays = TRUE]])
      BY <1>1, <2>1, ConnSteppedTyped
    <2>3. QED
      BY <2>2
  <1>8. QED
    BY <1>2, <1>3, <1>4, <1>5, <1>6, <1>7

LEMMA TypedInit == Init => Typed
  <1> SUFFICES ASSUME Init PROVE Typed
    OBVIOUS
  <1>1. me \in Users /\ sits = 0 /\ acts = 0 /\ due = {} /\ presence = 0
    BY DEF Init
  <1>2. MaxActs \in Nat /\ MaxConns \in Nat /\ 0 \in 0 .. MaxConns /\ 1 \in 1 .. MaxTabs
    BY RoomPageAssumption
  <1>3. RowTyped(row, 0)
    BY <1>2 DEF Init, RowTyped, Statuses
  <1>4. ConnTyped(conn)
    <2>1. NoConn \in ConnRecords /\ NoConn.step = "free"
      BY DEF NoConn, ConnRecords, ConnSteps, Views
    <2>2. QED
      BY <2>1 DEF Init, ConnTyped
  <1>5. PageTyped(page)
    <2>1. <<>> \in Seq(EventRecords) /\ DOMAIN <<>> = {} /\ NoView \in Views
      BY DEF Views
    <2>2. AwayPage \in PageRecords /\ AwayPage.inbox = <<>> /\ AwayPage.at = "away"
      BY <1>2, <2>1 DEF AwayPage, PageRecords
    <2>3. QED
      BY <2>1, <2>2 DEF Init, PageTyped
  <1>6. QED
    BY <1>1, <1>2, <1>3, <1>4, <1>5 DEF Typed

\* The page that is opened, of the room or of the game.
LEMMA EnterTyped ==
  ASSUME Typed, NEW tab \in {page.tab, page.tab + 1}, tab <= MaxTabs
  PROVE  /\ PageTyped([AwayPage EXCEPT !.at = "room", !.tab = tab, !.view = ViewOf(row)])
         /\ PageTyped([[AwayPage EXCEPT !.at = "room", !.tab = tab, !.view = ViewOf(row)]
                         EXCEPT !.at = "game", !.view = NoView])
  <1>1. tab \in 1 .. MaxTabs
    BY RoomPageAssumption DEF Typed, PageTyped, PageRecords
  <1>2. /\ <<>> \in Seq(EventRecords) /\ DOMAIN <<>> = {} /\ NoView \in Views
        /\ 0 \in 0 .. MaxConns
    BY RoomPageAssumption DEF Views
  <1>3. ViewOf(row) \in RealViews /\ RealViews \subseteq Views
    <2>1. RowTyped(row, sits) /\ sits \in 0 .. MaxActs
      BY RoomPageAssumption DEF Typed
    <2>2. QED
      BY <2>1, ViewOfRow DEF Views, RealViews
  <1>4. PageTyped([AwayPage EXCEPT !.at = "room", !.tab = tab, !.view = ViewOf(row)])
    BY <1>1, <1>2, <1>3 DEF PageTyped, PageRecords, AwayPage
  <1>5. PageTyped([[AwayPage EXCEPT !.at = "room", !.tab = tab, !.view = ViewOf(row)]
                    EXCEPT !.at = "game", !.view = NoView])
    BY <1>1, <1>2 DEF PageTyped, PageRecords, AwayPage
  <1>6. QED
    BY <1>4, <1>5

LEMMA TypedStep == Typed /\ [Next]_vars => Typed'
  <1> SUFFICES ASSUME Typed, [Next]_vars PROVE Typed'
    OBVIOUS
  <1>. /\ me \in Users /\ sits \in Nat /\ acts \in Nat /\ sits <= acts /\ acts <= MaxActs
       /\ RowTyped(row, sits)
       /\ ConnTyped(conn) /\ presence \in 0 .. MaxConns /\ due \subseteq Conns
       /\ PageTyped(page) /\ sits \in 0 .. MaxActs
       /\ Other \in Users /\ MaxActs \in Nat
    <2>1. /\ me \in Users /\ sits \in Nat /\ acts \in Nat /\ sits <= acts /\ acts <= MaxActs
          /\ RowTyped(row, sits)
          /\ ConnTyped(conn) /\ presence \in 0 .. MaxConns /\ due \subseteq Conns
          /\ PageTyped(page) /\ MaxActs \in Nat
      BY RoomPageAssumption DEF Typed
    <2>2. QED
      BY <2>1, OtherIsOne
  <1>. page \in PageRecords
    BY DEF PageTyped
  <1>a. ViewOf(row) \in RealViews /\ RealViews \subseteq Views
    BY ViewOfRow DEF Views, RealViews
  <1>b. Acts => acts' = acts + 1 /\ acts' \in Nat /\ acts' <= MaxActs
    BY DEF Acts
  <1>c. ASSUME NEW p, PageTyped(p), Opens(p)
        PROVE  PageTyped(page') /\ ConnTyped(conn') /\ presence' \in 0 .. MaxConns /\ due' = due
    BY <1>c, OpensTyped
  <1>d. Plays => PageTyped(page') /\ ConnTyped(conn') /\ presence' \in 0 .. MaxConns /\ due' = due
    BY <1>c, AwayTyped DEF Plays
  \* A player's step that leaves the connections alone.
  <1>e. ASSUME NEW type \in FullTypes, NEW u \in Users, sits' \in 0 .. MaxActs,
               RowTyped(row', sits'), Publish(RoomEvent(type, u, row'))
        PROVE  PageTyped(page')
    <2>1. EventFits(RoomEvent(type, u, row'))
      BY <1>e, EventsFit
    <2>2. QED
      BY <1>e, <2>1, PublishTyped
  <1>f. ASSUME NEW u \in Users, Publish(Event("disconnected", u))
        PROVE  PageTyped(page')
    <2>1. EventFits(Event("disconnected", u))
      BY EventsFit DEF SmallTypes
    <2>2. QED
      BY <1>f, <2>1, PublishTyped
  <1>g. ASSUME NEW u \in Users, Publish(Event("room_closed", u))
        PROVE  PageTyped(page')
    <2>1. EventFits(Event("room_closed", u))
      BY EventsFit
    <2>2. QED
      BY <1>g, <2>1, PublishTyped
  <1>h. ASSUME NEW u \in Users, sits' = sits, row' = Without(row, u),
               Publish(Farewell(u, row'))
        PROVE  RowTyped(row', sits) /\ PageTyped(page')
    <2>1. RowTyped(row', sits)
      BY <1>h, RowStays
    <2>2. CASE u = Creator
      BY <1>g, <1>h, <2>1, <2>2 DEF Farewell
    <2>3. CASE u # Creator
      <3>1. "player_left" \in FullTypes
        BY DEF FullTypes
      <3>2. QED
        BY <1>e, <1>h, <2>1, <2>3, <3>1 DEF Farewell
    <2>4. QED
      BY <2>1, <2>2, <2>3
  <1>1. ASSUME Enter PROVE Typed'
    <2>1. PICK tab \in {page.tab, page.tab + 1} :
            LET p == [AwayPage EXCEPT !.at = "room", !.tab = tab, !.view = ViewOf(row)]
            IN  /\ tab <= MaxTabs
                /\ \/ row.status = "playing" /\ Opens([p EXCEPT !.at = "game", !.view = NoView])
                   \/ row.status # "playing" /\ Opens(p)
      BY <1>1 DEF Enter
    <2>2. /\ PageTyped([AwayPage EXCEPT !.at = "room", !.tab = tab, !.view = ViewOf(row)])
          /\ PageTyped([[AwayPage EXCEPT !.at = "room", !.tab = tab, !.view = ViewOf(row)]
                          EXCEPT !.at = "game", !.view = NoView])
      BY <2>1, EnterTyped
    <2>3. PageTyped(page') /\ ConnTyped(conn') /\ presence' \in 0 .. MaxConns /\ due' = due
      BY <1>c, <2>1, <2>2
    <2>4. QED
      BY <1>1, <2>3 DEF Enter, room, Typed
  <1>2. ASSUME Renew PROVE Typed'
    <2>1. PageTyped([page EXCEPT !.answer = ViewOf(row)])
      BY <1>a DEF PageTyped, PageRecords
    <2>2. Opens([page EXCEPT !.answer = ViewOf(row)])
      BY <1>2 DEF Renew
    <2>3. PageTyped(page') /\ ConnTyped(conn') /\ presence' \in 0 .. MaxConns /\ due' = due
      BY <1>c, <2>1, <2>2
    <2>4. QED
      BY <1>2, <1>b, <2>3 DEF Renew, room, Typed
  <1>3. ASSUME LoadAnswered PROVE Typed'
    <2>1. CASE Plays
      BY <1>3, <1>d, <2>1 DEF LoadAnswered, room, Typed
    <2>2. CASE ~Plays
      <3> DEFINE p == [page EXCEPT !.answer = NoView, !.view = page.answer,
                                   !.stale = Hears /\ (@ \/ page.answer # ViewOf(row))]
      <3>1. page' = p /\ UNCHANGED sockets
        BY <1>3, <2>2 DEF LoadAnswered
      <3>2. page.answer \in RealViews /\ page.answer \in Views /\ NoView \in Views
        BY <1>3 DEF LoadAnswered, PageRecords, Views, RealViews
      <3>3. (Hears /\ (page.stale \/ page.answer # ViewOf(row))) \in BOOLEAN
        BY DEF PageRecords, Hears
      <3>4. PageTyped(p)
        BY <3>2, <3>3 DEF PageTyped, PageRecords
      <3> HIDE DEF p
      <3>5. QED
        BY <1>3, <3>1, <3>4 DEF LoadAnswered, room, sockets, Typed
    <2>3. QED
      BY <2>1, <2>2
  <1>4. ASSUME Break PROVE Typed'
    <2>1. <<>> \in Seq(EventRecords) /\ DOMAIN <<>> = {} /\ 0 \in 0 .. MaxConns
      BY RoomPageAssumption
    <2>2. PageTyped([page EXCEPT !.conn = 0, !.inbox = <<>>, !.stale = FALSE])
      BY <2>1 DEF PageTyped, PageRecords
    <2>3. QED
      BY <1>4, <2>2 DEF Break, room, sockets, Typed
  <1>5. ASSUME GoAway PROVE Typed'
    BY <1>5, AwayTyped DEF GoAway, room, sockets, Typed
  <1>6. ASSUME NEW c \in Conns, MarkConnected(c) PROVE Typed'
    <2>0. c \in 0 .. MaxConns /\ "reconnected" \in FullTypes
      BY RoomPageAssumption DEF Conns, FullTypes
    <2>1. CASE /\ row' = Reconnected(row, c)
               /\ conn' = [conn EXCEPT ![c].step = "marked", ![c].read = ViewOf(row')]
               /\ Publish(RoomEvent("reconnected", me, row'))
      <3>1. RowTyped(row', sits) /\ sits' = sits
        BY <1>6, <2>0, <2>1, RowStays DEF MarkConnected
      <3>2. ViewOf(row') \in RealViews
        BY <3>1, ViewOfRow
      <3>3. ConnTyped(conn')
        BY <2>1, <3>2, StepTyped
      <3>4. PageTyped(page')
        BY <1>e, <2>0, <2>1, <3>1
      <3>5. QED
        BY <1>6, <3>1, <3>3, <3>4 DEF MarkConnected, Typed
    <2>2. CASE Step(c, "marked") /\ UNCHANGED <<row, page>>
      <3>1. ConnTyped(conn')
        BY <1>6, <2>2, StepTyped DEF MarkConnected, Step
      <3>2. QED
        BY <1>6, <2>2, <3>1 DEF MarkConnected, Typed
    <2>3. QED
      BY <1>6, <2>1, <2>2 DEF MarkConnected
  <1>7. ASSUME NEW c \in Conns, Subscribe(c) PROVE Typed'
    <2>1. ConnTyped(conn')
      BY <1>7, StepTyped DEF Subscribe
    <2>2. conn[c].read \in RealViews
      BY <1>7 DEF Subscribe, ConnTyped
    <2>3. PageTyped(page')
      <3> DEFINE e == [Event("room_state", me) EXCEPT !.view = conn[c].read]
                 s == conn[c].read # ViewOf(row)
                 p == [page EXCEPT !.inbox = <<e>>, !.stale = s]
      <3>1. "room_state" \in FullTypes
        BY DEF FullTypes
      <3>2. EventFits(e)
        BY <1>a, <2>2, <3>1 DEF EventFits, EventRecords, Event
      <3>3. s \in BOOLEAN
        OBVIOUS
      <3> HIDE DEF e, s
      <3>4. <<e>> \in Seq(EventRecords) /\ \A i \in DOMAIN <<e>> : <<e>>[i] = e
        BY <3>2 DEF EventFits
      <3>5. PageTyped(p)
        BY <3>2, <3>3, <3>4 DEF PageTyped, PageRecords
      <3>6. page' = p \/ page' = page
        BY <1>7 DEF Subscribe, e, s
      <3> HIDE DEF p
      <3>7. QED
        BY <3>5, <3>6
    <2>4. QED
      BY <1>7, <2>1, <2>3 DEF Subscribe, room, Typed
  <1>8. ASSUME NEW c \in Conns, Disconnected(c) PROVE Typed'
    <2>1. ConnTyped(conn')
      BY <1>8, StepTyped DEF Disconnected
    <2>2. presence' \in 0 .. MaxConns
      BY <1>8, RoomPageAssumption DEF Disconnected
    <2>3. CASE /\ row' = [row EXCEPT !.gone = @ \cup {me}] /\ due' = Schedules(c)
               /\ Publish(Event("disconnected", me))
      <3>1. RowTyped(row', sits)
        BY <2>3, RowStays
      <3>2. due' \subseteq Conns
        BY <2>3 DEF Schedules
      <3>3. PageTyped(page')
        BY <1>f, <2>3
      <3>4. QED
        BY <1>8, <2>1, <2>2, <3>1, <3>2, <3>3 DEF Disconnected, Typed
    <2>4. CASE UNCHANGED <<row, due, page>>
      BY <1>8, <2>1, <2>2, <2>4 DEF Disconnected, Typed
    <2>5. QED
      BY <1>8, <2>3, <2>4 DEF Disconnected
  <1>9. ASSUME NEW c \in Conns, PutOut(c) PROVE Typed'
    <2>1. due' \subseteq Conns
      BY <1>9 DEF PutOut
    <2>2. CASE row' = Without(row, me) /\ Publish(Farewell(me, row'))
      <3>1. sits' = sits
        BY <1>9 DEF PutOut
      <3>2. RowTyped(row', sits) /\ PageTyped(page')
        BY <1>h, <2>2, <3>1
      <3>3. QED
        BY <1>9, <2>1, <3>2 DEF PutOut, Typed
    <2>3. CASE UNCHANGED <<row, page>>
      BY <1>9, <2>1, <2>3 DEF PutOut, Typed
    <2>4. QED
      BY <1>9, <2>2, <2>3 DEF PutOut
  <1>10. ASSUME OtherReconnects, Acts PROVE Typed'
    <2>1. RowTyped(row', sits) /\ sits' = sits
      BY <1>10, RowStays DEF OtherReconnects
    <2>2. PageTyped(page')
      BY <1>e, <1>10, <2>1 DEF OtherReconnects, Publishes, FullTypes
    <2>3. QED
      BY <1>b, <1>10, <2>1, <2>2 DEF OtherReconnects, Publishes, sockets, Typed
  <1>11. ASSUME OtherDisconnects, Acts PROVE Typed'
    <2>1. RowTyped(row', sits)
      BY <1>11, RowStays DEF OtherDisconnects
    <2>2. PageTyped(page')
      BY <1>f, <1>11 DEF OtherDisconnects, Publishes
    <2>3. QED
      BY <1>b, <1>11, <2>1, <2>2 DEF OtherDisconnects, Publishes, sockets, Typed
  <1>12. ASSUME OtherIsReady, Acts PROVE Typed'
    <2>1. PICK on \in BOOLEAN : Publishes(ReadyEvent(Other, on))
      BY <1>12 DEF OtherIsReady
    <2>2. EventFits(ReadyEvent(Other, on))
      BY EventsFit
    <2>3. PageTyped(page')
      BY <2>1, <2>2, PublishTyped DEF Publishes
    <2>4. QED
      BY <1>b, <1>12, <2>1, <2>3 DEF OtherIsReady, Publishes, sockets, Typed
  <1>j. ASSUME sits' = sits + 1, NEW c \in 0 .. MaxConns, Acts
        PROVE  /\ sits' \in 0 .. MaxActs /\ sits' <= acts'
               /\ RowTyped(Sits(row), sits') /\ RowTyped(Reconnected(Sits(row), c), sits')
              
    <2>1. sits' \in Nat /\ sits' \in 0 .. MaxActs /\ sits' <= acts'
      BY <1>j DEF Acts
    <2>2. RowTyped(Sits(row), sits')
      BY <2>1 DEF RowTyped, Sits
    <2>3. QED
      BY <2>1, <2>2, RowStays
  <1>13. ASSUME OtherJoins, Acts PROVE Typed'
    <2>1. /\ sits' \in 0 .. MaxActs /\ sits' <= acts' /\ RowTyped(row', sits')
         
      BY <1>13, <1>j DEF OtherJoins
    <2>2. PageTyped(page')
      BY <1>e, <1>13, <2>1 DEF OtherJoins, Publishes, FullTypes
    <2>3. QED
      BY <1>b, <1>13, <2>1, <2>2 DEF OtherJoins, Publishes, sockets, Typed
  <1>14. ASSUME NEW u \in Users, Starts(u), UNCHANGED acts PROVE Typed'
    <2>1. RowTyped(row', sits) /\ sits' = sits
      BY <1>14, RowStays DEF Starts
    <2>2. PageTyped(page')
      BY <1>e, <1>14, <2>1 DEF Starts, Publishes, FullTypes
    <2>3. QED
      BY <1>14, <2>1, <2>2 DEF Starts, Publishes, sockets, Typed
  <1>15. ASSUME OtherLeaves, UNCHANGED acts PROVE Typed'
    <2>1. RowTyped(row', sits) /\ PageTyped(page')
      BY <1>h, <1>15 DEF OtherLeaves, Publishes
    <2>2. QED
      BY <1>15, <2>1 DEF OtherLeaves, Publishes, sockets, Typed
  <1>16. ASSUME Join PROVE Typed'
    <2>1. ASSUME NEW c \in Conns
          PROVE  ConnTyped([conn EXCEPT ![c].plays = TRUE]) /\ c \in 0 .. MaxConns
      <3>1. ConnTyped([conn EXCEPT ![c].plays = TRUE])
        BY StepTyped
      <3>2. c \in 0 .. MaxConns
        BY RoomPageAssumption DEF Conns
      <3>3. QED
        BY <3>1, <3>2
    <2>2. ConnTyped(conn')
      BY <1>16, <2>1 DEF Join
    <2>3. /\ sits' \in 0 .. MaxActs /\ sits' <= acts' /\ RowTyped(row', sits')
         
      <3>1. 0 \in 0 .. MaxConns
        BY RoomPageAssumption
      <3>2. QED
        BY <1>16, <1>j, <2>1, <3>1 DEF Join
    <2>4. QED
      BY <1>b, <1>16, <2>2, <2>3 DEF Join, Typed
  <1>17. ASSUME Finish PROVE Typed'
    <2>1. RowTyped(row', sits) /\ sits' = sits
      BY <1>17, RowStays DEF Finish
    <2>2. PageTyped(page')
      BY <1>e, <1>17, <2>1 DEF Finish, Publishes, FullTypes, Users
    <2>3. QED
      BY <1>17, <2>1, <2>2 DEF Finish, Publishes, sockets, Typed
  <1>18. ASSUME Replays PROVE Typed'
    <2>1. RowTyped(row', sits) /\ sits' = sits
      BY <1>18, RowStays DEF Replays
    <2>2. PageTyped(page')
      BY <1>e, <1>18, <2>1 DEF Replays, Publishes, FullTypes, Users
    <2>3. QED
      BY <1>b, <1>18, <2>1, <2>2 DEF Replays, Publishes, sockets, Typed
  <1>19. ASSUME Deliver PROVE Typed'
    <2> DEFINE t == [page EXCEPT !.inbox = Tail(@)]
               p == OnMessage(t, Head(page.inbox))
    <2>1. /\ Hears /\ page.inbox # <<>>
          /\ \/ Plays
             \/ page' = Away(p) /\ UNCHANGED sockets
             \/ page' = p /\ UNCHANGED sockets
      BY <1>19 DEF Deliver
    <2>2. EventFits(Head(page.inbox)) /\ PageTyped(t) /\ t.at = "room"
      BY <2>1, TailTyped DEF Hears
    <2>3. PageTyped(p)
      BY <2>2, OnMessageTyped
    <2>4. PageTyped(Away(p))
      BY <2>3, AwayTyped
    <2> HIDE DEF p
    <2>5. PageTyped(page') /\ ConnTyped(conn') /\ presence' \in 0 .. MaxConns /\ due' = due
      BY <1>d, <2>1, <2>3, <2>4 DEF sockets
    <2>6. QED
      BY <1>19, <2>5 DEF Deliver, room, Typed
  <1>20. ASSUME ToggleReady PROVE Typed'
    <2> DEFINE on == me \notin page.ready
               p  == [page EXCEPT !.ready = IF on THEN @ \cup {me} ELSE @ \ {me}]
    <2>1. /\ PublishFor(p, ReadyEvent(me, on)) \/ page' = p
          /\ UNCHANGED <<me, row, sits, matches, sockets>> /\ Acts
      BY <1>20 DEF ToggleReady
    <2>2. PageTyped(p)
      BY DEF PageTyped, PageRecords
    <2>3. on \in BOOLEAN
      OBVIOUS
    <2> HIDE DEF on, p
    <2>4. EventFits(ReadyEvent(me, on))
      BY <2>3, EventsFit
    <2>5. PageTyped(page')
      BY <2>1, <2>2, <2>4, GetsTyped DEF PublishFor
    <2>6. QED
      BY <1>b, <2>1, <2>5 DEF sockets, Typed
  <1>21. ASSUME StartMatch PROVE Typed'
    BY <1>14, <1>21 DEF StartMatch
  <1>22. ASSUME LeaveRoom PROVE Typed'
    <2>1. RowTyped(row', sits)
      <3>1. row' = Without(row, me) \/ row' = row
        BY <1>22 DEF LeaveRoom
      <3>2. RowTyped(Without(row, me), sits)
        BY RowStays
      <3>3. QED
        BY <3>1, <3>2
    <2>2. QED
      BY <1>22, <2>1, AwayTyped DEF LeaveRoom, sockets, Typed
  <1>23. ASSUME CloseRoom PROVE Typed'
    <2>1. RowTyped(row', sits)
      BY <1>23, RowStays DEF CloseRoom
    <2>2. PageTyped(page')
      BY <1>g, <1>23 DEF CloseRoom, Publishes
    <2>3. QED
      BY <1>23, <2>1, <2>2 DEF CloseRoom, Publishes, sockets, Typed
  <1>24. ASSUME Expires \/ SweepCloses PROVE Typed'
    <2>1. RowTyped(row', sits) /\ UNCHANGED <<me, sits, conn, presence, due, acts>>
      BY <1>24, RowStays DEF Expires, SweepCloses, Lives, sockets
    <2>2. PageTyped([page EXCEPT !.stale = TRUE])
      BY DEF PageTyped, PageRecords
    <2>3. PageTyped(page')
      BY <1>24, <2>2 DEF Expires, SweepCloses, Untold
    <2>4. QED
      BY <2>1, <2>3 DEF Typed
  <1>25. ASSUME SweepReleases PROVE Typed'
    <2>1. /\ RowTyped(row', sits) /\ UNCHANGED <<me, sits, conn, presence, due, acts>>
          /\ Publish(RoomEvent("player_left", Opponent, row'))
      <3>1. RowTyped(Vacated(row), sits)
        BY RowStays, RoomPageAssumption DEF Without
      <3>2. QED
        BY <1>25, <3>1 DEF SweepReleases, Lives, sockets
    <2>2. PageTyped(page')
      BY <1>e, <2>1 DEF FullTypes, Users
    <2>3. QED
      BY <2>1, <2>2 DEF Typed
  <1>26. ASSUME UNCHANGED vars PROVE Typed'
    BY <1>26 DEF vars, room, sockets, Typed
  <1>27. QED
    BY <1>1, <1>2, <1>3, <1>4, <1>5, <1>6, <1>7, <1>8, <1>9, <1>10, <1>11, <1>12, <1>13, <1>14,
       <1>15, <1>16, <1>17, <1>18, <1>19, <1>20, <1>21, <1>22, <1>23, <1>24, <1>25, <1>26
       DEF Next, Serves, OtherActs

-----------------------------------------------------------------------------
(***************************************************************************)
(* Connections.                                                            *)
(***************************************************************************)
\* What the publication of an event leaves of the page as it is.
LEMMA GetsKeeps ==
  ASSUME NEW p, PageTyped(p), NEW e, NEW g \in Gets(p, e)
  PROVE  g.at = p.at /\ g.conn = p.conn /\ g.view = p.view
  <1>1. p \in PageRecords
    BY DEF PageTyped
  <1>2. QED
    BY <1>1 DEF Gets, PageRecords

\* What a message leaves of it.
LEMMA OnMessageKeeps ==
  ASSUME NEW p, PageTyped(p), NEW e, EventFits(e)
  PROVE  /\ OnMessage(p, e).conn = p.conn /\ OnMessage(p, e).inbox = p.inbox
         /\ OnMessage(p, e).stale = p.stale
  <1>1. p \in PageRecords /\ e.type \in FullTypes \cup SmallTypes \cup {"room_closed"}
    BY DEF PageTyped, EventFits, EventRecords
  <1>2. CASE e.type \in FullTypes
    BY <1>1, <1>2 DEF OnMessage, OnReconnected, OnPlayerLeft, Shows, FullTypes, PageRecords
  <1>3. CASE e.type \in SmallTypes
    BY <1>1, <1>3 DEF OnMessage, OnDisconnected, SmallTypes, PageRecords
  <1>4. CASE e.type = "room_closed"
    BY <1>1, <1>4 DEF OnMessage, PageRecords
  <1>5. QED
    BY <1>1, <1>2, <1>3, <1>4

\* The page keeps its connection or drops it, the other player acts or nobody.
LEMMA ConnQuiet ==
  ASSUME ConnInv, UNCHANGED <<me, conn>>, due' \subseteq due,
         page'.conn \in {0, page.conn},
         me \in row'.gone => me \in row.gone /\ row'.conn = row.conn
  PROVE  ConnInv'
  BY DEF ConnInv, Ended

LEMMA ConnOpens ==
  ASSUME Typed, ConnInv, NEW p, PageTyped(p), Opens(p), UNCHANGED <<me, row>>
  PROVE  ConnInv'
  <1>1. ConnTyped(conn) /\ due \subseteq Conns /\ RowTyped(row, sits) /\ due' = due
    BY DEF Typed, Opens
  <1>2. p \in PageRecords
    BY DEF PageTyped
  <1>3. ASSUME NEW c \in Conns, IsFresh(c), page'.conn = c,
               \A d \in Conns : d # c => conn'[d] = conn[d],
               conn'[c].step \in {"registered", "refused"}
        PROVE  ConnInv'
    <2>1. conn[c].step = "free"
      BY <1>3 DEF IsFresh
    <2>2. \A d \in Conns : Ended(d) => d # c /\ conn'[d] = conn[d]
      BY <1>3, <2>1 DEF Ended
    <2>4. me' \in row'.gone => row'.conn # 0 /\ row'.conn \in Conns /\ Ended(row.conn)
      BY <1>1, RoomPageAssumption DEF ConnInv, RowTyped, Conns
    <2>5. \A d \in due' : conn'[d].step = "gone"
      BY <1>1, <2>2 DEF ConnInv, Ended
    <2>6. QED
      BY <1>3, <2>2, <2>4, <2>5 DEF ConnInv, Ended
  <1>4. CASE page' = [p EXCEPT !.conn = 0, !.inbox = <<>>, !.stale = FALSE] /\ UNCHANGED conn
    <2>1. page'.conn = 0
      BY <1>2, <1>4 DEF PageRecords
    <2>2. QED
      BY <1>1, <1>4, <2>1, ConnQuiet
  <1>5. ASSUME NEW c \in Conns, IsFresh(c), page' = [p EXCEPT !.conn = c, !.inbox = <<>>, !.stale = FALSE],
               conn' = [conn EXCEPT ![c].step = "refused"]
        PROVE  ConnInv'
    <2>1. page'.conn = c
      BY <1>2, <1>5 DEF PageRecords
    <2>2. /\ \A d \in Conns : d # c => conn'[d] = conn[d]
          /\ conn'[c].step = "refused"
      BY <1>1, <1>5 DEF ConnTyped, ConnRecords
    <2>3. QED
      BY <1>3, <1>5, <2>1, <2>2
  <1>6. ASSUME NEW c \in Conns, IsFresh(c), page' = [p EXCEPT !.conn = c, !.inbox = <<>>, !.stale = FALSE],
               conn' = [conn EXCEPT ![c] = [tab |-> p.tab, step |-> "registered",
                                            plays |-> Seated(row, me), read |-> ViewOf(row)]]
        PROVE  ConnInv'
    <2>1. page'.conn = c
      BY <1>2, <1>6 DEF PageRecords
    <2>2. /\ \A d \in Conns : d # c => conn'[d] = conn[d]
          /\ conn'[c].step = "registered"
      BY <1>1, <1>6 DEF ConnTyped
    <2>3. QED
      BY <1>3, <1>6, <2>1, <2>2
  <1>7. QED
    BY <1>4, <1>5, <1>6 DEF Opens

LEMMA ConnInit == Init => ConnInv
  BY DEF Init, ConnInv, AwayPage, Ended

LEMMA ConnStep == Typed /\ ConnInv /\ [Next]_vars => ConnInv'
  <1> SUFFICES ASSUME Typed, ConnInv, [Next]_vars PROVE ConnInv'
    OBVIOUS
  <1>. /\ me \in Users /\ RowTyped(row, sits) /\ ConnTyped(conn) /\ due \subseteq Conns
       /\ PageTyped(page) /\ page \in PageRecords
       /\ Other \in Users /\ Other # me
    BY OtherIsOne DEF Typed, PageTyped
  <1>. row \in [status : Statuses, seat : Nat, gone : SUBSET Users, conn : 0 .. MaxConns]
    BY DEF RowTyped
  <1>a. ASSUME NEW e, Publish(e) PROVE page'.conn = page.conn
    BY <1>a, GetsKeeps DEF Publish, PublishFor
  <1>b. Away(page).conn = 0 /\ \A p : Away(p).conn = 0
    BY DEF Away, AwayPage
  <1>c. ASSUME NEW u \in Users, row' = Without(row, u)
        PROVE  me \in row'.gone => me \in row.gone /\ row'.conn = row.conn
    <2>1. CASE u = Creator
      BY <1>c, <2>1 DEF Without, Closed
    <2>2. CASE u # Creator
      BY <1>c, <2>2 DEF Without, Vacated
    <2>3. QED
      BY <2>1, <2>2
  <1>d. ASSUME Plays, UNCHANGED <<me, row>> PROVE ConnInv'
    BY <1>d, AwayTyped, ConnOpens DEF Plays
  \* A connection c takes a step, and the page keeps its own.
  <1>e. ASSUME NEW c \in Conns, conn[c].step \notin {"free", "gone"}, NEW x,
               x.step \notin {"free", "gone"}, conn' = [conn EXCEPT ![c] = x],
               page'.conn = page.conn, UNCHANGED <<me, due>>,
               me \in row'.gone => me \in row.gone /\ row'.conn = row.conn
        PROVE  ConnInv'
    <2>1. \A d \in Conns : /\ conn'[d].step = "gone" <=> conn[d].step = "gone"
                           /\ conn'[d].step = "free" <=> conn[d].step = "free"
      BY <1>e DEF ConnTyped
    <2>2. \A d \in 0 .. MaxConns : d # 0 => d \in Conns
      BY RoomPageAssumption DEF Conns
    <2>3. page.conn \in 0 .. MaxConns
      BY DEF PageRecords
    <2>4. QED
      BY <1>e, <2>1, <2>2, <2>3 DEF ConnInv, Ended
  <1>1. ASSUME Enter PROVE ConnInv'
    <2>1. PICK tab \in {page.tab, page.tab + 1} :
            LET p == [AwayPage EXCEPT !.at = "room", !.tab = tab, !.view = ViewOf(row)]
            IN  /\ tab <= MaxTabs
                /\ \/ row.status = "playing" /\ Opens([p EXCEPT !.at = "game", !.view = NoView])
                   \/ row.status # "playing" /\ Opens(p)
      BY <1>1 DEF Enter
    <2>2. /\ PageTyped([AwayPage EXCEPT !.at = "room", !.tab = tab, !.view = ViewOf(row)])
          /\ PageTyped([[AwayPage EXCEPT !.at = "room", !.tab = tab, !.view = ViewOf(row)]
                          EXCEPT !.at = "game", !.view = NoView])
      BY <2>1, EnterTyped
    <2>3. UNCHANGED <<me, row>>
      BY <1>1 DEF Enter, room
    <2>4. QED
      BY <2>1, <2>2, <2>3, ConnOpens
  <1>2. ASSUME Renew PROVE ConnInv'
    <2>1. ViewOf(row) \in Views
      <3>1. sits \in 0 .. MaxActs
        BY RoomPageAssumption DEF Typed
      <3>2. QED
        BY <3>1, ViewOfRow DEF Views, RealViews
    <2>2. PageTyped([page EXCEPT !.answer = ViewOf(row)])
      BY <2>1 DEF PageTyped, PageRecords
    <2>3. QED
      BY <1>2, <2>2, ConnOpens DEF Renew, room
  <1>3. ASSUME LoadAnswered PROVE ConnInv'
    <2>1. UNCHANGED <<me, row>>
      BY <1>3 DEF LoadAnswered, room
    <2>2. CASE Plays
      BY <1>d, <2>1, <2>2
    <2>3. CASE ~Plays
      <3>1. page'.conn = page.conn /\ UNCHANGED <<conn, due>>
        BY <1>3, <2>3 DEF LoadAnswered, sockets, PageRecords
      <3>2. QED
        BY <2>1, <3>1, ConnQuiet
    <2>4. QED
      BY <2>2, <2>3
  <1>4. ASSUME Break PROVE ConnInv'
    <2>1. page'.conn = 0 /\ UNCHANGED <<me, row, conn, due>>
      BY <1>4 DEF Break, room, sockets, PageRecords
    <2>2. QED
      BY <2>1, ConnQuiet
  <1>5. ASSUME GoAway PROVE ConnInv'
    <2>1. page'.conn = 0 /\ UNCHANGED <<me, row, conn, due>>
      BY <1>5, <1>b DEF GoAway, room, sockets
    <2>2. QED
      BY <2>1, ConnQuiet
  <1>6. ASSUME NEW c \in Conns, MarkConnected(c) PROVE ConnInv'
    <2>1. conn[c] \in ConnRecords /\ conn[c].step = "registered" /\ UNCHANGED <<me, due>>
      BY <1>6 DEF MarkConnected, ConnTyped
    <2>2. CASE /\ row' = Reconnected(row, c)
               /\ conn' = [conn EXCEPT ![c].step = "marked", ![c].read = ViewOf(row')]
               /\ Publish(RoomEvent("reconnected", me, row'))
      <3> DEFINE x == [conn[c] EXCEPT !.step = "marked", !.read = ViewOf(row')]
      <3>1. conn' = [conn EXCEPT ![c] = x]
        BY <2>2 DEF ConnTyped
      <3>2. x.step = "marked"
        BY <2>1 DEF ConnRecords
      <3>3. me \notin row'.gone
        BY <2>2 DEF Reconnected
      <3>4. page'.conn = page.conn
        BY <1>a, <2>2
      <3> HIDE DEF x
      <3>5. QED
        BY <1>e, <2>1, <3>1, <3>2, <3>3, <3>4
    <2>3. CASE Step(c, "marked") /\ UNCHANGED <<row, page>>
      <3> DEFINE x == [conn[c] EXCEPT !.step = "marked"]
      <3>1. conn' = [conn EXCEPT ![c] = x]
        BY <2>3 DEF Step
      <3>2. x.step = "marked"
        BY <2>1 DEF ConnRecords
      <3> HIDE DEF x
      <3>3. QED
        BY <1>e, <2>1, <2>3, <3>1, <3>2
    <2>4. QED
      BY <1>6, <2>2, <2>3 DEF MarkConnected
  <1>7. ASSUME NEW c \in Conns, Subscribe(c) PROVE ConnInv'
    <2> DEFINE x == [conn[c] EXCEPT !.step = "open", !.read = NoView]
    <2>1. /\ conn[c] \in ConnRecords /\ conn[c].step = "marked"
          /\ conn' = [conn EXCEPT ![c].step = "open", ![c].read = NoView]
          /\ UNCHANGED <<me, row, due>>
      BY <1>7 DEF Subscribe, ConnTyped, room
    <2>2. conn' = [conn EXCEPT ![c] = x]
      BY <2>1 DEF ConnTyped
    <2>3. x.step = "open"
      BY <2>1 DEF ConnRecords
    <2>4. page'.conn = page.conn
      BY <1>7 DEF Subscribe, PageRecords
    <2> HIDE DEF x
    <2>5. QED
      BY <1>e, <2>1, <2>2, <2>3, <2>4
  <1>8. ASSUME NEW c \in Conns, Disconnected(c) PROVE ConnInv'
    <2> DEFINE x == [NoConn EXCEPT !.step = "gone"]
    <2>1. /\ page.conn # c /\ me' = me
          /\ conn' = [conn EXCEPT ![c] = x] /\ x.step = "gone"
      BY <1>8 DEF Disconnected, NoConn
    <2>2. /\ \A d \in Conns : d # c => conn'[d] = conn[d]
          /\ conn'[c].step = "gone"
      BY <2>1 DEF ConnTyped
    <2> HIDE DEF x
    <2>3. \A d \in Conns : Ended(d) => conn'[d].step = "gone"
      BY <2>2 DEF Ended
    <2>4. page'.conn = page.conn
      BY <1>8, <1>a DEF Disconnected
    <2>5. \A d \in due' : conn'[d].step = "gone"
      BY <1>8, <2>2, <2>3 DEF Disconnected, Schedules, ConnInv
    <2>6. page.conn # 0 => page.conn \in Conns
      BY RoomPageAssumption DEF PageRecords, Conns
    <2>7. page'.conn # 0 => conn'[page'.conn].step \notin {"free", "gone"}
      BY <2>1, <2>2, <2>4, <2>6 DEF ConnInv, Ended
    <2>8. me \in row'.gone => row'.conn # 0 /\ conn'[row'.conn].step = "gone"
      <3>1. CASE Marks(c) /\ row' = [row EXCEPT !.gone = @ \cup {me}]
        <4>1. row'.conn = c /\ c # 0
          BY <3>1, RoomPageAssumption DEF Marks, Conns
        <4>2. QED
          BY <4>1, <2>2
      <3>2. CASE row' = row
        <4>1. row.conn # 0 => row.conn \in Conns
          BY RoomPageAssumption DEF Conns
        <4>2. QED
          BY <2>3, <3>2, <4>1 DEF ConnInv
      <3>3. QED
        BY <1>8, <3>1, <3>2 DEF Disconnected
    <2>9. QED
      BY <2>1, <2>5, <2>7, <2>8 DEF ConnInv, Ended
  <1>9. ASSUME NEW c \in Conns, PutOut(c) PROVE ConnInv'
    <2>1. page'.conn = page.conn /\ due' \subseteq due /\ UNCHANGED <<me, conn>>
      BY <1>9, <1>a DEF PutOut
    <2>2. me \in row'.gone => me \in row.gone /\ row'.conn = row.conn
      BY <1>9, <1>c DEF PutOut
    <2>3. QED
      BY <2>1, <2>2, ConnQuiet
  \* What the other player does.
  <1>f. ASSUME NEW e, Publishes(e),
               me \in row'.gone => me \in row.gone /\ row'.conn = row.conn
        PROVE  ConnInv'
    <2>1. page'.conn = page.conn /\ UNCHANGED <<me, conn, due>>
      BY <1>a, <1>f DEF Publishes, sockets
    <2>2. QED
      BY <1>f, <2>1, ConnQuiet
  <1>10. ASSUME OtherReconnects PROVE ConnInv'
    <2>1. me \in row'.gone => me \in row.gone /\ row'.conn = row.conn
      BY <1>10 DEF OtherReconnects
    <2>2. QED
      BY <1>f, <1>10, <2>1 DEF OtherReconnects
  <1>11. ASSUME OtherDisconnects PROVE ConnInv'
    <2>1. me \in row'.gone => me \in row.gone /\ row'.conn = row.conn
      BY <1>11 DEF OtherDisconnects
    <2>2. QED
      BY <1>f, <1>11, <2>1 DEF OtherDisconnects
  <1>12. ASSUME OtherIsReady PROVE ConnInv'
    BY <1>f, <1>12 DEF OtherIsReady
  <1>13. ASSUME OtherJoins PROVE ConnInv'
    <2>1. me \in row'.gone => me \in row.gone /\ row'.conn = row.conn
      BY <1>13 DEF OtherJoins, Sits
    <2>2. QED
      BY <1>f, <1>13, <2>1 DEF OtherJoins
  <1>14. ASSUME NEW u, Starts(u) PROVE ConnInv'
    <2>1. me \in row'.gone => me \in row.gone /\ row'.conn = row.conn
      BY <1>14 DEF Starts, Started
    <2>2. QED
      BY <1>f, <1>14, <2>1 DEF Starts
  <1>15. ASSUME OtherLeaves PROVE ConnInv'
    BY <1>c, <1>f, <1>15 DEF OtherLeaves
  <1>16. ASSUME Join PROVE ConnInv'
    <2>1. UNCHANGED <<me, due, page>>
      BY <1>16 DEF Join
    <2>2. ASSUME NEW c \in Conns, row' = Reconnected(Sits(row), c),
                 conn' = [conn EXCEPT ![c].plays = TRUE]
          PROVE  ConnInv'
      <3>1. me \notin row'.gone
        BY <2>2 DEF Reconnected, Sits
      <3>2. \A d \in Conns : conn'[d].step = conn[d].step
        BY <2>2 DEF ConnTyped, ConnRecords
      <3>3. page.conn # 0 => page.conn \in Conns
        BY RoomPageAssumption DEF PageRecords, Conns
      <3>4. QED
        BY <2>1, <3>1, <3>2, <3>3 DEF ConnInv, Ended
    <2>3. CASE row' = Sits(row) /\ UNCHANGED conn
      <3>1. me \in row'.gone => me \in row.gone /\ row'.conn = row.conn
        BY <2>3 DEF Sits
      <3>2. QED
        BY <2>1, <2>3, <3>1, ConnQuiet
    <2>4. QED
      BY <1>16, <2>2, <2>3 DEF Join
  <1>17. ASSUME Finish PROVE ConnInv'
    <2>1. me \in row'.gone => me \in row.gone /\ row'.conn = row.conn
      BY <1>17 DEF Finish
    <2>2. QED
      BY <1>f, <1>17, <2>1 DEF Finish
  <1>18. ASSUME Replays PROVE ConnInv'
    <2>1. me \notin row'.gone
      BY <1>18 DEF Replays, Started
    <2>2. QED
      BY <1>f, <1>18, <2>1 DEF Replays
  <1>19. ASSUME Deliver PROVE ConnInv'
    <2> DEFINE t == [page EXCEPT !.inbox = Tail(@)]
               p == OnMessage(t, Head(page.inbox))
    <2>1. /\ Hears /\ page.inbox # <<>> /\ UNCHANGED <<me, row>>
          /\ \/ Plays
             \/ page' = Away(p) /\ UNCHANGED sockets
             \/ page' = p /\ UNCHANGED sockets
      BY <1>19 DEF Deliver, room
    <2>2. EventFits(Head(page.inbox)) /\ PageTyped(t) /\ t.conn = page.conn
      BY <2>1, TailTyped DEF PageRecords
    <2>3. p.conn = page.conn
      BY <2>2, OnMessageKeeps
    <2> HIDE DEF p
    <2>4. CASE Plays
      BY <1>d, <2>1, <2>4
    <2>5. CASE ~Plays
      <3>1. page'.conn \in {0, page.conn} /\ UNCHANGED <<conn, due>>
        BY <1>b, <2>1, <2>3, <2>5 DEF sockets
      <3>2. QED
        BY <2>1, <3>1, ConnQuiet
    <2>6. QED
      BY <2>4, <2>5
  <1>20. ASSUME ToggleReady PROVE ConnInv'
    <2> DEFINE on == me \notin page.ready
               p  == [page EXCEPT !.ready = IF on THEN @ \cup {me} ELSE @ \ {me}]
    <2>1. /\ page' \in Gets(p, ReadyEvent(me, on)) \/ page' = p
          /\ UNCHANGED <<me, row, conn, due>>
      BY <1>20 DEF ToggleReady, PublishFor, sockets
    <2>2. PageTyped(p) /\ p.conn = page.conn
      BY DEF PageTyped, PageRecords
    <2> HIDE DEF on, p
    <2>3. page'.conn = page.conn
      BY <2>1, <2>2, GetsKeeps
    <2>4. QED
      BY <2>1, <2>3, ConnQuiet
  <1>21. ASSUME StartMatch PROVE ConnInv'
    BY <1>14, <1>21 DEF StartMatch
  <1>22. ASSUME LeaveRoom PROVE ConnInv'
    <2>1. page'.conn = 0 /\ UNCHANGED <<me, conn, due>>
      BY <1>b, <1>22 DEF LeaveRoom, sockets
    <2>2. row' = Without(row, me) \/ row' = row
      BY <1>22 DEF LeaveRoom
    <2>3. me \in row'.gone => me \in row.gone /\ row'.conn = row.conn
      BY <1>c, <2>2
    <2>4. QED
      BY <2>1, <2>3, ConnQuiet
  <1>23. ASSUME CloseRoom PROVE ConnInv'
    <2>1. me \notin row'.gone
      BY <1>23 DEF CloseRoom, Closed
    <2>2. QED
      BY <1>f, <1>23, <2>1 DEF CloseRoom
  <1>24. ASSUME Expires \/ SweepCloses PROVE ConnInv'
    <2>1. page'.conn = page.conn /\ UNCHANGED <<me, conn, due>>
      BY <1>24 DEF Expires, SweepCloses, Lives, Untold, sockets, PageRecords
    <2>2. me \in row'.gone => me \in row.gone /\ row'.conn = row.conn
      BY <1>24 DEF Expires, SweepCloses, Closed
    <2>3. QED
      BY <2>1, <2>2, ConnQuiet
  <1>25. ASSUME SweepReleases PROVE ConnInv'
    <2>1. page'.conn = page.conn /\ UNCHANGED <<me, conn, due>>
      BY <1>25, <1>a DEF SweepReleases, Lives, sockets
    <2>2. me \in row'.gone => me \in row.gone /\ row'.conn = row.conn
      BY <1>25 DEF SweepReleases, Vacated
    <2>3. QED
      BY <2>1, <2>2, ConnQuiet
  <1>26. ASSUME UNCHANGED vars PROVE ConnInv'
    <2>1. UNCHANGED <<me, conn, due, page, row>>
      BY <1>26 DEF vars, room, sockets
    <2>2. QED
      BY <2>1, ConnQuiet
  <1>27. QED
    BY <1>1, <1>2, <1>3, <1>4, <1>5, <1>6, <1>7, <1>8, <1>9, <1>10, <1>11, <1>12, <1>13, <1>14,
       <1>15, <1>16, <1>17, <1>18, <1>19, <1>20, <1>21, <1>22, <1>23, <1>24, <1>25, <1>26
       DEF Next, Serves, OtherActs

-----------------------------------------------------------------------------
(***************************************************************************)
(* What the page shows.                                                    *)
(***************************************************************************)
\* A page that hears after the event heard before.
LEMMA HeardBefore ==
  ASSUME Typed, page'.at = page.at, page'.conn = page.conn, Hears',
         \A d \in Conns : conn'[d].step = "open" => conn[d].step = "open"
  PROVE  Hears
  <1>1. page.conn # 0 => page.conn \in Conns
    BY RoomPageAssumption DEF Typed, PageTyped, PageRecords, Conns
  <1>2. QED
    BY <1>1 DEF Hears, IsOpen

\* The event e tells of the change of the row.
Tells(e, v, w) ==
    \/ e.type \in FullTypes /\ e.view = w
    \/ e.type = "disconnected" /\ w = Gone(v, e.user)
    \/ e.type = "player_ready" /\ w = v
    \/ e.type = "room_closed"

\* A published event that tells of the change is one more under way, on a page
\* that is otherwise as before; or it is dropped, and the page is stale.
LEMMA ViewToldTo ==
  ASSUME Typed, ViewInv, NEW e, EventFits(e), Hears' => Hears,
         NEW p, PageTyped(p), p.at = page.at, p.conn = page.conn, p.view = page.view,
         p.stale = page.stale, p.inbox = page.inbox,
         page' \in Gets(p, e), Tells(e, ViewOf(row), ViewOf(row'))
  PROVE  ViewInv'
  <1> SUFFICES ASSUME Hears', ~page'.stale
               PROVE  IsClosing(page'.inbox) \/ Leads(page'.view, page'.inbox, ViewOf(row'))
    BY DEF ViewInv
  <1> DEFINE q == page.inbox
             v == page.view
             w == ViewOf(row)
  <1>1. p \in PageRecords /\ e \in EventRecords /\ page \in PageRecords
    BY DEF Typed, PageTyped, EventFits
  <1>2. p.at = "room" /\ IsOpen(p)
    BY DEF Hears, IsOpen
  <1>3. \/ page' = [p EXCEPT !.inbox = @ \o <<e>>, !.stale = @ /\ e.view = NoView]
        \/ page' = [p EXCEPT !.stale = TRUE]
    BY <1>2 DEF Gets
  <1>4. page'.inbox = q \o <<e>> /\ page'.view = v /\ (page.stale => e.view # NoView)
    BY <1>1, <1>3 DEF PageRecords
  <1>5. q \in Seq(EventRecords) /\ v \in AnyViews
    BY <1>1, ViewsAreViews DEF PageRecords
  <1>6. e.type \notin FullTypes => IsClosing(q) \/ Leads(v, q, w)
    BY <1>4 DEF ViewInv, EventFits
  <1> HIDE DEF q, v, w
  <1>7. CASE IsClosing(q) \/ e.type = "room_closed"
    BY <1>1, <1>4, <1>5, <1>7, ClosesLater
  <1>8. CASE e.type \in FullTypes /\ e.view = ViewOf(row')
    BY <1>1, <1>4, <1>5, <1>8, LeadsByFull
  <1>9. CASE Leads(v, q, w) /\ e.type = "disconnected" /\ ViewOf(row') = Gone(w, e.user)
    BY <1>1, <1>4, <1>5, <1>9, LeadsByDisconnection
  <1>10. CASE Leads(v, q, w) /\ e.type = "player_ready" /\ ViewOf(row') = w
    BY <1>1, <1>4, <1>5, <1>10, LeadsByReady
  <1>11. QED
    BY <1>6, <1>7, <1>8, <1>9, <1>10 DEF Tells, FullTypes, w

LEMMA ViewTold ==
  ASSUME Typed, ViewInv, NEW e, EventFits(e), Publish(e),
         \A d \in Conns : conn'[d].step = "open" => conn[d].step = "open",
         Tells(e, ViewOf(row), ViewOf(row'))
  PROVE  ViewInv'
  <1>1. PageTyped(page) /\ page' \in Gets(page, e)
    BY DEF Typed, Publish, PublishFor
  <1>2. page'.at = page.at /\ page'.conn = page.conn
    BY <1>1, GetsKeeps
  <1>3. Hears' => Hears
    BY <1>2, HeardBefore
  <1>4. QED
    BY <1>1, <1>3, ViewToldTo

\* A page that opens its socket hears nothing yet.
LEMMA DeafWhenOpening ==
  ASSUME Typed, NEW p, PageTyped(p), Opens(p)
  PROVE  ~Hears'
  <1>1. ConnTyped(conn) /\ p \in PageRecords
    BY DEF Typed, PageTyped
  <1>2. ASSUME NEW c \in Conns, page' = [p EXCEPT !.conn = c, !.inbox = <<>>, !.stale = FALSE],
               \/ conn' = [conn EXCEPT ![c] = [tab |-> p.tab, step |-> "registered",
                                               plays |-> Seated(row, me), read |-> ViewOf(row)]]
               \/ conn' = [conn EXCEPT ![c].step = "refused"]
        PROVE  ~Hears'
    <2>1. page'.conn = c
      BY <1>1, <1>2 DEF PageRecords
    <2>2. conn'[c].step # "open"
      BY <1>1, <1>2 DEF ConnTyped, ConnRecords
    <2>3. QED
      BY <2>1, <2>2 DEF Hears, IsOpen
  <1>3. CASE page' = [p EXCEPT !.conn = 0, !.inbox = <<>>, !.stale = FALSE]
    <2>1. page'.conn = 0
      BY <1>1, <1>3 DEF PageRecords
    <2>2. QED
      BY <2>1 DEF Hears, IsOpen
  <1>4. QED
    BY <1>2, <1>3 DEF Opens

\* What the page shows after a message that leaves it open.
LEMMA OnMessageShows ==
  ASSUME NEW p, PageTyped(p), NEW e, EventFits(e), OnMessage(p, e).at = "room"
  PROVE  /\ e.type # "room_closed"
         /\ e.type \in FullTypes => OnMessage(p, e).view = e.view
         /\ e.type = "disconnected" => OnMessage(p, e).view = Gone(p.view, e.user)
         /\ e.type = "player_ready" => OnMessage(p, e).view = p.view
  <1>1. p \in PageRecords /\ e.type \in FullTypes \cup SmallTypes \cup {"room_closed"}
    BY DEF PageTyped, EventFits, EventRecords
  <1>2. e.type # "room_closed"
    BY <1>1 DEF OnMessage, PageRecords
  <1>3. e.type \in FullTypes => OnMessage(p, e).view = e.view
    BY <1>1 DEF OnMessage, OnReconnected, OnPlayerLeft, Shows, FullTypes, PageRecords
  <1>4. e.type = "disconnected" => OnMessage(p, e).view = Gone(p.view, e.user)
    BY <1>1 DEF OnMessage, OnDisconnected, Gone, PageRecords
  <1>5. e.type = "player_ready" => OnMessage(p, e).view = p.view
    BY <1>1 DEF OnMessage, PageRecords
  <1>6. QED
    BY <1>2, <1>3, <1>4, <1>5

LEMMA ViewInit == Init => ViewInv
  BY DEF Init, ViewInv, Hears, AwayPage

LEMMA ViewStep == Typed /\ ViewInv /\ [Next]_vars => ViewInv'
  <1> SUFFICES ASSUME Typed, ViewInv, [Next]_vars PROVE ViewInv'
    OBVIOUS
  <1>. /\ me \in Users /\ RowTyped(row, sits) /\ ConnTyped(conn) /\ sits \in 0 .. MaxActs
       /\ PageTyped(page) /\ page \in PageRecords
       /\ Other \in Users /\ Other # me
    <2>1. /\ me \in Users /\ RowTyped(row, sits) /\ ConnTyped(conn) /\ sits \in 0 .. MaxActs
          /\ PageTyped(page) /\ page \in PageRecords
      BY RoomPageAssumption DEF Typed, PageTyped
    <2>2. QED
      BY <2>1, OtherIsOne
  <1>. row \in [status : Statuses, seat : Nat, gone : SUBSET Users, conn : 0 .. MaxConns]
    BY DEF RowTyped
  <1>. Typed'
    BY TypedStep
  <1>a. ~Hears' => ViewInv'
    BY DEF ViewInv
  <1>b. \A p : Away(p).at = "away"
    BY DEF Away, AwayPage
  <1>c. page'.at # "room" \/ page'.conn = 0 => ViewInv'
    BY <1>a DEF Hears, IsOpen
  <1>d. Plays => ViewInv'
    BY <1>a, AwayTyped, DeafWhenOpening DEF Plays
  <1>e. ASSUME NEW e, EventFits(e), Publish(e), conn' = conn,
               Tells(e, ViewOf(row), ViewOf(row'))
        PROVE  ViewInv'
    BY <1>e, ViewTold
  \* A player's event brings the room as it is.
  <1>f. ASSUME NEW type \in FullTypes, NEW u \in Users
        PROVE  /\ EventFits(RoomEvent(type, u, row'))
               /\ Tells(RoomEvent(type, u, row'), ViewOf(row), ViewOf(row'))
    <2>1. RowTyped(row', sits') /\ sits' \in 0 .. MaxActs
      BY RoomPageAssumption DEF Typed
    <2>2. EventFits(RoomEvent(type, u, row'))
      BY <2>1, EventsFit
    <2>3. RoomEvent(type, u, row').type = type /\ RoomEvent(type, u, row').view = ViewOf(row')
      BY DEF RoomEvent, Event
    <2>4. QED
      BY <2>2, <2>3 DEF Tells
  <1>g. ASSUME NEW u \in Users, row' = [row EXCEPT !.gone = @ \cup {u}]
        PROVE  /\ EventFits(Event("disconnected", u))
               /\ Tells(Event("disconnected", u), ViewOf(row), ViewOf(row'))
    <2>1. EventFits(Event("disconnected", u))
      BY EventsFit DEF SmallTypes
    <2>2. Event("disconnected", u).type = "disconnected" /\ Event("disconnected", u).user = u
      BY DEF Event
    <2>3. ViewOf(row') = Gone(ViewOf(row), u)
      BY <1>g DEF ViewOf, Gone
    <2>4. QED
      BY <2>1, <2>2, <2>3 DEF Tells
  <1>h. ASSUME NEW u \in Users
        PROVE  /\ EventFits(Event("room_closed", u))
               /\ Tells(Event("room_closed", u), ViewOf(row), ViewOf(row'))
    <2>1. EventFits(Event("room_closed", u))
      BY EventsFit
    <2>2. QED
      BY <2>1 DEF Tells, Event
  <1>i. ASSUME NEW u \in Users
        PROVE  EventFits(Farewell(u, row')) /\ Tells(Farewell(u, row'), ViewOf(row), ViewOf(row'))
    BY <1>f, <1>h DEF Farewell, FullTypes
  <1>j. ASSUME NEW u \in Users, NEW on \in BOOLEAN, row' = row
        PROVE  /\ EventFits(ReadyEvent(u, on))
               /\ Tells(ReadyEvent(u, on), ViewOf(row), ViewOf(row'))
    <2>1. EventFits(ReadyEvent(u, on))
      BY EventsFit
    <2>2. ReadyEvent(u, on).type = "player_ready"
      BY DEF ReadyEvent, Event
    <2>3. QED
      BY <1>j, <2>1, <2>2 DEF Tells
  \* Neither the page nor the row changes, and no connection opens that is the page's.
  <1>k. ASSUME UNCHANGED <<row, page>>,
               \A d \in Conns : d = page.conn /\ conn'[d].step = "open" => conn[d].step = "open"
        PROVE  ViewInv'
    <2>1. page.conn # 0 => page.conn \in Conns
      BY RoomPageAssumption DEF PageRecords, Conns
    <2>2. Hears' => Hears
      BY <1>k, <2>1 DEF Hears, IsOpen
    <2>3. QED
      BY <1>k, <2>2 DEF ViewInv
  <1>1. ASSUME Enter PROVE ViewInv'
    <2>1. PICK tab \in {page.tab, page.tab + 1} :
            LET p == [AwayPage EXCEPT !.at = "room", !.tab = tab, !.view = ViewOf(row)]
            IN  /\ tab <= MaxTabs
                /\ \/ row.status = "playing" /\ Opens([p EXCEPT !.at = "game", !.view = NoView])
                   \/ row.status # "playing" /\ Opens(p)
      BY <1>1 DEF Enter
    <2>2. PageTyped([AwayPage EXCEPT !.at = "room", !.tab = tab, !.view = ViewOf(row)])
          /\ PageTyped([[AwayPage EXCEPT !.at = "room", !.tab = tab, !.view = ViewOf(row)]
                          EXCEPT !.at = "game", !.view = NoView])
      BY <2>1, EnterTyped
    <2>3. QED
      BY <1>a, <2>1, <2>2, DeafWhenOpening
  <1>2. ASSUME Renew PROVE ViewInv'
    <2>1. ViewOf(row) \in Views
      BY ViewOfRow DEF Views, RealViews
    <2>2. PageTyped([page EXCEPT !.answer = ViewOf(row)])
      BY <2>1 DEF PageTyped, PageRecords
    <2>3. QED
      BY <1>2, <1>a, <2>2, DeafWhenOpening DEF Renew
  <1>3. ASSUME LoadAnswered PROVE ViewInv'
    <2>1. CASE Plays
      BY <1>d, <2>1
    <2>2. CASE ~Plays
      <3>1. /\ page' = [page EXCEPT !.answer = NoView, !.view = page.answer,
                                    !.stale = Hears /\ (@ \/ page.answer # ViewOf(row))]
            /\ conn' = conn /\ row' = row
        BY <1>3, <2>2 DEF LoadAnswered, sockets, room
      <3>2. /\ page'.view = page.answer /\ page'.inbox = page.inbox /\ page'.at = page.at
            /\ page'.conn = page.conn
            /\ page'.stale = (Hears /\ (page.stale \/ page.answer # ViewOf(row)))
        BY <3>1 DEF PageRecords
      <3>3. SUFFICES ASSUME Hears', ~page'.stale
                     PROVE  IsClosing(page.inbox) \/ Leads(page.answer, page.inbox, ViewOf(row))
        BY <3>1, <3>2 DEF ViewInv
      <3>4. Hears /\ ~page.stale /\ page.answer = ViewOf(row)
        BY <3>1, <3>2, <3>3 DEF Hears, IsOpen
      <3>5. IsClosing(page.inbox) \/ Leads(page.view, page.inbox, ViewOf(row))
        BY <3>4 DEF ViewInv
      <3>6. page.view \in AnyViews /\ page.answer \in AnyViews
        BY ViewsAreViews DEF PageRecords
      <3>7. QED
        BY <3>4, <3>5, <3>6, LeadsFromWhatIs
    <2>3. QED
      BY <2>1, <2>2
  <1>4. ASSUME Break PROVE ViewInv'
    <2>1. page'.conn = 0
      BY <1>4 DEF Break, PageRecords
    <2>2. QED
      BY <1>c, <2>1
  <1>5. ASSUME GoAway PROVE ViewInv'
    BY <1>5, <1>b, <1>c DEF GoAway
  <1>6. ASSUME NEW c \in Conns, MarkConnected(c) PROVE ViewInv'
    <2>1. conn[c] \in ConnRecords
      BY DEF ConnTyped
    <2>2. CASE /\ row' = Reconnected(row, c)
               /\ conn' = [conn EXCEPT ![c].step = "marked", ![c].read = ViewOf(row')]
               /\ Publish(RoomEvent("reconnected", me, row'))
      <3>1. \A d \in Conns : conn'[d].step = "open" => conn[d].step = "open"
        BY <2>1, <2>2 DEF ConnTyped, ConnRecords
      <3>2. "reconnected" \in FullTypes
        BY DEF FullTypes
      <3>3. QED
        BY <1>f, <2>2, <3>1, <3>2, ViewTold
    <2>3. CASE Step(c, "marked") /\ UNCHANGED <<row, page>>
      <3>1. \A d \in Conns : conn'[d].step = "open" => conn[d].step = "open"
        BY <2>1, <2>3 DEF ConnTyped, ConnRecords, Step
      <3>2. QED
        BY <1>k, <2>3, <3>1
    <2>4. QED
      BY <1>6, <2>2, <2>3 DEF MarkConnected
  <1>7. ASSUME NEW c \in Conns, Subscribe(c) PROVE ViewInv'
    <2>0. /\ conn' = [conn EXCEPT ![c].step = "open", ![c].read = NoView]
          /\ row' = row
      BY <1>7 DEF Subscribe, room
    <2>1. CASE page.at = "room" /\ page.conn = c
      <3> DEFINE e == [Event("room_state", me) EXCEPT !.view = conn[c].read]
      <3>1. page' = [page EXCEPT !.inbox = <<e>>, !.stale = conn[c].read # ViewOf(row)]
        BY <1>7, <2>1 DEF Subscribe
      <3>2. /\ page'.inbox = <<e>> /\ page'.view = page.view
            /\ page'.stale = (conn[c].read # ViewOf(row))
        BY <3>1 DEF PageRecords
      <3>3. EventFits(e)
        BY <3>2 DEF Typed, PageTyped
      <3>4. e.type \in FullTypes /\ e.view = conn[c].read /\ e \in EventRecords
        BY <3>3 DEF Event, FullTypes, EventFits
      <3> HIDE DEF e
      <3>5. <<>> \o <<e>> = <<e>> /\ <<>> \in Seq(EventRecords)
        BY <3>4
      <3>6. Leads(page.view, <<e>>, e.view)
        BY <3>4, <3>5, LeadsByFull
      <3>7. QED
        BY <2>0, <3>2, <3>4, <3>6 DEF ViewInv
    <2>2. CASE ~(page.at = "room" /\ page.conn = c)
      <3>1. page' = page
        BY <1>7, <2>2 DEF Subscribe
      <3>2. CASE page.at = "room"
        <4>1. \A d \in Conns : d # c => conn'[d] = conn[d]
          BY <2>0 DEF ConnTyped
        <4>2. QED
          BY <1>k, <2>0, <2>2, <3>1, <3>2, <4>1
      <3>3. CASE page.at # "room"
        BY <1>c, <3>1, <3>3
      <3>4. QED
        BY <3>2, <3>3
    <2>3. QED
      BY <2>1, <2>2
  <1>8. ASSUME NEW c \in Conns, Disconnected(c) PROVE ViewInv'
    <2>1. \A d \in Conns : conn'[d].step = "open" => conn[d].step = "open"
      BY <1>8 DEF Disconnected, ConnTyped, NoConn
    <2>2. CASE row' = [row EXCEPT !.gone = @ \cup {me}] /\ Publish(Event("disconnected", me))
      BY <1>g, <2>1, <2>2, ViewTold
    <2>3. CASE UNCHANGED <<row, page>>
      BY <1>k, <2>1, <2>3
    <2>4. QED
      BY <1>8, <2>2, <2>3 DEF Disconnected
  <1>9. ASSUME NEW c \in Conns, PutOut(c) PROVE ViewInv'
    <2>1. CASE Publish(Farewell(me, row'))
      BY <1>9, <1>e, <1>i, <2>1 DEF PutOut
    <2>2. CASE UNCHANGED <<row, page>>
      BY <1>9, <1>k, <2>2 DEF PutOut
    <2>3. QED
      BY <1>9, <2>1, <2>2 DEF PutOut
  <1>10. ASSUME OtherReconnects PROVE ViewInv'
    BY <1>10, <1>e, <1>f DEF OtherReconnects, Publishes, sockets, FullTypes
  <1>11. ASSUME OtherDisconnects PROVE ViewInv'
    BY <1>11, <1>e, <1>g DEF OtherDisconnects, Publishes, sockets
  <1>12. ASSUME OtherIsReady PROVE ViewInv'
    BY <1>12, <1>e, <1>j DEF OtherIsReady, Publishes, sockets
  <1>13. ASSUME OtherJoins PROVE ViewInv'
    BY <1>13, <1>e, <1>f DEF OtherJoins, Publishes, sockets, FullTypes
  <1>14. ASSUME NEW u \in Users, Starts(u) PROVE ViewInv'
    BY <1>14, <1>e, <1>f DEF Starts, Publishes, sockets, FullTypes
  <1>15. ASSUME OtherLeaves PROVE ViewInv'
    BY <1>15, <1>e, <1>i DEF OtherLeaves, Publishes, sockets
  <1>16. ASSUME Join PROVE ViewInv'
    BY <1>16, <1>c DEF Join
  <1>17. ASSUME Finish PROVE ViewInv'
    BY <1>17, <1>e, <1>f DEF Finish, Publishes, sockets, FullTypes, Users
  <1>18. ASSUME Replays PROVE ViewInv'
    BY <1>18, <1>e, <1>f DEF Replays, Publishes, sockets, FullTypes, Users
  <1>19. ASSUME Deliver PROVE ViewInv'
    <2> DEFINE e == Head(page.inbox)
               t == [page EXCEPT !.inbox = Tail(@)]
               p == OnMessage(t, e)
    <2>1. /\ Hears /\ page.inbox # <<>> /\ row' = row
          /\ \/ Plays
             \/ page' = Away(p)
             \/ p.at = "room" /\ page' = p /\ UNCHANGED sockets
      BY <1>19 DEF Deliver, room
    <2>2. CASE Plays
      BY <1>d, <2>2
    <2>3. CASE page' = Away(p)
      BY <1>b, <1>c, <2>3
    <2>4. CASE p.at = "room" /\ page' = p /\ UNCHANGED sockets
      <3>1. EventFits(e) /\ PageTyped(t)
        BY <2>1, TailTyped
      <3>2. /\ t.inbox = Tail(page.inbox) /\ t.view = page.view /\ t.stale = page.stale
        BY DEF PageRecords
      <3>a. page' = OnMessage(t, e) /\ OnMessage(t, e).at = "room"
        BY <2>4
      <3> HIDE DEF t, p, e
      <3>3. /\ page'.inbox = Tail(page.inbox) /\ page'.stale = page.stale
        BY <3>a, <3>1, <3>2, OnMessageKeeps
      <3>4. /\ e.type # "room_closed"
            /\ e.type \in FullTypes => page'.view = e.view
            /\ e.type = "disconnected" => page'.view = Gone(page.view, e.user)
            /\ e.type = "player_ready" => page'.view = page.view
        BY <3>a, <3>1, <3>2, OnMessageShows
      <3>5. page.view \in AnyViews /\ page.inbox \in Seq(EventRecords)
        BY ViewsAreViews DEF PageRecords
      <3>6. SUFFICES ASSUME ~page'.stale
                     PROVE  \/ IsClosing(Tail(page.inbox))
                            \/ Leads(page'.view, Tail(page.inbox), ViewOf(row))
        BY <2>1, <3>3 DEF ViewInv
      <3>7. IsClosing(page.inbox) \/ Leads(page.view, page.inbox, ViewOf(row))
        BY <2>1, <3>3, <3>6 DEF ViewInv
      <3>8. CASE IsClosing(page.inbox)
        BY <2>1, <3>4, <3>5, <3>8, ClosesSooner DEF e
      <3>9. CASE Leads(page.view, page.inbox, ViewOf(row))
        BY <2>1, <3>4, <3>5, <3>9, LeadsOn DEF e
      <3>10. QED
        BY <3>7, <3>8, <3>9
    <2>5. QED
      BY <2>1, <2>2, <2>3, <2>4
  <1>20. ASSUME ToggleReady PROVE ViewInv'
    <2> DEFINE on == me \notin page.ready
               p  == [page EXCEPT !.ready = IF on THEN @ \cup {me} ELSE @ \ {me}]
    <2>1. /\ \/ Hears /\ page' \in Gets(p, ReadyEvent(me, on))
             \/ page' = p
          /\ conn' = conn /\ row' = row
      BY <1>20 DEF ToggleReady, PublishFor, sockets
    <2>2. /\ PageTyped(p) /\ p.at = page.at /\ p.conn = page.conn /\ p.view = page.view
          /\ p.stale = page.stale /\ p.inbox = page.inbox
      BY DEF PageTyped, PageRecords
    <2>3. on \in BOOLEAN
      OBVIOUS
    <2> HIDE DEF on, p
    <2>4. CASE Hears /\ page' \in Gets(p, ReadyEvent(me, on))
      BY <1>j, <2>1, <2>2, <2>3, <2>4, ViewToldTo
    <2>5. CASE page' = p
      <3>1. Hears' => Hears
        BY <2>1, <2>2, <2>5 DEF Hears, IsOpen
      <3>2. QED
        BY <2>1, <2>2, <2>5, <3>1 DEF ViewInv
    <2>6. QED
      BY <2>1, <2>4, <2>5
  <1>21. ASSUME StartMatch PROVE ViewInv'
    BY <1>14, <1>21 DEF StartMatch
  <1>22. ASSUME LeaveRoom PROVE ViewInv'
    BY <1>22, <1>b, <1>c DEF LeaveRoom
  <1>23. ASSUME CloseRoom PROVE ViewInv'
    BY <1>23, <1>e, <1>h DEF CloseRoom, Publishes, sockets
  <1>24. ASSUME Expires \/ SweepCloses PROVE ViewInv'
    <2>1. page' = IF Hears THEN [page EXCEPT !.stale = TRUE] ELSE page
      BY <1>24 DEF Expires, SweepCloses, Untold
    <2>2. CASE Hears
      BY <2>1, <2>2 DEF ViewInv, PageRecords
    <2>3. CASE ~Hears
      <3>1. ~Hears'
        BY <1>24, <2>1, <2>3 DEF Expires, SweepCloses, Lives, sockets, Hears, IsOpen
      <3>2. QED
        BY <3>1 DEF ViewInv
    <2>4. QED
      BY <2>2, <2>3
  <1>25. ASSUME SweepReleases PROVE ViewInv'
    BY <1>25, <1>e, <1>f DEF SweepReleases, Lives, sockets, FullTypes, Users
  <1>26. ASSUME UNCHANGED vars PROVE ViewInv'
    BY <1>26, <1>k DEF vars, room, sockets
  <1>27. QED
    BY <1>1, <1>2, <1>3, <1>4, <1>5, <1>6, <1>7, <1>8, <1>9, <1>10, <1>11, <1>12, <1>13, <1>14,
       <1>15, <1>16, <1>17, <1>18, <1>19, <1>20, <1>21, <1>22, <1>23, <1>24, <1>25, <1>26
       DEF Next, Serves, OtherActs

-----------------------------------------------------------------------------
(***************************************************************************)
(* Theorems.                                                               *)
(***************************************************************************)
IInv == Typed /\ ConnInv /\ ViewInv

THEOREM IInvHolds == Spec => []IInv
  <1>1. Init => IInv
    BY TypedInit, ConnInit, ViewInit DEF IInv
  <1>2. IInv /\ [Next]_vars => IInv'
    BY TypedStep, ConnStep, ViewStep DEF IInv
  <1>3. QED
    BY <1>1, <1>2, PTL DEF Spec

\* The variables keep their types, and the mark of the player is that of a
\* connection which is gone.
THEOREM TypesHold == Spec => []TypeOK
  <1>1. IInv => TypeOK
    <2> SUFFICES ASSUME IInv PROVE TypeOK
      OBVIOUS
    <2>1. Views = RealViews \cup {NoView}
      BY DEF Views, RealViews
    <2>2. /\ RowTyped(row, sits) /\ sits \in Nat /\ page \in PageRecords
          /\ due \subseteq Conns
      BY DEF IInv, Typed, PageTyped
    <2>3. row.status \in Statuses /\ row.seat \in 0 .. sits /\ row.conn \in 0 .. MaxConns
      BY <2>2 DEF RowTyped
    <2>4. me \in row.gone => row.conn # 0 /\ conn[row.conn].step = "gone"
      BY DEF IInv, ConnInv, Ended
    <2>5. QED
      BY <2>2, <2>3, <2>4 DEF TypeOK, PageRecords
  <1>2. QED
    BY <1>1, IInvHolds, PTL

\* Once the events on their way have come, an open page shows the room as it is, unless
\* since the last event with the whole room it has expired or was closed by the sweep, of
\* which nobody is told, or the socket's full queue has dropped an event: in whatever order
\* players come, go, are marked, put out and swept, for any number of connections and events.
THEOREM PageShowsTheRoom == Spec => []ViewAgrees
  <1>1. IInv => ViewAgrees
    <2> SUFFICES ASSUME IInv, Hears, page.inbox = <<>>, ~page.stale
                 PROVE  page.view = ViewOf(row)
      BY DEF ViewAgrees
    <2>1. page.view \in AnyViews
      BY ViewsAreViews DEF IInv, Typed, PageTyped, PageRecords
    <2>2. ~IsClosing(page.inbox)
      BY DEF IsClosing
    <2>3. Leads(page.view, <<>>, ViewOf(row))
      BY <2>2 DEF IInv, ViewInv
    <2>4. QED
      BY <2>1, <2>3, LeadsNowhere
  <1>2. QED
    BY <1>1, IInvHolds, PTL

\* The player whose page holds the connection that the row names is not put
\* out by a delayed close or release, whichever of the earlier connections end and when.
THEOREM ConnectedAreSpared == Spec => SparesConnected
  <1> DEFINE Spares ==
        \A c \in due \ due' : Seated(row, me) /\ ~Seated(row', me) => page.conn # row.conn
  <1>1. IInv /\ [Next]_vars => [Spares]_vars
    <2> SUFFICES ASSUME IInv, Next, NEW c \in due, c \notin due',
                        Seated(row, me), ~Seated(row', me)
                 PROVE  page.conn # row.conn
      OBVIOUS
    <2>1. c \in Conns /\ Ended(c)
      BY DEF IInv, Typed, ConnInv
    <2>2. PICK d \in Conns : PutOut(d)
      <3>1. \A p : Opens(p) => due' = due
        BY DEF Opens
      <3>2. QED
        BY <3>1 DEF Next, Serves, OtherActs, Enter, Renew, LoadAnswered, Plays, Break, GoAway,
              MarkConnected, Subscribe, Disconnected, Schedules, Join, Finish, Replays, Deliver,
              ToggleReady, StartMatch, LeaveRoom, CloseRoom, OtherReconnects, OtherDisconnects,
              OtherIsReady, OtherJoins, OtherLeaves, Starts, Publishes, Expires, SweepCloses,
              SweepReleases, Lives, sockets
    <2>3. d = c
      BY <2>2 DEF PutOut
    <2>4. row' # row
      <3>1. me' = me
        BY <2>2 DEF PutOut
      <3>2. QED
        BY <3>1
    <2>5. row.conn = c
      BY <2>2, <2>3, <2>4 DEF PutOut, IsOverdue
    <2>6. page.conn # c
      <3>1. c # 0
        BY <2>1, RoomPageAssumption DEF Conns
      <3>2. QED
        BY <2>1, <3>1 DEF IInv, ConnInv
    <2>7. QED
      BY <2>5, <2>6
  <1>2. QED
    BY <1>1, IInvHolds, PTL DEF Spec, SparesConnected
=============================================================================
