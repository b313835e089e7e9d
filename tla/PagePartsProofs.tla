-------------------------- MODULE PagePartsProofs --------------------------
(***************************************************************************)
(* What is proved of the parts of the pages, for any bounds.               *)
(*                                                                         *)
(* ChatFeed: a page that nothing is on the way to shows every message of   *)
(* the room once.  HomeFeed: a page at rest shows the rooms as they are.   *)
(* TableMotion: the report of a shot is true, and the balls keep the pace  *)
(* of the clock.  CueFeed: who has the turn aims with an aim of their own. *)
(* And the types of the four together.                                     *)
(***************************************************************************)
EXTENDS MCPageParts, FiniteSetTheorems, SequenceTheorems, WellFoundedInduction, TLAPS

-----------------------------------------------------------------------------
(***************************************************************************)
(* Sequences and the sets of their elements.                               *)
(***************************************************************************)
LEMMA AppendAdds ==
    ASSUME NEW S, NEW s \in Seq(S), NEW e \in S
    PROVE  /\ Append(s, e) \in Seq(S)
           /\ Len(Append(s, e)) = Len(s) + 1
           /\ ToSet(Append(s, e)) = ToSet(s) \union {e}
<1>1. /\ Append(s, e) \in Seq(S)
      /\ Len(Append(s, e)) = Len(s) + 1
      /\ \A i \in 1 .. Len(s) : Append(s, e)[i] = s[i]
      /\ Append(s, e)[Len(s) + 1] = e
  OBVIOUS
<1>2. DOMAIN s = 1 .. Len(s) /\ DOMAIN Append(s, e) = 1 .. Len(s) + 1 /\ Len(s) \in Nat
  BY <1>1
<1>3. DOMAIN Append(s, e) = DOMAIN s \union {Len(s) + 1}
  BY <1>2
<1> QED BY <1>1, <1>2, <1>3 DEF ToSet

LEMMA TailTakes ==
    ASSUME NEW S, NEW s \in Seq(S), s # <<>>
    PROVE  /\ Tail(s) \in Seq(S) /\ Head(s) \in S
           /\ ToSet(s) = {Head(s)} \union ToSet(Tail(s))
<1>1. /\ Tail(s) \in Seq(S) /\ Head(s) \in S /\ Head(s) = s[1]
      /\ Len(s) \in Nat /\ Len(s) >= 1 /\ Len(Tail(s)) = Len(s) - 1
      /\ \A i \in 1 .. Len(s) - 1 : Tail(s)[i] = s[i + 1]
  OBVIOUS
<1>2. DOMAIN s = 1 .. Len(s) /\ DOMAIN Tail(s) = 1 .. Len(s) - 1
  BY <1>1
<1>3. ToSet(s) \subseteq {Head(s)} \union ToSet(Tail(s))
  <2> SUFFICES ASSUME NEW i \in 1 .. Len(s), i # 1
               PROVE  s[i] \in ToSet(Tail(s))
    BY <1>1, <1>2 DEF ToSet
  <2>1. i - 1 \in 1 .. Len(s) - 1 /\ Tail(s)[i - 1] = s[i]
    BY <1>1
  <2> QED BY <2>1, <1>2 DEF ToSet
<1>4. {Head(s)} \union ToSet(Tail(s)) \subseteq ToSet(s)
  <2>1. 1 \in DOMAIN s /\ \A i \in DOMAIN Tail(s) : i + 1 \in DOMAIN s
    BY <1>1, <1>2
  <2> QED BY <2>1, <1>1, <1>2 DEF ToSet
<1> QED BY <1>1, <1>3, <1>4

\* A sequence without repetitions is as long as the set of its elements is large.
NoRepeats(s) == \A i, j \in DOMAIN s : s[i] = s[j] => i = j

LEMMA LengthOfSet ==
    ASSUME NEW S, NEW s \in Seq(S), NoRepeats(s)
    PROVE  Len(s) = Cardinality(ToSet(s))
<1>1. DOMAIN s = 1 .. Len(s) /\ Len(s) \in Nat
  OBVIOUS
<1>2. s \in Bijection(1 .. Len(s), ToSet(s))
  BY <1>1 DEF Bijection, Injection, Surjection, IsInjective, NoRepeats, ToSet
<1>3. IsFiniteSet(1 .. Len(s)) /\ Cardinality(1 .. Len(s)) = Len(s)
  <2>1. 1 \in Int /\ Len(s) \in Int
    BY <1>1
  <2>2. /\ IsFiniteSet(1 .. Len(s))
        /\ Cardinality(1 .. Len(s)) = IF 1 > Len(s) THEN 0 ELSE Len(s) - 1 + 1
    BY <2>1, FS_Interval
  <2> QED BY <1>1, <2>2
<1>4. ExistsBijection(1 .. Len(s), ToSet(s))
  BY <1>2 DEF ExistsBijection
<1> QED BY <1>3, <1>4, FS_Bijection

-----------------------------------------------------------------------------
(***************************************************************************)
(* ChatFeed: the inductive invariant.  What the page remembers is what it  *)
(* shows and what it awaits, and no message is both; and what the stream   *)
(* has given an open socket the page remembers, or it is on the way, or    *)
(* was dropped.                                                            *)
(***************************************************************************)
Panels ==
    [page : {"room", "game"}, ids : SUBSET Nat, names : SUBSET Senders, awaited : SUBSET Nat,
     shown : Seq(Nat), open : BOOLEAN, unread : Nat, broken : Nat, opened : Nat]

Wires == [up : BOOLEAN, next : Nat \ {0}, in : Seq(Nat), out : Nat, lost : SUBSET Nat]

PanelOf(c, n) ==
    /\ c \in Panels
    /\ NoRepeats(c.shown)
    /\ c.ids = ToSet(c.shown) \union c.awaited
    /\ c.awaited \intersect ToSet(c.shown) = {}
    /\ c.ids \subseteq 1 .. n

WireOf(w, c, n) ==
    /\ w \in Wires
    /\ w.next <= n + 1
    /\ ToSet(w.in) \subseteq 1 .. n
    /\ w.lost \subseteq 1 .. n
    /\ w.up => 1 .. w.next - 1 \subseteq c.ids \union ToSet(w.in) \union w.lost
    /\ ~w.up => w.in = <<>>

ChatInv ==
    /\ stream \in Seq(Senders)
    /\ Len(stream) + wire.out <= MaxMessages
    /\ PanelOf(panel, Len(stream))
    /\ WireOf(wire, panel, Len(stream))

LEMMA ShownOnce ==
    ASSUME NEW n \in Nat, NEW c \in Panels, NEW id \in 1 .. n,
           NoRepeats(c.shown), c.ids = ToSet(c.shown) \union c.awaited \union {id},
           c.awaited \intersect ToSet(c.shown) = {}, id \notin ToSet(c.shown),
           c.ids \subseteq 1 .. n
    PROVE  PanelOf(ShowsMessage(c, id), n) /\ ShowsMessage(c, id).ids = c.ids
<1> DEFINE shown == Append(c.shown, id)
           unread == IF c.open \/ c.page = "room" THEN c.unread ELSE c.unread + 1
<1>1. /\ shown \in Seq(Nat) /\ ToSet(shown) = ToSet(c.shown) \union {id}
      /\ unread \in Nat
  BY AppendAdds DEF Panels
<1>2. NoRepeats(shown)
  <2>1. /\ DOMAIN shown = DOMAIN c.shown \union {Len(c.shown) + 1}
        /\ \A i \in DOMAIN c.shown : shown[i] = c.shown[i] /\ shown[i] # id
        /\ shown[Len(c.shown) + 1] = id
    BY DEF Panels, ToSet
  <2> QED BY <2>1 DEF NoRepeats
<1>3. ShowsMessage(c, id) = [c EXCEPT !.shown = shown, !.awaited = c.awaited \ {id}, !.unread = unread]
  BY DEF ShowsMessage, Panels
<1> HIDE DEF shown, unread
<1>4. /\ ShowsMessage(c, id) \in Panels /\ ShowsMessage(c, id).shown = shown
      /\ ShowsMessage(c, id).awaited = c.awaited \ {id} /\ ShowsMessage(c, id).ids = c.ids
  BY <1>1, <1>3 DEF Panels
<1> QED BY <1>1, <1>2, <1>4 DEF PanelOf

LEMMA MessageTaken ==
    ASSUME NEW n \in Nat, NEW c, PanelOf(c, n), NEW id \in 1 .. n
    PROVE  /\ PanelOf(OnChatMessage(c, id), n)
           /\ OnChatMessage(c, id).ids = c.ids \union {id}
<1>1. CASE id \in c.ids
  BY <1>1 DEF OnChatMessage
<1>2. CASE id \notin c.ids
  <2> DEFINE known == [c EXCEPT !.ids = c.ids \union {id}]
             awaits == [known EXCEPT !.awaited = c.awaited \union {id}]
  <2>1. /\ known \in Panels /\ known.ids = c.ids \union {id} /\ known.shown = c.shown
        /\ known.awaited = c.awaited
    BY DEF PanelOf, Panels
  <2>2. /\ NoRepeats(known.shown) /\ known.ids = ToSet(known.shown) \union known.awaited \union {id}
        /\ known.awaited \intersect ToSet(known.shown) = {} /\ id \notin ToSet(known.shown)
        /\ known.ids \subseteq 1 .. n
    BY <1>2, <2>1 DEF PanelOf
  <2> HIDE DEF known
  <2>6. PanelOf(ShowsMessage(known, id), n) /\ ShowsMessage(known, id).ids = known.ids
    BY <2>1, <2>2, ShownOnce
  <2>3. /\ awaits \in Panels /\ awaits.ids = c.ids \union {id} /\ awaits.shown = c.shown
        /\ awaits.awaited = c.awaited \union {id}
    BY <2>1 DEF Panels
  <2>4. PanelOf(awaits, n)
    BY <1>2, <2>3 DEF PanelOf
  <2> USE DEF known
  <2>5. OnChatMessage(c, id) = IF ShowsAtOnce(c, id) THEN ShowsMessage(known, id) ELSE awaits
    BY <1>2, <2>1 DEF OnChatMessage
  <2> QED BY <2>1, <2>3, <2>4, <2>5, <2>6
<1> QED BY <1>1, <1>2

LEMMA StreamGrows ==
    ASSUME ChatInv, NEW who \in Senders
    PROVE  /\ Append(stream, who) \in Seq(Senders)
           /\ Len(Append(stream, who)) = Len(stream) + 1
           /\ PanelOf(panel, Len(stream) + 1) /\ WireOf(wire, panel, Len(stream) + 1)
<1>1. Len(stream) \in Nat
  BY DEF ChatInv
<1>2. 1 .. Len(stream) \subseteq 1 .. Len(stream) + 1
  BY <1>1
<1>3. Append(stream, who) \in Seq(Senders) /\ Len(Append(stream, who)) = Len(stream) + 1
  BY AppendAdds DEF ChatInv
<1>4. PanelOf(panel, Len(stream) + 1)
  BY <1>2 DEF ChatInv, PanelOf
<1>5. WireOf(wire, panel, Len(stream) + 1)
  BY <1>1, <1>2 DEF ChatInv, WireOf, Wires
<1> QED BY <1>3, <1>4, <1>5

LEMMA ChatInvInit == ChatInit => ChatInv
<1> SUFFICES ASSUME ChatInit PROVE ChatInv
  OBVIOUS
<1>. MaxMessages \in Nat
  BY ChatAssumption
<1>1. /\ stream = <<>> /\ wire = [up |-> TRUE, next |-> 1, in |-> <<>>, out |-> 0, lost |-> {}]
  BY DEF ChatInit, NoWire
<1>2. panel \in Panels /\ panel.ids = {} /\ panel.awaited = {} /\ panel.shown = <<>>
  <2>1. panel \in [page : {"room", "game"}, ids : {{}}, names : {{}}, awaited : {{}},
                  shown : {<<>>}, open : {FALSE}, unread : {0}, broken : {0}, opened : {0}]
    BY DEF ChatInit
  <2>2. <<>> \in Seq(Nat)
    OBVIOUS
  <2>3. panel = [page |-> panel.page, ids |-> {}, names |-> {}, awaited |-> {}, shown |-> <<>>,
                 open |-> FALSE, unread |-> 0, broken |-> 0, opened |-> 0]
        /\ panel.page \in {"room", "game"}
    BY <2>1
  <2> DEFINE pg == panel.page
  <2> HIDE DEF pg
  <2>4. panel = [page |-> pg, ids |-> {}, names |-> {}, awaited |-> {}, shown |-> <<>>,
                 open |-> FALSE, unread |-> 0, broken |-> 0, opened |-> 0]
        /\ pg \in {"room", "game"}
    BY <2>3 DEF pg
  <2> QED BY <2>2, <2>4 DEF Panels
<1>3. ToSet(<<>>) = {} /\ NoRepeats(<<>>)
  BY DEF ToSet, NoRepeats
<1>4. PanelOf(panel, 0)
  BY <1>2, <1>3 DEF PanelOf
<1>5. wire \in Wires /\ WireOf(wire, panel, 0)
  BY <1>1, <1>3 DEF WireOf, Wires
<1> QED BY <1>1, <1>4, <1>5 DEF ChatInv

LEMMA ChatStep == ChatInv /\ [ChatNext]_chatVars => ChatInv'
<1> SUFFICES ASSUME ChatInv, [ChatNext]_chatVars PROVE ChatInv'
  OBVIOUS
<1> DEFINE n == Len(stream)
<1>. MaxMessages \in Nat
  BY ChatAssumption
<1>1. n \in Nat /\ wire \in Wires /\ panel \in Panels /\ wire.out \in Nat
  BY DEF ChatInv, WireOf, PanelOf, Wires
<1>2. CASE handleSendChat
  <2> DEFINE out == wire.out + 1
  <2>2. wire' = wire \/ wire' = [wire EXCEPT !.out = out]
    BY <1>2 DEF handleSendChat
  <2>3. out \in Nat /\ n + wire.out < MaxMessages
    BY <1>1, <1>2 DEF handleSendChat
  <2>4. n + out <= MaxMessages
    BY <1>1, <2>3
  <2> HIDE DEF out
  <2>1. /\ wire' \in Wires /\ wire'.up = wire.up /\ wire'.next = wire.next /\ wire'.in = wire.in
        /\ wire'.lost = wire.lost /\ wire'.out \in {wire.out, out}
    BY <1>1, <2>2, <2>3 DEF Wires
  <2> QED BY <1>1, <1>2, <2>1, <2>3, <2>4 DEF handleSendChat, ChatInv, WireOf
<1>3. CASE ServeChat
  <2> DEFINE out == wire.out - 1
  <2>5. wire' = [wire EXCEPT !.out = out]
    BY <1>3 DEF ServeChat
  <2>6. out \in Nat
    BY <1>1, <1>3 DEF ServeChat
  <2> HIDE DEF out
  <2>7. /\ wire' \in Wires /\ wire'.up = wire.up /\ wire'.next = wire.next
        /\ wire'.in = wire.in /\ wire'.out = out /\ wire'.lost = wire.lost
    BY <1>1, <2>5, <2>6 DEF Wires
  <2>1. /\ wire' \in Wires /\ wire'.up = wire.up /\ wire'.next = wire.next
        /\ wire'.in = wire.in /\ wire'.out = wire.out - 1 /\ wire'.lost = wire.lost
    BY <2>7 DEF out
  <2>2. stream' = Append(stream, "me") /\ panel' = panel
    BY <1>3 DEF ServeChat
  <2>3. PanelOf(panel, n + 1) /\ WireOf(wire, panel, n + 1) /\ stream' \in Seq(Senders)
        /\ Len(stream') = n + 1
    BY <2>2, StreamGrows DEF Senders
  <2>4. WireOf(wire', panel, n + 1)
    BY <2>1, <2>3 DEF WireOf
  <2> QED BY <1>1, <2>1, <2>2, <2>3, <2>4 DEF ChatInv
<1>4. CASE OtherSays
  <2>1. PanelOf(panel, n + 1) /\ WireOf(wire, panel, n + 1) /\ stream' \in Seq(Senders)
        /\ Len(stream') = n + 1 /\ n + wire.out < MaxMessages
    BY <1>4, StreamGrows DEF OtherSays, Senders
  <2> QED BY <1>1, <1>4, <2>1 DEF OtherSays, ChatInv
<1>5. CASE StreamDelivers
  <2> DEFINE in == Append(wire.in, wire.next)
             next == wire.next + 1
             lost == wire.lost \union {wire.next}
  <2>1. wire.next \in Nat \ {0} /\ wire.in \in Seq(Nat) /\ wire.next <= n
    BY <1>1, <1>5 DEF StreamDelivers, Wires
  <2>2. in \in Seq(Nat) /\ ToSet(in) = ToSet(wire.in) \union {wire.next}
    BY <2>1, AppendAdds
  <2>4. \/ wire' = [wire EXCEPT !.next = next, !.in = in]
        \/ wire' = [wire EXCEPT !.next = next, !.lost = lost]
    BY <1>5 DEF StreamDelivers
  <2>7. next \in Nat \ {0} /\ lost \subseteq Nat
    BY <1>1, <2>1 DEF Wires
  <2>6. 1 .. next - 1 = 1 .. wire.next - 1 \union {wire.next} /\ next <= n + 1
        /\ wire.next \in 1 .. n
    BY <1>1, <2>1
  <2>8. wire.up /\ 1 .. wire.next - 1 \subseteq panel.ids \union ToSet(wire.in) \union wire.lost
        /\ ToSet(wire.in) \subseteq 1 .. n /\ wire.lost \subseteq 1 .. n
    BY <1>5 DEF StreamDelivers, ChatInv, WireOf
  <2>10. lost = wire.lost \union {wire.next}
    OBVIOUS
  <2> HIDE DEF in, next, lost
  <2>5. /\ wire' \in Wires /\ wire'.up = wire.up /\ wire'.next = next /\ wire'.out = wire.out
        /\ \/ wire'.in = in /\ wire'.lost = wire.lost
           \/ wire'.in = wire.in /\ wire'.lost = lost
    <3>1. CASE wire' = [wire EXCEPT !.next = next, !.in = in]
      BY <1>1, <2>2, <2>7, <3>1 DEF Wires
    <3>2. CASE wire' = [wire EXCEPT !.next = next, !.lost = lost]
      BY <1>1, <2>7, <3>2 DEF Wires
    <3> QED BY <2>4, <3>1, <3>2
  <2>9. /\ ToSet(wire'.in) \subseteq 1 .. n /\ wire'.lost \subseteq 1 .. n
        /\ 1 .. next - 1 \subseteq panel.ids \union ToSet(wire'.in) \union wire'.lost
    BY <2>2, <2>5, <2>6, <2>8, <2>10
  <2>3. WireOf(wire', panel, n)
    BY <2>5, <2>6, <2>8, <2>9 DEF WireOf
  <2> QED BY <1>5, <2>3, <2>5 DEF StreamDelivers, ChatInv
<1>6. CASE BreakChat
  <2>1. wire' = NoWire /\ panel' = [panel EXCEPT !.broken = panel.broken + 1] /\ stream' = stream
    BY <1>6 DEF BreakChat, ChatInv
  <2> DEFINE broken == panel.broken + 1
  <2>6. panel' = [panel EXCEPT !.broken = broken] /\ broken \in Nat
    BY <1>1, <2>1 DEF Panels
  <2> HIDE DEF broken
  <2>5. /\ panel' \in Panels /\ panel'.ids = panel.ids /\ panel'.awaited = panel.awaited
        /\ panel'.shown = panel.shown
    BY <1>1, <2>6 DEF Panels
  <2>2. PanelOf(panel', n)
    BY <2>5 DEF ChatInv, PanelOf
  <2>3. ToSet(<<>>) = {}
    BY DEF ToSet
  <2>4. WireOf(wire', panel', n)
    BY <1>1, <2>1, <2>3 DEF WireOf, Wires, NoWire
  <2> QED BY <1>1, <2>1, <2>2, <2>4 DEF ChatInv, NoWire
<1>7. CASE SubscribeChat
  <2>1. ToSet(<<>>) = {}
    BY DEF ToSet
  <2>2. wire' = [up |-> TRUE, next |-> 1, in |-> <<>>, out |-> 0, lost |-> {}]
    BY <1>7 DEF SubscribeChat, NoWire
  <2>3. WireOf(wire', panel, n)
    BY <1>1, <2>1, <2>2 DEF WireOf, Wires
  <2> QED BY <1>1, <1>7, <2>2, <2>3 DEF SubscribeChat, ChatInv
<1>8. CASE ReceiveChat
  <2> DEFINE id == Head(wire.in)
  <2>1. /\ wire' \in Wires /\ wire'.up = wire.up /\ wire'.next = wire.next
        /\ wire'.in = Tail(wire.in) /\ wire'.out = wire.out /\ wire'.lost = wire.lost
        /\ ToSet(wire.in) = {id} \union ToSet(wire'.in)
    BY <1>1, <1>8, TailTakes DEF ReceiveChat, Wires
  <2>2. id \in 1 .. n
    BY <2>1 DEF ChatInv, WireOf
  <2>3. PanelOf(panel', n) /\ panel'.ids = panel.ids \union {id}
    BY <1>1, <1>8, <2>2, MessageTaken DEF ReceiveChat, ChatInv
  <2>4. wire.in # <<>>
    BY <1>8 DEF ReceiveChat
  <2>5. WireOf(wire', panel', n)
    BY <2>1, <2>3, <2>4 DEF ChatInv, WireOf
  <2> QED BY <1>8, <2>1, <2>3, <2>5 DEF ReceiveChat, ChatInv
<1>9. ASSUME NEW id \in panel.awaited, NameArrives(id)
      PROVE  ChatInv'
  <2>1. PanelOf(ShowsMessage(panel, id), n) /\ ShowsMessage(panel, id).ids = panel.ids
    BY <1>1, <1>9, ShownOnce DEF ChatInv, PanelOf
  <2>2. stream[id] \in Senders
    BY <1>9 DEF ChatInv, PanelOf
  <2> DEFINE c == ShowsMessage(panel, id)
             named == [c EXCEPT !.names = c.names \union {stream[id]}]
  <2>3. panel' = c \/ panel' = named
    BY <1>9 DEF NameArrives
  <2> HIDE DEF c
  <2>4. c \in Panels /\ named \in Panels /\ named.ids = c.ids /\ named.shown = c.shown
        /\ named.awaited = c.awaited
    BY <2>1, <2>2 DEF c, PanelOf, Panels
  <2>5. PanelOf(named, n)
    BY <2>1, <2>4 DEF c, PanelOf
  <2>6. PanelOf(panel', n) /\ panel'.ids = panel.ids
    BY <2>1, <2>3, <2>4, <2>5 DEF c
  <2> QED BY <1>9, <2>6 DEF NameArrives, ChatInv, WireOf
<1>10. CASE setChatOpen
  <2> DEFINE opened == panel.opened + 1
             shut == [panel EXCEPT !.open = FALSE]
             open == [panel EXCEPT !.open = TRUE, !.unread = 0, !.opened = opened]
  <2>4. panel' = shut \/ panel' = open
    BY <1>10 DEF setChatOpen
  <2>5. opened \in Nat
    BY <1>1 DEF Panels
  <2> HIDE DEF opened
  <2>2. /\ shut \in Panels /\ shut.ids = panel.ids /\ shut.awaited = panel.awaited
        /\ shut.shown = panel.shown
    BY <1>1 DEF Panels
  <2>3. /\ open \in Panels /\ open.ids = panel.ids /\ open.awaited = panel.awaited
        /\ open.shown = panel.shown
    BY <1>1, <2>5 DEF Panels
  <2>1. /\ panel' \in Panels /\ panel'.ids = panel.ids /\ panel'.awaited = panel.awaited
        /\ panel'.shown = panel.shown
    BY <2>2, <2>3, <2>4
  <2> QED BY <1>10, <2>1 DEF setChatOpen, ChatInv, PanelOf, WireOf
<1>11. CASE UNCHANGED chatVars
  BY <1>11 DEF chatVars, ChatInv
<1> QED BY <1>2, <1>3, <1>4, <1>5, <1>6, <1>7, <1>8, <1>9, <1>10, <1>11 DEF ChatNext, ChatGoesOn

LEMMA ChatInvariance == ChatSpec => []ChatInv
<1>1. ChatInit => ChatInv
  BY ChatInvInit
<1>2. ChatInv /\ [ChatNext]_chatVars => ChatInv'
  BY ChatStep
<1> QED BY <1>1, <1>2, PTL DEF ChatSpec

-----------------------------------------------------------------------------
\* The chat of an open page with nothing on the way is the stream, but for what the link's
\* queue had no place for: every other message, each once (GamePage.tsx: chatMessageIdsRef;
\* ws_handler.go: DeliverAll, enqueueWS).
THEOREM PageShowsTheChat == ChatSpec => []ChatIsWhole
<1>1. ChatInv => ChatIsWhole
  <2> SUFFICES ASSUME ChatInv, wire.up, wire.in = <<>>, wire.next > Len(stream),
                      panel.awaited = {}
               PROVE  /\ Len(panel.shown) = Cardinality(ToSet(panel.shown))
                      /\ DOMAIN stream \ wire.lost \subseteq ToSet(panel.shown)
                      /\ ToSet(panel.shown) \subseteq DOMAIN stream
    BY DEF ChatIsWhole
  <2>1. Len(stream) \in Nat /\ DOMAIN stream = 1 .. Len(stream)
    BY DEF ChatInv
  <2>2. wire.next - 1 = Len(stream)
    BY <2>1 DEF ChatInv, WireOf, Wires
  <2>3. /\ 1 .. Len(stream) \subseteq ToSet(panel.shown) \union wire.lost
        /\ ToSet(panel.shown) \subseteq 1 .. Len(stream)
    BY <2>2 DEF ChatInv, WireOf, PanelOf, ToSet
  <2>4. panel.shown \in Seq(Nat) /\ NoRepeats(panel.shown)
    BY DEF ChatInv, PanelOf, Panels
  <2> QED BY <2>1, <2>3, <2>4, LengthOfSet
<1> QED BY <1>1, ChatInvariance, PTL

\* The page never remembers a message the stream has not, and shows none twice.
THEOREM ChatTypes == ChatSpec => []ChatTypeOK
<1>. MaxMessages \in Nat
  BY ChatAssumption
<1>1. ASSUME ChatInv PROVE ChatTypeOK
  <2>1. Len(stream) \in Nat /\ Len(stream) <= MaxMessages
    BY <1>1 DEF ChatInv, WireOf, Wires
  <2>2. 1 .. Len(stream) \subseteq ChatIds /\ wire.next \in 1 .. MaxMessages + 1
    BY <1>1, <2>1 DEF ChatInv, WireOf, Wires, ChatIds
  <2>3. \A s \in Seq(Nat) : ToSet(s) \subseteq ChatIds => s \in Seq(ChatIds)
    BY DEF ToSet
  <2>4. wire.in \in Seq(Nat) /\ ToSet(wire.in) \subseteq ChatIds
    BY <1>1, <2>2 DEF ChatInv, WireOf, Wires
  <2>5. panel.shown \in Seq(Nat) /\ ToSet(panel.shown) \subseteq ChatIds
        /\ panel.ids \subseteq ChatIds /\ panel.awaited \subseteq ChatIds /\ panel.unread \in Nat
    BY <1>1, <2>2 DEF ChatInv, PanelOf, Panels
  <2>6. wire.lost \subseteq ChatIds
    BY <1>1, <2>2 DEF ChatInv, WireOf
  <2> QED BY <1>1, <2>1, <2>2, <2>3, <2>4, <2>5, <2>6 DEF ChatTypeOK, ChatInv
<1> QED BY <1>1, ChatInvariance, PTL
-----------------------------------------------------------------------------
(***************************************************************************)
(* HomeFeed: the inductive invariant.  A list that was read tells of the   *)
(* room as it was at some change, and, if that is its last change, as it   *)
(* is; and what the page of an open socket does not know of the last       *)
(* change is on its way, or somebody is about to read it.                  *)
(***************************************************************************)
Statuses == {"waiting", "playing", "finished", "ended"}
Present == Users \union {"nobody"}
Rows == [status : Statuses, creator : Creators, opponent : Present,
         gone : SUBSET (Creators \union Users), at : Nat \ {0}, quiet : BOOLEAN,
         steps : Nat, fetches : Nat]
Entries == [status : Statuses, creator : Creators, opponent : Present,
            gone : SUBSET (Creators \union Users)]
Lists == [at : Nat, list : SUBSET Entries]
Tellers == [to : {"all", "me"}, id : Nat, pc : {"reads", "tells"}, found : Lists]
Pages == [page : {"home", "room"}, socket : {"up", "down"}, in : Seq(Lists),
          fetch : {"none", "asked", "served"}, answer : Lists, rooms : SUBSET Entries,
          last : Nat, best : Nat, lobbyError : BOOLEAN]

\* Only who is in the room is marked as gone, and only a room with an opponent is played in.
RowFits(r) ==
    /\ r \in Rows
    /\ r.gone \subseteq {r.creator, r.opponent} /\ "nobody" \notin r.gone
    /\ r.opponent = "nobody" => r.status \in {"waiting", "ended"}

TellsOf(f, r) ==
    /\ f.at <= r.at
    /\ ~r.quiet /\ f.at = r.at => f.list = Listed(r)

ShownList(h) == [at |-> h.last, list |-> h.rooms]

PageOf(h, r) ==
    /\ h \in Pages
    /\ \A i \in DOMAIN h.in : TellsOf(h.in[i], r)
    /\ TellsOf(h.answer, r) /\ TellsOf(ShownList(h), r)
    /\ h.last <= h.best /\ h.best <= r.at
    /\ h.socket = "down" => h.in = <<>>
    /\ h.page = "room" => h.socket = "down" /\ h.fetch = "none" /\ h.rooms = {}

TellersOf(ts, r) == ts \subseteq Tellers /\ \A t \in ts : TellsOf(t.found, r)

Reached(h, r) == h.best = r.at \/ \E i \in DOMAIN h.in : h.in[i].at = r.at
Coming(ts, r) == \E t \in ts : t.pc = "reads" \/ t.found.at = r.at

HomeInv ==
    /\ RowFits(row)
    /\ TellersOf(tellers, row)
    /\ PageOf(home, row)
    /\ home.socket = "up" => Reached(home, row) \/ Coming(tellers, row)

-----------------------------------------------------------------------------
(***************************************************************************)
(* Lists and the room.                                                     *)
(***************************************************************************)
LEMMA ReadsFit ==
    ASSUME NEW r \in Rows
    PROVE  /\ [at |-> r.at, list |-> Listed(r)] \in Lists
           /\ TellsOf([at |-> r.at, list |-> Listed(r)], r)
           /\ Unread \in Lists /\ TellsOf(Unread, r)
<1>1. r.at \in Nat /\ r.at > 0
  BY DEF Rows
<1>2. Listed(r) \in SUBSET Entries
  BY DEF Listed, Rows, Entries
<1> DEFINE list == Listed(r)
<1> HIDE DEF list
<1>3. /\ [at |-> r.at, list |-> list] \in Lists
      /\ (list = Listed(r) => TellsOf([at |-> r.at, list |-> list], r))
  BY <1>1, <1>2 DEF Lists, TellsOf, list
<1>4. Unread \in Lists /\ TellsOf(Unread, r)
  BY <1>1 DEF Unread, Lists, TellsOf
<1> QED BY <1>3, <1>4 DEF list

\* What was true of a list stays so when the room changes, quietly or not.
Later(r, s) ==
    \/ r.at < s.at
    \/ s.at = r.at /\ (s.quiet \/ (s.quiet = r.quiet /\ Listed(s) = Listed(r)))

LEMMA TellsLater ==
    ASSUME NEW r \in Rows, NEW s \in Rows, Later(r, s), NEW f \in Lists, TellsOf(f, r)
    PROVE  TellsOf(f, s)
<1>1. r.at \in Nat /\ s.at \in Nat /\ f.at \in Nat
  BY DEF Rows, Lists
<1> QED BY <1>1 DEF TellsOf, Later

LEMMA AllLater ==
    ASSUME NEW r \in Rows, NEW s \in Rows, Later(r, s)
    PROVE  /\ \A h : PageOf(h, r) => PageOf(h, s)
           /\ \A ts : TellersOf(ts, r) => TellersOf(ts, s)
<1>1. ASSUME NEW h, PageOf(h, r) PROVE PageOf(h, s)
  <2>1. /\ \A i \in DOMAIN h.in : h.in[i] \in Lists
        /\ h.answer \in Lists /\ ShownList(h) \in Lists /\ h.best \in Nat
    <3>1. h.in \in Seq(Lists) /\ h.answer \in Lists /\ h.best \in Nat
      BY <1>1 DEF PageOf, Pages
    <3>2. h.last \in Nat /\ h.rooms \in SUBSET Entries
      BY <1>1 DEF PageOf, Pages
    <3>3. ShownList(h) \in Lists
      BY <3>2 DEF ShownList, Lists
    <3> QED BY <3>1, <3>3
  <2>2. /\ \A i \in DOMAIN h.in : TellsOf(h.in[i], s)
        /\ TellsOf(h.answer, s) /\ TellsOf(ShownList(h), s)
    BY <1>1, <2>1, TellsLater DEF PageOf
  <2>3. h.best <= s.at
    BY <1>1, <2>1 DEF PageOf, Later, Rows
  <2> QED BY <1>1, <2>2, <2>3 DEF PageOf
<1>2. ASSUME NEW ts, TellersOf(ts, r) PROVE TellersOf(ts, s)
  <2>1. \A t \in ts : t.found \in Lists
    BY <1>2 DEF TellersOf, Tellers
  <2> QED BY <1>2, <2>1, TellsLater DEF TellersOf
<1> QED BY <1>1, <1>2

LEMMA TellerFits ==
    ASSUME NEW r \in Rows, NEW to \in {"all", "me"}, NEW id \in Nat
    PROVE  /\ Teller(to, id) \in Tellers /\ Teller(to, id).pc = "reads"
           /\ TellsOf(Teller(to, id).found, r)
BY ReadsFit DEF Teller, Tellers

-----------------------------------------------------------------------------
(***************************************************************************)
(* How the room may change.                                                *)
(***************************************************************************)
LEMMA SetFits ==
    ASSUME NEW r, RowFits(r), NEW status \in Statuses, NEW opponent \in Present, NEW gone,
           gone \subseteq {r.creator, opponent}, "nobody" \notin gone,
           opponent = "nobody" => status \in {"waiting", "ended"}
    PROVE  /\ RowFits(Set(r, status, opponent, gone))
           /\ Set(r, status, opponent, gone).at = r.at + 1
<1> DEFINE next == r.at + 1
           s == [r EXCEPT !.status = status, !.opponent = opponent, !.gone = gone, !.at = next]
<1>1. r \in Rows /\ next \in Nat \ {0} /\ gone \subseteq Creators \union Users
  BY DEF RowFits, Rows, Present
<1>2. Set(r, status, opponent, gone) = s
  BY DEF Set
<1> HIDE DEF next
<1>3. /\ s \in Rows /\ s.status = status /\ s.opponent = opponent /\ s.gone = gone
      /\ s.at = next /\ s.creator = r.creator
  BY <1>1 DEF Rows
<1> QED BY <1>2, <1>3 DEF RowFits, next

LEMMA ChangedFits ==
    ASSUME NEW r, RowFits(r), NEW s \in Changed(r)
    PROVE  RowFits(s) /\ s.at = r.at + 1
<1> DEFINE others == Users \ {r.creator}
           present == {r.creator, r.opponent} \ {"nobody"}
<1>1. /\ r.status \in Statuses /\ r.opponent \in Present /\ others \subseteq Present
      /\ r.gone \subseteq {r.creator, r.opponent} /\ "nobody" \notin r.gone
      /\ r.opponent = "nobody" => r.status \in {"waiting", "ended"}
      /\ {"waiting", "playing", "finished", "ended"} = Statuses /\ "nobody" \in Present
      /\ "nobody" \notin Users
  BY DEF RowFits, Rows, Present, Statuses, Users
<1>2. CASE \E u \in others : r.opponent = "nobody" /\ s = Set(r, "waiting", u, r.gone)
  <2>1. PICK u \in others : r.opponent = "nobody" /\ s = Set(r, "waiting", u, r.gone)
    BY <1>2
  <2>2. u \in Present /\ u # "nobody" /\ r.gone \subseteq {r.creator, u}
        /\ "waiting" \in Statuses
    BY <1>1, <2>1
  <2> HIDE DEF others
  <2> QED BY <1>1, <2>1, <2>2, SetFits
<1>3. CASE s = Set(r, "waiting", "nobody", r.gone \ {r.opponent})
  BY <1>1, <1>3, SetFits
<1>4. CASE \E u \in present : s = Set(r, r.status, r.opponent, r.gone \union {u})
  BY <1>1, <1>4, SetFits
<1>5. CASE \E u \in present : s = Set(r, r.status, r.opponent, r.gone \ {u})
  BY <1>1, <1>5, SetFits
<1>6. CASE r.opponent # "nobody" /\ s = Set(r, "playing", r.opponent, r.gone)
  BY <1>1, <1>6, SetFits
<1>7. CASE r.status = "playing" /\ s = Set(r, "finished", r.opponent, r.gone)
  BY <1>1, <1>7, SetFits
<1>8. CASE r.status = "finished" /\ s = Set(r, "playing", r.opponent, {})
  BY <1>1, <1>8, SetFits
<1>9. CASE s = Set(r, "ended", r.opponent, r.gone)
  BY <1>1, <1>9, SetFits
<1> HIDE DEF others, present
<1> QED BY <1>2, <1>3, <1>4, <1>5, <1>6, <1>7, <1>8, <1>9 DEF Changed, others, present

\* Counting a step or a request changes nothing of the room.
LEMMA CountFits ==
    ASSUME NEW r, RowFits(r), NEW n \in Nat
    PROVE  /\ RowFits([r EXCEPT !.steps = n]) /\ [r EXCEPT !.steps = n].at = r.at
           /\ Later(r, [r EXCEPT !.steps = n])
           /\ RowFits([r EXCEPT !.fetches = n]) /\ [r EXCEPT !.fetches = n].at = r.at
           /\ Later(r, [r EXCEPT !.fetches = n])
<1> DEFINE s == [r EXCEPT !.steps = n]
           f == [r EXCEPT !.fetches = n]
<1>1. r \in Rows
  BY DEF RowFits
<1>2. /\ s \in Rows /\ s.status = r.status /\ s.creator = r.creator /\ s.opponent = r.opponent
      /\ s.gone = r.gone /\ s.at = r.at /\ s.quiet = r.quiet
  BY <1>1 DEF Rows
<1>3. /\ f \in Rows /\ f.status = r.status /\ f.creator = r.creator /\ f.opponent = r.opponent
      /\ f.gone = r.gone /\ f.at = r.at /\ f.quiet = r.quiet
  BY <1>1 DEF Rows
<1> HIDE DEF s, f
<1>4. RowFits(s) /\ RowFits(f)
  BY <1>2, <1>3 DEF RowFits
<1>5. Later(r, s) /\ Later(r, f)
  BY <1>2, <1>3 DEF Later, Listed
<1> QED BY <1>2, <1>3, <1>4, <1>5 DEF s, f

-----------------------------------------------------------------------------
(***************************************************************************)
(* The page.                                                               *)
(***************************************************************************)
LEMMA NewPageFits ==
    ASSUME NEW r, RowFits(r)
    PROVE  /\ PageOf(NewPage(r), r) /\ PageOf(Leaves(r), r)
           /\ NewPage(r).socket = "down" /\ Leaves(r).socket = "down"
<1>1. r \in Rows /\ r.at \in Nat
  BY DEF RowFits, Rows
<1>2. Unread \in Lists /\ TellsOf(Unread, r)
  BY <1>1, ReadsFit
<1> DEFINE h == [page |-> "home", socket |-> "down", in |-> <<>>, fetch |-> "none",
                 answer |-> Unread, rooms |-> {}, last |-> 0, best |-> 0, lobbyError |-> FALSE]
           g == [h EXCEPT !.page = "room"]
<1>3. /\ h \in Pages /\ ShownList(h) = Unread
      /\ g \in Pages /\ ShownList(g) = Unread
  <2>1. ShownList(h) = Unread /\ ShownList(g) = Unread
    BY DEF ShownList, Unread
  <2>3. <<>> \in Seq(Lists)
    OBVIOUS
  <2>4. h \in Pages
    BY <1>2, <2>3 DEF Pages
  <2> HIDE DEF h
  <2>2. h \in Pages /\ g \in Pages
    BY <2>4 DEF Pages
  <2> QED BY <2>1, <2>2
<1>4. PageOf(h, r) /\ PageOf(g, r)
  BY <1>1, <1>2, <1>3 DEF PageOf
<1> QED BY <1>4 DEF NewPage, Leaves

LEMMA ShowsFits ==
    ASSUME NEW r, RowFits(r), NEW h, PageOf(h, r), h.page = "home",
           NEW f \in Lists, TellsOf(f, r)
    PROVE  /\ PageOf(ShowsList(h, f), r)
           /\ ShowsList(h, f).in = h.in /\ ShowsList(h, f).socket = h.socket
           /\ ShowsList(h, f).page = "home"
           /\ f.at = r.at \/ h.best = r.at => ShowsList(h, f).best = r.at
<1> DEFINE best == IF f.at > h.best THEN f.at ELSE h.best
           last == f.at
           rooms == f.list
           s == [h EXCEPT !.rooms = rooms, !.last = last, !.best = best]
<1>1. /\ h \in Pages /\ last \in Nat /\ best \in Nat /\ rooms \in SUBSET Entries
      /\ last <= best /\ best <= r.at /\ (f.at = r.at \/ h.best = r.at => best = r.at)
      /\ f = [at |-> last, list |-> rooms]
  BY DEF PageOf, Pages, Lists, TellsOf, RowFits, Rows
<1>2. ShowsList(h, f) = s
  BY <1>1 DEF ShowsList, sameRoomList, Pages
<1> HIDE DEF best, last, rooms
<1>3. /\ s \in Pages /\ s.in = h.in /\ s.socket = h.socket /\ s.page = h.page
      /\ s.answer = h.answer /\ s.fetch = h.fetch
      /\ s.last = last /\ s.best = best /\ s.rooms = rooms
  BY <1>1 DEF Pages
<1>4. TellsOf(ShownList(s), r)
  BY <1>1, <1>3 DEF ShownList
<1> QED BY <1>1, <1>2, <1>3, <1>4 DEF PageOf

LEMMA TellerSets ==
    ASSUME NEW r, NEW ts, TellersOf(ts, r)
    PROVE  /\ \A us : us \subseteq ts => TellersOf(us, r)
           /\ \A us, vs : TellersOf(us, r) /\ TellersOf(vs, r) => TellersOf(us \union vs, r)
BY DEF TellersOf

LEMMA JoinsTellers ==
    ASSUME NEW r, RowFits(r), NEW ts, TellersOf(ts, r), NEW to \in {"all", "me"}, NEW id \in Nat
    PROVE  /\ TellersOf(ts \union {Teller(to, id)}, r)
           /\ Coming(ts \union {Teller(to, id)}, r)
<1>1. /\ Teller(to, id) \in Tellers /\ Teller(to, id).pc = "reads"
      /\ TellsOf(Teller(to, id).found, r)
  BY TellerFits DEF RowFits
<1> QED BY <1>1 DEF TellersOf, Coming

-----------------------------------------------------------------------------
(***************************************************************************)
(* The invariant is inductive.                                             *)
(***************************************************************************)
LEMMA HomeInvInit == HomeInit => HomeInv
<1> SUFFICES ASSUME HomeInit PROVE HomeInv
  OBVIOUS
<1>1. row \in [status : {"waiting"}, creator : Creators, opponent : {"nobody"},
                gone : {{}}, at : {1}, quiet : {FALSE}, steps : {0}, fetches : {0}]
  BY DEF HomeInit
<1>2. row \in Rows /\ row.gone = {} /\ row.status = "waiting"
  <2>1. row = [status |-> "waiting", creator |-> row.creator, opponent |-> "nobody", gone |-> {},
               at |-> 1, quiet |-> FALSE, steps |-> 0, fetches |-> 0]
        /\ row.creator \in Creators
    BY <1>1
  <2> DEFINE c == row.creator
  <2> HIDE DEF c
  <2>2. row = [status |-> "waiting", creator |-> c, opponent |-> "nobody", gone |-> {},
               at |-> 1, quiet |-> FALSE, steps |-> 0, fetches |-> 0]
        /\ c \in Creators
    BY <2>1 DEF c
  <2> QED BY <2>2 DEF Rows, Statuses, Present
<1>3. RowFits(row)
  BY <1>2 DEF RowFits
<1>4. PageOf(home, row) /\ home.socket = "down"
  BY <1>3, NewPageFits DEF HomeInit
<1>5. TellersOf(tellers, row)
  BY DEF HomeInit, TellersOf
<1> QED BY <1>3, <1>4, <1>5 DEF HomeInv

LEMMA RoomStep ==
    ASSUME HomeInv, RoomChanges \/ ExpiresUntold
    PROVE  HomeInv'
<1>1. CASE RoomChanges
  <2>1. PICK r \in Changed(row) : ChangesTo(r)
    BY <1>1 DEF RoomChanges
  <2>2. RowFits(r) /\ r.at = row.at + 1
    BY <2>1, ChangedFits DEF HomeInv
  <2>3. row.at \in Nat /\ r.at \in Nat /\ r.steps \in Nat /\ row.steps \in Nat
    BY <2>2 DEF HomeInv, RowFits, Rows
  <2>4. row' = [r EXCEPT !.steps = r.steps + 1] /\ tellers' = tellers \union {Teller("all", r.at)}
        /\ home' = home
    BY <1>1, <2>1 DEF RoomChanges, ChangesTo
  <2>5. RowFits(row') /\ row'.at = r.at
    <3>1. r.steps + 1 \in Nat
      BY <2>3
    <3> QED BY <2>2, <2>4, <3>1, CountFits
  <2>6. Later(row, row')
    BY <2>2, <2>3, <2>5 DEF Later
  <2>7. PageOf(home, row') /\ TellersOf(tellers, row')
    BY <2>5, <2>6, AllLater DEF HomeInv, RowFits
  <2>8. TellersOf(tellers', row') /\ Coming(tellers', row')
    BY <2>3, <2>4, <2>5, <2>7, JoinsTellers
  <2> QED BY <2>4, <2>5, <2>7, <2>8 DEF HomeInv
<1>2. CASE ExpiresUntold
  <2>1. /\ row' = [row EXCEPT !.status = "ended", !.quiet = TRUE]
        /\ tellers' = tellers /\ home' = home
    BY <1>2 DEF ExpiresUntold
  <2>2. /\ row' \in Rows /\ row'.status = "ended" /\ row'.at = row.at /\ row'.quiet
        /\ row'.creator = row.creator /\ row'.opponent = row.opponent /\ row'.gone = row.gone
    BY <2>1 DEF HomeInv, RowFits, Rows, Statuses
  <2>3. RowFits(row') /\ Later(row, row')
    BY <2>2 DEF HomeInv, RowFits, Later
  <2>4. PageOf(home, row') /\ TellersOf(tellers, row')
    BY <2>2, <2>3, AllLater DEF HomeInv, RowFits
  <2> QED BY <2>1, <2>2, <2>3, <2>4 DEF HomeInv, Reached, Coming
<1> QED BY <1>1, <1>2

LEMMA ReadStep ==
    ASSUME HomeInv, NEW t \in tellers, ListPublicRooms(t)
    PROVE  HomeInv'
<1> DEFINE u == [t EXCEPT !.pc = "tells", !.found = ReadList]
<1>1. row \in Rows /\ t \in Tellers
  BY DEF HomeInv, RowFits, TellersOf
<1>2. ReadList \in Lists /\ TellsOf(ReadList, row) /\ ReadList.at = row.at
  BY <1>1, ReadsFit DEF ReadList
<1>3. u \in Tellers /\ u.found = ReadList
  BY <1>1, <1>2 DEF Tellers
<1>4. /\ tellers' = (tellers \ {t}) \union {u} /\ row' = row /\ home' = home
  BY DEF ListPublicRooms
<1> HIDE DEF u
<1>5. TellersOf(tellers', row) /\ Coming(tellers', row)
  BY <1>2, <1>3, <1>4 DEF HomeInv, TellersOf, Coming
<1> QED BY <1>4, <1>5 DEF HomeInv

LEMMA PublishStep ==
    ASSUME HomeInv, NEW t \in tellers, Publish(t)
    PROVE  HomeInv'
<1>1. t \in Tellers /\ TellsOf(t.found, row) /\ t.found \in Lists /\ home \in Pages
  BY DEF HomeInv, TellersOf, PageOf, Tellers
<1>2. tellers' = tellers \ {t} /\ row' = row /\ t.pc = "tells"
  BY DEF Publish
<1>3. TellersOf(tellers', row)
  BY <1>2 DEF HomeInv, TellersOf
<1>4. CASE home.socket # "up"
  <2>1. home' = home
    BY <1>4 DEF Publish
  <2> QED BY <1>2, <1>3, <1>4, <2>1 DEF HomeInv
<1>5. CASE home.socket = "up"
  <2> DEFINE in == Append(home.in, t.found)
  <2>1. /\ in \in Seq(Lists) /\ home.in \in Seq(Lists) /\ Len(home.in) \in Nat
        /\ DOMAIN home.in = 1 .. Len(home.in) /\ DOMAIN in = 1 .. Len(home.in) + 1
        /\ \A i \in DOMAIN home.in : in[i] = home.in[i]
        /\ in[Len(home.in) + 1] = t.found
    BY <1>1 DEF Pages
  <2>2. DOMAIN in = DOMAIN home.in \union {Len(home.in) + 1}
    BY <2>1
  <2>3. home' = [home EXCEPT !.in = in]
    BY <1>5 DEF Publish
  <2> HIDE DEF in
  <2>4. /\ home' \in Pages /\ home'.in = in /\ home'.page = home.page
        /\ home'.socket = home.socket /\ home'.fetch = home.fetch /\ home'.answer = home.answer
        /\ home'.rooms = home.rooms /\ home'.last = home.last /\ home'.best = home.best
    BY <1>1, <2>1, <2>3 DEF Pages
  <2>5. \A i \in DOMAIN in : TellsOf(in[i], row)
    BY <1>1, <2>1, <2>2 DEF HomeInv, PageOf
  <2>6. PageOf(home', row)
    BY <1>5, <2>4, <2>5 DEF HomeInv, PageOf, ShownList
  <2>7. Reached(home', row) \/ Coming(tellers', row)
    <3>1. CASE Reached(home, row)
      BY <2>1, <2>2, <2>4, <3>1 DEF Reached
    <3>2. CASE t.found.at = row.at
      BY <2>1, <2>2, <2>4, <3>2 DEF Reached
    <3>3. CASE Coming(tellers, row) /\ t.found.at # row.at
      BY <1>2, <3>3 DEF Coming
    <3> QED BY <1>5, <3>1, <3>2, <3>3 DEF HomeInv
  <2> QED BY <1>2, <1>3, <2>6, <2>7 DEF HomeInv
<1> QED BY <1>4, <1>5

LEMMA SocketStep ==
    ASSUME HomeInv, connectRoomsWS \/ BreakSocket
    PROVE  HomeInv'
<1>1. home \in Pages /\ row.steps \in Nat /\ row.steps + 1 \in Nat /\ row \in Rows
  BY DEF HomeInv, PageOf, RowFits, Rows
<1>2. CASE connectRoomsWS
  <2>1. /\ home' = [home EXCEPT !.socket = "up"] /\ row' = row
        /\ tellers' = tellers \union {Teller("me", row.steps)}
        /\ home.page = "home"
    BY <1>2 DEF connectRoomsWS
  <2>2. /\ home' \in Pages /\ home'.in = home.in /\ home'.page = home.page
        /\ home'.socket = "up" /\ home'.fetch = home.fetch /\ home'.answer = home.answer
        /\ home'.rooms = home.rooms /\ home'.last = home.last /\ home'.best = home.best
    BY <1>1, <2>1 DEF Pages
  <2>3. PageOf(home', row)
    BY <2>1, <2>2 DEF HomeInv, PageOf, ShownList
  <2>4. TellersOf(tellers', row) /\ Coming(tellers', row)
    BY <1>1, <2>1, JoinsTellers DEF HomeInv
  <2> QED BY <2>1, <2>3, <2>4 DEF HomeInv
<1>3. CASE BreakSocket
  <2>1. /\ home' = [home EXCEPT !.socket = "down", !.in = <<>>]
        /\ row' = [row EXCEPT !.steps = row.steps + 1]
        /\ tellers' \subseteq tellers
    BY <1>3 DEF BreakSocket, WithoutSocket
  <2>2. RowFits(row') /\ Later(row, row')
    BY <1>1, <2>1, CountFits DEF HomeInv
  <2>3. /\ home' \in Pages /\ home'.in = <<>> /\ home'.page = home.page
        /\ home'.socket = "down" /\ home'.fetch = home.fetch /\ home'.answer = home.answer
        /\ home'.rooms = home.rooms /\ home'.last = home.last /\ home'.best = home.best
    <3>1. <<>> \in Seq(Lists)
      OBVIOUS
    <3> DEFINE none == <<>>
    <3>2. home' = [home EXCEPT !.socket = "down", !.in = none] /\ none \in Seq(Lists)
      BY <2>1, <3>1
    <3> HIDE DEF none
    <3>3. /\ home' \in Pages /\ home'.in = none /\ home'.page = home.page
          /\ home'.socket = "down" /\ home'.fetch = home.fetch /\ home'.answer = home.answer
          /\ home'.rooms = home.rooms /\ home'.last = home.last /\ home'.best = home.best
      BY <1>1, <3>2 DEF Pages
    <3> QED BY <3>3 DEF none
  <2>4. PageOf(home', row)
    BY <2>3 DEF HomeInv, PageOf, ShownList
  <2>5. PageOf(home', row') /\ TellersOf(tellers', row')
    BY <1>1, <2>1, <2>2, <2>4, AllLater, TellerSets DEF HomeInv, RowFits
  <2> QED BY <2>2, <2>3, <2>5 DEF HomeInv
<1> QED BY <1>2, <1>3

LEMMA ReceiveStep ==
    ASSUME HomeInv, Receive
    PROVE  HomeInv'
<1> DEFINE f == Head(home.in)
           h == ShowsList(home, f)
           in == Tail(home.in)
<1>1. /\ home \in Pages /\ home.in # <<>> /\ home.page = "home" /\ home.socket = "up"
  BY DEF HomeInv, PageOf, Receive, Pages
<1>2. /\ f \in Lists /\ f = home.in[1] /\ 1 \in DOMAIN home.in /\ in \in Seq(Lists)
      /\ \A i \in DOMAIN in : i + 1 \in DOMAIN home.in /\ in[i] = home.in[i + 1]
      /\ \A i \in DOMAIN home.in : i = 1 \/ (i - 1 \in DOMAIN in /\ in[i - 1] = home.in[i])
  <2>1. home.in \in Seq(Lists)
    BY <1>1 DEF Pages
  <2> QED BY <1>1, <2>1
<1>3. PageOf(h, row) /\ h.in = home.in /\ h.socket = "up" /\ h.page = "home"
      /\ (f.at = row.at \/ home.best = row.at => h.best = row.at)
  <2>1. TellsOf(f, row) /\ RowFits(row) /\ PageOf(home, row)
    BY <1>2 DEF HomeInv, PageOf
  <2> HIDE DEF f
  <2> QED BY <1>1, <1>2, <2>1, ShowsFits
<1>4. home' = [h EXCEPT !.in = in] /\ row' = row /\ tellers' = tellers
  <2>1. h.in = home.in
    BY <1>3
  <2> QED BY <2>1 DEF Receive
<1> HIDE DEF h, in
<1>5. /\ home' \in Pages /\ home'.in = in /\ home'.page = h.page
      /\ home'.socket = h.socket /\ home'.fetch = h.fetch /\ home'.answer = h.answer
      /\ home'.rooms = h.rooms /\ home'.last = h.last /\ home'.best = h.best
  <2>1. h \in Pages
    BY <1>3 DEF PageOf
  <2> QED BY <1>2, <1>4, <2>1 DEF Pages
<1>6. \A i \in DOMAIN in : TellsOf(in[i], row)
  BY <1>2 DEF HomeInv, PageOf
<1>7. PageOf(home', row)
  BY <1>3, <1>5, <1>6 DEF PageOf, ShownList
<1>8. Reached(home', row) \/ Coming(tellers, row)
  <2>1. CASE home.best = row.at \/ f.at = row.at
    BY <1>3, <1>5, <2>1 DEF Reached
  <2>2. ASSUME NEW i \in DOMAIN home.in, home.in[i].at = row.at, i # 1
        PROVE  Reached(home', row)
    BY <1>2, <1>5, <2>2 DEF Reached
  <2> QED BY <1>1, <1>2, <2>1, <2>2 DEF HomeInv, Reached
<1> QED BY <1>4, <1>7, <1>8 DEF HomeInv

LEMMA FetchStep ==
    ASSUME HomeInv, fetchRooms \/ FetchIsServed \/ FetchAnswered
    PROVE  HomeInv'
<1>1. home \in Pages /\ row \in Rows /\ RowFits(row) /\ PageOf(home, row)
  BY DEF HomeInv, PageOf, RowFits
<1>2. CASE fetchRooms
  <2> DEFINE n == row.fetches + 1
  <2>1. /\ home' = [home EXCEPT !.fetch = "asked"] /\ tellers' = tellers
        /\ row' = [row EXCEPT !.fetches = n] /\ n \in Nat /\ home.page = "home"
    BY <1>1, <1>2 DEF fetchRooms, Rows
  <2> HIDE DEF n
  <2>2. RowFits(row') /\ Later(row, row') /\ row'.at = row.at
    BY <1>1, <2>1, CountFits
  <2>3. /\ home' \in Pages /\ home'.in = home.in /\ home'.page = home.page
        /\ home'.socket = home.socket /\ home'.answer = home.answer
        /\ home'.rooms = home.rooms /\ home'.last = home.last /\ home'.best = home.best
    BY <1>1, <2>1 DEF Pages
  <2>4. PageOf(home', row)
    BY <1>1, <2>1, <2>3 DEF PageOf, ShownList
  <2>5. PageOf(home', row') /\ TellersOf(tellers', row')
    BY <1>1, <2>1, <2>2, <2>4, AllLater DEF HomeInv, RowFits
  <2> QED BY <2>1, <2>2, <2>3, <2>5 DEF HomeInv, Reached, Coming
<1>3. CASE FetchIsServed
  <2>1. /\ home' = [home EXCEPT !.fetch = "served", !.answer = ReadList]
        /\ row' = row /\ tellers' = tellers /\ home.page = "home"
    BY <1>1, <1>3 DEF FetchIsServed, PageOf, Pages
  <2>2. ReadList \in Lists /\ TellsOf(ReadList, row)
    BY <1>1, ReadsFit DEF ReadList
  <2>3. /\ home' \in Pages /\ home'.in = home.in /\ home'.page = home.page
        /\ home'.socket = home.socket /\ home'.answer = ReadList
        /\ home'.rooms = home.rooms /\ home'.last = home.last /\ home'.best = home.best
    BY <1>1, <2>1, <2>2 DEF Pages
  <2>4. PageOf(home', row)
    BY <1>1, <2>1, <2>2, <2>3 DEF PageOf, ShownList
  <2> QED BY <2>1, <2>3, <2>4 DEF HomeInv, Reached
<1>4. CASE FetchAnswered
  <2> DEFINE h == ShowsList(home, home.answer)
  <2>1. row' = row /\ tellers' = tellers /\ home.page = "home"
    BY <1>1, <1>4 DEF FetchAnswered, PageOf, Pages
  <2>2. \/ home' = [h EXCEPT !.fetch = "none", !.answer = Unread]
        \/ home' = [home EXCEPT !.fetch = "none", !.answer = Unread]
    BY <1>4 DEF FetchAnswered
  <2>3. PageOf(h, row) /\ h.in = home.in /\ h.socket = home.socket /\ h.page = "home"
        /\ (home.best = row.at => h.best = row.at)
    <3>1. home.answer \in Lists /\ TellsOf(home.answer, row)
      BY <1>1 DEF PageOf, Pages
    <3> QED BY <1>1, <2>1, <3>1, ShowsFits
  <2> HIDE DEF h
  <2>4. ASSUME NEW g, PageOf(g, row), g.in = home.in, g.socket = home.socket, g.page = "home",
               home.best = row.at => g.best = row.at,
               home' = [g EXCEPT !.fetch = "none", !.answer = Unread]
        PROVE  HomeInv'
    <3>1. Unread \in Lists /\ TellsOf(Unread, row) /\ g \in Pages
      BY <1>1, <2>4, ReadsFit DEF PageOf
    <3>2. /\ home' \in Pages /\ home'.in = g.in /\ home'.page = g.page
          /\ home'.socket = g.socket /\ home'.fetch = "none" /\ home'.answer = Unread
          /\ home'.rooms = g.rooms /\ home'.last = g.last /\ home'.best = g.best
      BY <2>4, <3>1 DEF Pages
    <3>3. PageOf(home', row)
      BY <2>4, <3>1, <3>2 DEF PageOf, ShownList
    <3> QED BY <2>1, <2>4, <3>2, <3>3 DEF HomeInv, Reached
  <2> QED BY <1>1, <2>1, <2>2, <2>3, <2>4
<1> QED BY <1>2, <1>3, <1>4

LEMMA VisitStep ==
    ASSUME HomeInv, JoinRoom \/ WatchRoom \/ Returns
    PROVE  HomeInv'
<1>1. /\ home \in Pages /\ row \in Rows /\ RowFits(row) /\ PageOf(home, row)
      /\ row.steps \in Nat /\ row.steps + 1 \in Nat /\ row.at \in Nat
  BY DEF HomeInv, PageOf, RowFits, Rows
<1>2. PageOf(NewPage(row), row) /\ PageOf(Leaves(row), row)
      /\ NewPage(row).socket = "down" /\ Leaves(row).socket = "down"
      /\ Leaves(home) = Leaves(row)
  BY <1>1, NewPageFits DEF Leaves
<1>3. CASE JoinRoom /\ home' = [home EXCEPT !.lobbyError = TRUE] /\ UNCHANGED <<row, tellers>>
  <2>1. /\ home' \in Pages /\ home'.in = home.in /\ home'.page = home.page
        /\ home'.socket = home.socket /\ home'.fetch = home.fetch /\ home'.answer = home.answer
        /\ home'.rooms = home.rooms /\ home'.last = home.last /\ home'.best = home.best
    BY <1>1, <1>3 DEF Pages
  <2>2. PageOf(home', row)
    BY <1>1, <2>1 DEF PageOf, ShownList
  <2> QED BY <1>3, <2>1, <2>2 DEF HomeInv, Reached
<1>4. CASE JoinRoom /\ home' = Leaves(home)
           /\ row' = [Set(row, "waiting", "me", row.gone) EXCEPT !.steps = @ + 1]
           /\ tellers' = WithoutSocket \union {Teller("all", row'.at)}
           /\ row.status = "waiting" /\ row.opponent = "nobody"
  <2> DEFINE s == Set(row, "waiting", "me", row.gone)
  <2>1. RowFits(s) /\ s.at = row.at + 1
    BY <1>1, <1>4, SetFits DEF RowFits, Rows, Statuses, Present, Users
  <2> DEFINE n == s.steps + 1
  <2>2. row' = [s EXCEPT !.steps = n]
    BY <1>4
  <2>8. n \in Nat
    BY <2>1 DEF RowFits, Rows
  <2> HIDE DEF s, n
  <2>3. RowFits(row') /\ row'.at = s.at
    BY <2>1, <2>2, <2>8, CountFits
  <2>4. Later(row, row') /\ row'.at \in Nat /\ row' \in Rows
    BY <1>1, <2>1, <2>3 DEF Later, RowFits, Rows
  <2>5. PageOf(home', row') /\ home'.socket = "down"
    BY <1>1, <1>2, <1>4, <2>4, AllLater
  <2>6. TellersOf(WithoutSocket, row')
    BY <1>1, <2>4, AllLater, TellerSets DEF HomeInv, WithoutSocket, TellersOf
  <2>7. TellersOf(tellers', row')
    BY <1>4, <2>3, <2>4, <2>6, JoinsTellers
  <2> QED BY <2>3, <2>5, <2>7 DEF HomeInv
<1>5. CASE WatchRoom
  <2>1. /\ home' = Leaves(home) /\ row' = row /\ tellers' \subseteq tellers
    BY <1>5 DEF WatchRoom, WithoutSocket
  <2> QED BY <1>2, <2>1, TellerSets DEF HomeInv
<1>6. CASE Returns
  <2>1. home' = NewPage(row) /\ row' = [row EXCEPT !.steps = row.steps + 1] /\ tellers' = tellers
    BY <1>6 DEF Returns
  <2>2. RowFits(row') /\ Later(row, row') /\ row' \in Rows
    BY <1>1, <2>1, CountFits DEF RowFits
  <2>3. PageOf(home', row') /\ TellersOf(tellers', row')
    BY <1>1, <1>2, <2>1, <2>2, AllLater DEF HomeInv
  <2> QED BY <1>2, <2>1, <2>2, <2>3 DEF HomeInv
<1> QED BY <1>3, <1>4, <1>5, <1>6 DEF JoinRoom

LEMMA HomeStep == HomeInv /\ [HomeNext]_homeVars => HomeInv'
<1> SUFFICES ASSUME HomeInv, [HomeNext]_homeVars PROVE HomeInv'
  OBVIOUS
<1>1. CASE UNCHANGED homeVars
  BY <1>1 DEF homeVars, HomeInv
<1> QED BY <1>1, RoomStep, ReadStep, PublishStep, SocketStep, ReceiveStep, FetchStep, VisitStep
        DEF HomeNext

LEMMA HomeInvariance == HomeSpec => []HomeInv
<1> QED BY HomeInvInit, HomeStep, PTL DEF HomeSpec

-----------------------------------------------------------------------------
\* The rows, the lists on the way and the page are of their types; a page that was left keeps
\* no socket (HomePage.tsx: the effect's clean-up).
THEOREM HomeTypes == HomeSpec => []HomeTypeOK
<1>1. HomeInv => HomeTypeOK
  BY DEF HomeInv, RowFits, Rows, Statuses, TellersOf, TellsOf, PageOf, HomeTypeOK
<1> QED BY <1>1, HomeInvariance, PTL

\* With its socket open and nothing on the way, the page shows the room as it is, unless the
\* lists crossed or the room expired untold (HandlePublicRoomsWS: subscribes, then sends).
THEOREM ListIsFresh == HomeSpec => []HomeIsFresh
<1>1. ASSUME HomeInv PROVE HomeIsFresh
  <2> SUFFICES ASSUME AtRest, ~row.quiet
               PROVE  home.best = row.at /\ (home.last = home.best => home.rooms = Listed(row))
    BY DEF HomeIsFresh
  <2>1. ~Coming(tellers, row) /\ DOMAIN home.in = {}
    BY DEF AtRest, Coming
  <2>2. home.best = row.at
    BY <1>1, <2>1 DEF AtRest, HomeInv, Reached
  <2>3. TellsOf(ShownList(home), row)
    BY <1>1 DEF HomeInv, PageOf
  <2> QED BY <2>2, <2>3 DEF TellsOf, ShownList
<1> QED BY <1>1, HomeInvariance, PTL

-----------------------------------------------------------------------------
(***************************************************************************)
(* TableMotion: the inductive invariant.                                   *)
(***************************************************************************)
BallTypes == [place : {"up", "sinking", "sunk"}, speed : Nat, down : Nat, overPocket : BOOLEAN]
TableTypes == [Balls -> BallTypes]

\* Only the cue ball is ever put over a pocket, and a ball that is not up does not roll.
Fits(t) ==
    /\ t \in TableTypes
    /\ \A b \in Balls : t[b].place # "up" => t[b].speed = 0
    /\ \A b \in Targets : ~t[b].overPocket

\* Nothing moves; of the balls only the cue ball, put over a pocket, may be on its way down.
Resting(t) ==
    /\ Fits(t)
    /\ \A b \in Balls : t[b].speed = 0
    /\ \A b \in Targets : t[b].place # "sinking"
    /\ t[White].place # "sunk"

\* The cue ball is down, or will be for lying over a pocket.
WhiteGoes(t) == t[White].overPocket \/ t[White].place # "up"

FellIn(b) == b \in shot.fell \/ shot.before[b].place = "sunk"

Reports == [balls : TableTypes, cueBallSunk : BOOLEAN, over : BOOLEAN, again : BOOLEAN]

LoopInv ==
    /\ loop \in [acc : Nat, wasAiming : BOOLEAN, running : BOOLEAN, ticks : Nat]
    /\ IF loop.running THEN loop.acc + Tick * loop.ticks < Tick + MaxFrameDelta /\ ~hud.shown
       ELSE loop.acc < Tick

ShotTypes ==
    /\ hud \in [set : BOOLEAN, shown : BOOLEAN, striking : BOOLEAN, shots : Nat]
    /\ shot \in [mine : BOOLEAN, before : TableTypes, fell : SUBSET Balls,
                 hashing : Seq(BOOLEAN), told : Seq(Reports), over : BOOLEAN, again : BOOLEAN]
    /\ Resting(shot.before)
    /\ shot.before[White].place # "up" => shot.hashing = <<>> /\ shot.told = <<>>

\* From the shot's message to the cue's contact.
StrikingInv ==
    hud.striking =>
        /\ hud.set /\ hud.shown /\ ~shot.over /\ ~shot.again
        /\ balls = shot.before
        /\ shot.fell = {} /\ shot.hashing = <<>> /\ shot.told = <<>>

\* While the balls move, what fell is what is not up.
MovingInv ==
    ~hud.set =>
        /\ ~hud.striking /\ ~shot.over /\ ~shot.again
        /\ shot.hashing = <<>> /\ shot.told = <<>>
        /\ shot.before[White].place = "up"
        /\ \A b \in Balls :
              /\ balls[b].place # "up" => FellIn(b)
              /\ balls[b].place = "up" => ~FellIn(b)

\* When they rest, a frame runs late or the cue never got to the ball.
RestingInv ==
    hud.set =>
        /\ Resting(balls)
        /\ loop.running => shot.again
        /\ ~hud.striking /\ ~shot.over =>
              \A b \in Targets : balls[b].place = "sunk" <=> FellIn(b)
        /\ ~hud.striking /\ shot.before[White].place = "up" /\ WhiteGoes(balls) =>
              White \in shot.fell
        /\ shot.before[White].place # "up" /\ ~shot.over => hud.shown

\* What will be told, and what has been.
HashingInv ==
    shot.told = <<>> /\ shot.hashing # <<>> /\ ~shot.again /\ ~shot.over =>
        /\ balls[White].place = "up"
        /\ Head(shot.hashing) <=> White \in shot.fell

ToldInv ==
    \A i \in DOMAIN shot.told :
        LET r == shot.told[i] IN
        /\ Resting(r.balls)
        /\ WhiteGoes(r.balls) => White \in shot.fell
        /\ ~r.over /\ ~r.again =>
              /\ r.balls[White].place = "up"
              /\ \A b \in Targets : r.balls[b].place = "sunk" <=> FellIn(b)
              /\ r.cueBallSunk <=> White \in shot.fell

TableInv ==
    /\ Fits(balls) /\ LoopInv /\ ShotTypes
    /\ StrikingInv /\ MovingInv /\ RestingInv /\ HashingInv /\ ToldInv

-----------------------------------------------------------------------------
(***************************************************************************)
(* What a tick may do to the balls.                                        *)
(***************************************************************************)
\* One ball, before a tick and after.
TickOf(x, y) ==
    /\ y.place = "up" => x.place = "up" /\ ~x.overPocket
    /\ y.place = "sunk" => x.place # "up"
    /\ x.place = "sunk" => y.place = "sunk"
    /\ y.place # "up" => y.speed = 0
    /\ y.overPocket => x.overPocket /\ y.place # "up"

LEMMA StillIs ==
    ASSUME NEW place \in {"up", "sinking", "sunk"}, NEW over \in BOOLEAN
    PROVE  /\ Still \in BallTypes /\ Still.speed = 0 /\ Still.place = "up" /\ ~Still.overPocket
           /\ [Still EXCEPT !.place = place] \in BallTypes
           /\ [Still EXCEPT !.place = place].place = place
           /\ [Still EXCEPT !.place = place].speed = 0
           /\ [Still EXCEPT !.place = place].overPocket = FALSE
           /\ [Still EXCEPT !.overPocket = over] \in BallTypes
           /\ [Still EXCEPT !.overPocket = over].place = "up"
           /\ [Still EXCEPT !.overPocket = over].speed = 0
           /\ [Still EXCEPT !.overPocket = over].overPocket = over
BY DEF Still, BallTypes

LEMMA MovedFits ==
    ASSUME NEW x \in BallTypes, x.place # "up" => x.speed = 0, NEW y \in Moved(x)
    PROVE  /\ y \in BallTypes /\ TickOf(x, y)
           /\ y.place = "up" => y.speed <= x.speed
           /\ x.place = "up" /\ ~x.overPocket /\ x.speed = 0 => y.place = "up"
<1>1. /\ beginSinking(x) \in BallTypes /\ beginSinking(x).place = "sinking"
      /\ beginSinking(x).speed = 0 /\ ~beginSinking(x).overPocket
  BY StillIs DEF beginSinking
<1>2. CASE x.place = "sunk"
  BY <1>2 DEF Moved, TickOf
<1>3. CASE x.place = "sinking"
  <2> DEFINE down == x.down + 1
  <2>1. y = updateSinkingBall(x)
    BY <1>3 DEF Moved
  <2>2. y = [x EXCEPT !.down = down] \/ y = [Still EXCEPT !.place = "sunk"]
    BY <2>1 DEF updateSinkingBall
  <2>3. down \in Nat
    BY DEF BallTypes
  <2> HIDE DEF down
  <2>4. CASE y = [x EXCEPT !.down = down]
    <3>1. /\ y \in BallTypes /\ y.place = x.place /\ y.speed = x.speed
          /\ y.overPocket = x.overPocket
      BY <2>3, <2>4 DEF BallTypes
    <3> QED BY <1>3, <3>1 DEF TickOf
  <2>5. CASE y = [Still EXCEPT !.place = "sunk"]
    BY <1>3, <2>5, StillIs DEF TickOf
  <2> QED BY <2>2, <2>4, <2>5
<1>4. CASE x.place = "up" /\ x.overPocket
  <2>1. y = beginSinking(x)
    BY <1>4 DEF Moved
  <2> QED BY <1>1, <1>4, <2>1 DEF TickOf
<1>5. CASE x.place = "up" /\ ~x.overPocket
  <2>1. \/ \E s \in 0 .. x.speed : y = [x EXCEPT !.speed = s]
        \/ x.speed > 0 /\ y = beginSinking(x)
    BY <1>5 DEF Moved
  <2>2. ASSUME NEW s \in 0 .. x.speed, y = [x EXCEPT !.speed = s]
        PROVE  /\ y \in BallTypes /\ y.place = "up" /\ y.speed = s
               /\ y.overPocket = x.overPocket /\ s \in Nat /\ s <= x.speed
    <3>1. s \in Nat /\ s <= x.speed
      BY <2>2 DEF BallTypes
    <3> QED BY <1>5, <2>2, <3>1 DEF BallTypes
  <2>3. CASE \E s \in 0 .. x.speed : y = [x EXCEPT !.speed = s]
    BY <1>5, <2>2, <2>3 DEF TickOf
  <2>4. CASE x.speed > 0 /\ y = beginSinking(x)
    BY <1>1, <1>5, <2>4 DEF TickOf
  <2> QED BY <2>1, <2>3, <2>4
<1> QED BY <1>2, <1>3, <1>4, <1>5 DEF BallTypes

\* Two balls that are up meet, and share their speeds anew.
Meet(t, p, q, s, u) ==
    /\ p # q /\ t[p].place = "up" /\ t[q].place = "up"
    /\ s <= t[p].speed + t[q].speed
    /\ u = [t EXCEPT ![p].speed = s, ![q].speed = t[p].speed + t[q].speed - s]

LEMMA Meeting ==
    ASSUME NEW t, NEW u \in Collided(t), u # t
    PROVE  \E p \in Balls, q \in Balls, s \in 0 .. MaxSpeed : Meet(t, p, q, s, u)
<1>1. PICK m \in Balls \X Balls \X (0 .. MaxSpeed) :
            /\ m[1] # m[2] /\ t[m[1]].place = "up" /\ t[m[2]].place = "up"
            /\ m[3] <= t[m[1]].speed + t[m[2]].speed
            /\ u = [t EXCEPT ![m[1]].speed = m[3],
                             ![m[2]].speed = t[m[1]].speed + t[m[2]].speed - m[3]]
  BY DEF Collided
<1>2. m[1] \in Balls /\ m[2] \in Balls /\ m[3] \in 0 .. MaxSpeed
  BY <1>1
<1> QED BY <1>1, <1>2 DEF Meet

\* Balls that meet change their speeds alone, and those that rest do not.
LEMMA CollidedFits ==
    ASSUME NEW t \in TableTypes, NEW u \in Collided(t), NEW b \in Balls
    PROVE  /\ u \in TableTypes
           /\ u[b].place = t[b].place /\ u[b].overPocket = t[b].overPocket
           /\ t[b].place # "up" => u[b].speed = t[b].speed
           /\ (\A c \in Balls : t[c].speed = 0) => u[b].speed = 0
<1>1. CASE u = t
  BY <1>1
<1>2. CASE u # t
  <2>1. PICK p \in Balls, q \in Balls, s \in 0 .. MaxSpeed : Meet(t, p, q, s, u)
    BY <1>2, Meeting
  <2> DEFINE left == t[p].speed + t[q].speed - s
             x == [t[p] EXCEPT !.speed = s]
             y == [t[q] EXCEPT !.speed = left]
  <2>2. /\ t[p] \in BallTypes /\ t[q] \in BallTypes /\ t[p].speed \in Nat /\ t[q].speed \in Nat
    BY DEF TableTypes, BallTypes
  <2>3. s \in Nat /\ left \in Nat /\ (t[p].speed = 0 /\ t[q].speed = 0 => s = 0 /\ left = 0)
    BY <2>1, <2>2, TableAssumption DEF Meet
  <2> HIDE DEF left
  <2>4. /\ x \in BallTypes /\ x.place = t[p].place /\ x.overPocket = t[p].overPocket /\ x.speed = s
        /\ y \in BallTypes /\ y.place = t[q].place /\ y.overPocket = t[q].overPocket
        /\ y.speed = left
    BY <2>2, <2>3 DEF BallTypes
  <2>5. u = [t EXCEPT ![p] = x, ![q] = y]
    BY <2>1 DEF left, Meet, TableTypes
  <2> HIDE DEF x, y
  <2>6. u \in TableTypes /\ u[p] = x /\ u[q] = y /\ (b # p /\ b # q => u[b] = t[b])
    BY <2>1, <2>4, <2>5 DEF Meet, TableTypes
  <2> QED BY <2>1, <2>3, <2>4, <2>6 DEF Meet
<1> QED BY <1>1, <1>2

LEMMA StepFits ==
    ASSUME NEW t, Fits(t), NEW u \in stepSimulation(t)
    PROVE  /\ Fits(u) /\ \A b \in Balls : TickOf(t[b], u[b])
           /\ Resting(t) => /\ \A b \in Balls : u[b].speed = 0
                            /\ \A b \in Targets : u[b].place = t[b].place
                            /\ ~WhiteGoes(t) => u[White].place = "up"
<1>1. PICK v \in [Balls -> UNION {Moved(t[b]) : b \in Balls}] :
            (\A b \in Balls : v[b] \in Moved(t[b])) /\ u \in Collided(v)
  BY DEF stepSimulation
<1>2. ASSUME NEW b \in Balls
      PROVE  /\ v[b] \in BallTypes /\ TickOf(t[b], v[b])
             /\ v[b].place = "up" => v[b].speed <= t[b].speed
             /\ t[b].place = "up" /\ ~t[b].overPocket /\ t[b].speed = 0 => v[b].place = "up"
  <2>1. t[b] \in BallTypes /\ (t[b].place # "up" => t[b].speed = 0) /\ v[b] \in Moved(t[b])
    BY <1>1 DEF Fits, TableTypes
  <2> QED BY <2>1, MovedFits
<1>3. v \in TableTypes
  BY <1>1, <1>2 DEF TableTypes
<1>4. ASSUME NEW b \in Balls
      PROVE  /\ u[b].place = v[b].place /\ u[b].overPocket = v[b].overPocket
             /\ v[b].place # "up" => u[b].speed = v[b].speed
             /\ (\A c \in Balls : v[c].speed = 0) => u[b].speed = 0
  BY <1>1, <1>3, CollidedFits
<1>5. u \in TableTypes
  <2>1. White \in Balls
    BY DEF Balls
  <2> QED BY <1>1, <1>3, <2>1, CollidedFits
<1>6. ASSUME NEW b \in Balls PROVE TickOf(t[b], u[b])
  BY <1>2, <1>4 DEF TickOf
<1>7. Fits(u)
  BY <1>5, <1>6 DEF Fits, TickOf, Balls
<1>8. ASSUME Resting(t)
      PROVE  /\ \A b \in Balls : u[b].speed = 0
             /\ \A b \in Targets : u[b].place = t[b].place
             /\ ~WhiteGoes(t) => u[White].place = "up"
  <2>1. ASSUME NEW b \in Balls PROVE v[b].speed = 0
    <3>1. t[b].speed = 0 /\ v[b].speed \in Nat
      BY <1>2, <1>8 DEF Resting, BallTypes
    <3> QED BY <1>2, <3>1 DEF TickOf
  <2>2. \A b \in Balls : u[b].speed = 0
    BY <1>4, <2>1
  <2>3. ASSUME NEW b \in Targets PROVE u[b].place = t[b].place
    <3>1. /\ b \in Balls /\ t[b].place \in {"up", "sunk"} /\ ~t[b].overPocket /\ t[b].speed = 0
      BY <1>8 DEF Resting, Fits, TableTypes, BallTypes, Balls
    <3> QED BY <1>2, <1>4, <3>1 DEF TickOf
  <2>4. ~WhiteGoes(t) => u[White].place = "up"
    BY <1>2, <1>4, <1>8 DEF WhiteGoes, Resting, Balls
  <2> QED BY <2>2, <2>3, <2>4
<1> QED BY <1>6, <1>7, <1>8

\* When a tick leaves nothing moving, the table rests but for the cue ball, which comes back.
LEMMA RespawnedRests ==
    ASSUME NEW t, Fits(t), isStatic(t), NEW u \in Respawned(t)
    PROVE  /\ Resting(u)
           /\ \A b \in Targets : u[b] = t[b]
           /\ u[White].place = "up"
           /\ u[White].overPocket => t[White].overPocket \/ t[White].place = "sunk"
<1>1. White \in Balls /\ Targets \subseteq Balls
  BY DEF Balls
<1>2. CASE t[White].place # "sunk"
  <2>1. u = t
    BY <1>2 DEF Respawned
  <2>2. t[White].place = "up"
    BY <1>1, <1>2 DEF isStatic, Fits, TableTypes, BallTypes
  <2> QED BY <1>1, <1>2, <2>1, <2>2 DEF isStatic, Resting
<1>3. CASE t[White].place = "sunk"
  <2>1. PICK over \in BOOLEAN : u = [t EXCEPT ![White] = [Still EXCEPT !.overPocket = over]]
    BY <1>3 DEF Respawned
  <2> DEFINE w == [Still EXCEPT !.overPocket = over]
  <2>2. w \in BallTypes /\ w.place = "up" /\ w.speed = 0
    BY StillIs
  <2>3. u = [t EXCEPT ![White] = w]
    BY <2>1
  <2> HIDE DEF w
  <2>4. u \in TableTypes /\ u[White] = w /\ \A b \in Balls : b # White => u[b] = t[b]
    BY <1>1, <2>2, <2>3 DEF Fits, TableTypes
  <2>5. \A b \in Targets : u[b] = t[b]
    BY <1>1, <2>4, TableAssumption
  <2> QED BY <1>1, <1>3, <2>2, <2>4, <2>5 DEF Resting, Fits, isStatic
<1> QED BY <1>2, <1>3

LEMMA BareRests ==
    ASSUME NEW t, Resting(t)
    PROVE  /\ Resting(Bare(t)) /\ \A b \in Balls : Bare(t)[b].place = t[b].place
           /\ ~Bare(t)[White].overPocket
<1>1. White \in Balls /\ Targets \subseteq Balls /\ t \in TableTypes
  BY DEF Balls, Resting, Fits
<1>2. ASSUME NEW b \in Balls
      PROVE  /\ Bare(t)[b] \in BallTypes /\ Bare(t)[b].place = t[b].place
             /\ Bare(t)[b].speed = t[b].speed /\ Bare(t)[b].overPocket = FALSE
  <2>1. Bare(t)[b] = [t[b] EXCEPT !.overPocket = FALSE] /\ t[b] \in BallTypes
    BY <1>1 DEF Bare, TableTypes
  <2> QED BY <2>1 DEF BallTypes
<1>3. Bare(t) \in TableTypes
  BY <1>2 DEF Bare, TableTypes
<1> QED BY <1>1, <1>2, <1>3 DEF Resting, Fits

-----------------------------------------------------------------------------
(***************************************************************************)
(* The invariant is inductive.                                             *)
(***************************************************************************)
Huds == [set : BOOLEAN, shown : BOOLEAN, striking : BOOLEAN, shots : Nat]
Loops == [acc : Nat, wasAiming : BOOLEAN, running : BOOLEAN, ticks : Nat]
Shots == [mine : BOOLEAN, before : TableTypes, fell : SUBSET Balls, hashing : Seq(BOOLEAN),
          told : Seq(Reports), over : BOOLEAN, again : BOOLEAN]

LEMMA InitialTables ==
    /\ Resting(initBalls) /\ ~WhiteGoes(initBalls)
           /\ \A t \in Tables : Resting(t) /\ ~WhiteGoes(t)
<1>1. White \in Balls /\ Targets \subseteq Balls
  BY DEF Balls
<1>2. Resting(initBalls) /\ ~WhiteGoes(initBalls)
  BY <1>1, StillIs DEF initBalls, Resting, Fits, TableTypes, WhiteGoes
<1>3. ASSUME NEW t \in Tables PROVE Resting(t) /\ ~WhiteGoes(t)
  <2>1. PICK down \in SUBSET Targets :
            t = [b \in Balls |-> IF b \in down THEN [Still EXCEPT !.place = "sunk"]
                                 ELSE initBalls[b]]
    BY <1>3 DEF Tables
  <2> DEFINE sunk == [Still EXCEPT !.place = "sunk"]
  <2>2. sunk \in BallTypes /\ sunk.place = "sunk" /\ sunk.speed = 0 /\ ~sunk.overPocket
    BY StillIs
  <2>3. t = [b \in Balls |-> IF b \in down THEN sunk ELSE Still]
    BY <2>1 DEF initBalls
  <2> HIDE DEF sunk
  <2>4. White \notin down
    BY TableAssumption
  <2> QED BY <1>1, <2>2, <2>3, <2>4, StillIs DEF Resting, Fits, TableTypes, WhiteGoes
<1> QED BY <1>2, <1>3

LEMMA NoShotFits ==
    /\ NoShot \in Shots /\ NoShot.before = initBalls /\ NoShot.fell = {}
           /\ NoShot.hashing = <<>> /\ NoShot.told = <<>> /\ NoShot.over = TRUE
           /\ NoShot.again = FALSE
<1> DEFINE none == <<>>
           first == initBalls
<1>1. first \in TableTypes /\ none \in Seq(BOOLEAN) /\ none \in Seq(Reports)
  BY InitialTables DEF Resting, Fits
<1>2. NoShot = [mine |-> FALSE, before |-> first, fell |-> {}, hashing |-> none, told |-> none,
                over |-> TRUE, again |-> FALSE]
  BY DEF NoShot
<1> HIDE DEF none, first
<1>3. /\ NoShot \in Shots /\ NoShot.before = first /\ NoShot.fell = {}
      /\ NoShot.hashing = none /\ NoShot.told = none /\ NoShot.over = TRUE
      /\ NoShot.again = FALSE
  BY <1>1, <1>2 DEF Shots
<1> QED BY <1>3 DEF none, first

NewShot(mine, t) == [NoShot EXCEPT !.mine = mine, !.before = t, !.over = FALSE]

LEMMA NewShotFits ==
    ASSUME NEW mine \in BOOLEAN, NEW t, Resting(t)
    PROVE  /\ NewShot(mine, t) \in Shots /\ NewShot(mine, t).before = t
           /\ NewShot(mine, t).fell = {} /\ NewShot(mine, t).hashing = <<>>
           /\ NewShot(mine, t).told = <<>> /\ NewShot(mine, t).over = FALSE
           /\ NewShot(mine, t).again = FALSE
<1> DEFINE s == NewShot(mine, t)
<1>1. t \in TableTypes
  BY DEF Resting, Fits
<1>2. /\ s \in Shots /\ s.before = t /\ s.fell = NoShot.fell /\ s.hashing = NoShot.hashing
      /\ s.told = NoShot.told /\ s.over = FALSE /\ s.again = NoShot.again
  BY <1>1, NoShotFits DEF Shots, NewShot
<1> QED BY <1>2, NoShotFits

\* There is nothing to show of reports that were not made.
LEMMA NothingTold == shot.told = <<>> => ToldInv
<1> SUFFICES ASSUME shot.told = <<>> PROVE ToldInv
  OBVIOUS
<1>1. DOMAIN shot.told = {}
  OBVIOUS
<1> QED BY <1>1 DEF ToldInv

LEMMA TableInvInit == TableInit => TableInv
<1> SUFFICES ASSUME TableInit PROVE TableInv
  OBVIOUS
<1>1. Resting(balls) /\ ~WhiteGoes(balls) /\ Fits(balls)
  BY InitialTables DEF TableInit, Resting
<1>2. /\ hud = [set |-> TRUE, shown |-> TRUE, striking |-> FALSE, shots |-> 0]
      /\ loop = [acc |-> 0, wasAiming |-> TRUE, running |-> FALSE, ticks |-> 0]
  BY DEF TableInit
<1>3. /\ shot \in Shots /\ shot.before = initBalls /\ shot.fell = {} /\ shot.hashing = <<>>
      /\ shot.told = <<>> /\ shot.over = TRUE /\ shot.again = FALSE
  BY NoShotFits DEF TableInit
<1>4. LoopInv
  BY <1>2 DEF LoopInv, Tick
<1>5. ShotTypes
  BY <1>2, <1>3, InitialTables DEF ShotTypes, Shots
<1>6. RestingInv
  BY <1>1, <1>2, <1>3, InitialTables DEF RestingInv
<1>7. StrikingInv /\ MovingInv /\ HashingInv
  BY <1>2, <1>3 DEF StrikingInv, MovingInv, HashingInv
<1> QED BY <1>1, <1>3, <1>4, <1>5, <1>6, <1>7, NothingTold DEF TableInv

LEMMA beginShotStep ==
    ASSUME TableInv, beginShot
    PROVE  TableInv'
<1> DEFINE shots == hud.shots + 1
<1>1. /\ hud.set /\ hud.shown /\ ~loop.running /\ hud \in Huds /\ Resting(balls)
      /\ balls' = balls /\ loop' = loop /\ shots \in Nat
      /\ hud' = [hud EXCEPT !.striking = TRUE, !.shots = shots]
  BY DEF beginShot, Between, TableInv, ShotTypes, RestingInv, Huds
<1> HIDE DEF shots
<1>2. /\ hud' \in Huds /\ hud'.set /\ hud'.shown
  BY <1>1 DEF Huds
<1>3. /\ shot' \in Shots /\ shot'.before = balls /\ shot'.fell = {} /\ shot'.hashing = <<>>
      /\ shot'.told = <<>> /\ shot'.over = FALSE /\ shot'.again = FALSE
  <2>1. PICK mine \in BOOLEAN : shot' = NewShot(mine, balls)
    BY DEF beginShot, NewShot
  <2> QED BY <1>1, <2>1, NewShotFits
<1>4. LoopInv'
  BY <1>1, <1>2 DEF TableInv, LoopInv
<1>5. ShotTypes'
  BY <1>1, <1>2, <1>3 DEF ShotTypes, Huds, Shots
<1>6. RestingInv'
  BY <1>1, <1>2, <1>3 DEF RestingInv, Huds
<1>7. StrikingInv' /\ MovingInv' /\ HashingInv'
  BY <1>1, <1>2, <1>3 DEF StrikingInv, MovingInv, HashingInv
<1>8. ToldInv'
  <2>1. DOMAIN shot'.told = {}
    BY <1>3
  <2> QED BY <2>1 DEF ToldInv
<1> QED BY <1>1, <1>4, <1>5, <1>6, <1>7, <1>8 DEF TableInv, Resting

LEMMA contactStep ==
    ASSUME TableInv, handleCueContact
    PROVE  TableInv'
<1>1. /\ hud.striking /\ hud.set /\ hud.shown /\ ~loop.running /\ hud \in Huds
      /\ Resting(balls) /\ balls = shot.before /\ ~shot.over /\ ~shot.again
      /\ shot.fell = {} /\ shot.hashing = <<>> /\ shot.told = <<>>
      /\ shot' = shot /\ loop' = loop
  BY DEF handleCueContact, Between, TableInv, ShotTypes, StrikingInv, RestingInv, Huds
<1>2. ASSUME NEW set \in BOOLEAN, hud' = [hud EXCEPT !.striking = FALSE, !.set = set]
      PROVE  hud' \in Huds /\ hud'.set = set /\ hud'.shown /\ ~hud'.striking
  BY <1>1, <1>2 DEF Huds
<1>5. ToldInv'
  <2>1. DOMAIN shot'.told = {}
    BY <1>1
  <2> QED BY <2>1 DEF ToldInv
<1>3. CASE balls[White].place = "up"
  <2>1. PICK s \in 1 .. MaxSpeed : balls' = [balls EXCEPT ![White].speed = s]
    BY <1>3 DEF handleCueContact
  <2> DEFINE w == [balls[White] EXCEPT !.speed = s]
  <2>2. s \in Nat /\ White \in Balls /\ balls \in TableTypes /\ balls[White] \in BallTypes
    BY <1>1, <2>1, TableAssumption DEF Balls, Resting, Fits, TableTypes
  <2>3. w \in BallTypes /\ w.place = "up" /\ balls' = [balls EXCEPT ![White] = w]
    BY <1>3, <2>1, <2>2 DEF BallTypes
  <2> HIDE DEF w
  <2>4. /\ balls' \in TableTypes /\ balls'[White].place = "up"
        /\ \A b \in Balls : b # White => balls'[b] = balls[b]
    BY <2>2, <2>3 DEF TableTypes
  <2>5. Fits(balls')
    BY <1>1, <2>4, TableAssumption DEF Resting, Fits, Balls
  <2>6. hud' \in Huds /\ hud'.set = FALSE /\ hud'.shown /\ ~hud'.striking
    BY <1>2, <1>3 DEF handleCueContact
  <2>7. \A b \in Balls : balls'[b].place = balls[b].place /\ balls[b].place # "sinking"
    BY <1>1, <1>3, <2>4 DEF Resting, Fits, TableTypes, BallTypes, Balls
  <2>8. MovingInv'
    BY <1>1, <1>3, <2>2, <2>6, <2>7 DEF MovingInv, FellIn, TableTypes, BallTypes
  <2>9. LoopInv' /\ ShotTypes'
    BY <1>1, <2>6 DEF TableInv, LoopInv, ShotTypes, Huds
  <2>10. StrikingInv' /\ RestingInv' /\ HashingInv'
    BY <1>1, <2>6 DEF StrikingInv, RestingInv, HashingInv
  <2> QED BY <1>5, <2>5, <2>8, <2>9, <2>10 DEF TableInv
<1>4. CASE balls[White].place # "up"
  <2>1. balls' = balls /\ hud' = [hud EXCEPT !.striking = FALSE]
    BY <1>4 DEF handleCueContact
  <2>2. hud' \in Huds /\ hud'.set /\ hud'.shown /\ ~hud'.striking
    BY <1>1, <2>1 DEF Huds
  <2>3. LoopInv' /\ ShotTypes'
    BY <1>1, <2>2 DEF TableInv, LoopInv, ShotTypes, Huds
  <2>4. RestingInv'
    BY <1>1, <1>4, <2>1, <2>2 DEF RestingInv, FellIn
  <2>5. StrikingInv' /\ MovingInv' /\ HashingInv'
    BY <1>1, <2>2 DEF StrikingInv, MovingInv, HashingInv
  <2> QED BY <1>1, <1>5, <2>1, <2>3, <2>4, <2>5 DEF TableInv, Resting
<1> QED BY <1>3, <1>4

LEMMA frameStep ==
    ASSUME TableInv, NEW delta \in FrameDeltas, useFrame(delta)
    PROVE  TableInv'
<1> DEFINE again == shot.again \/ (hud.set /\ ~hud.shown)
           played == IF delta < MaxFrameDelta THEN delta ELSE MaxFrameDelta
           acc == (IF loop.wasAiming THEN 0 ELSE loop.acc) + played
<1>1. /\ ~loop.running /\ loop \in Loops /\ shot \in Shots /\ loop.acc < Tick /\ hud \in Huds
      /\ balls' = balls /\ hud' = hud /\ shot' = [shot EXCEPT !.again = again]
      /\ again \in BOOLEAN /\ (~shot.again /\ again => hud.set /\ ~hud.shown)
      /\ (shot.again => again)
  BY DEF useFrame, Between, TableInv, LoopInv, ShotTypes, Loops, Shots, Huds
<1>2. acc \in Nat /\ acc < Tick + MaxFrameDelta
  <2>1. delta \in Nat /\ MaxFrameDelta \in Nat /\ Tick \in Nat /\ Tick > 0
    BY TableAssumption DEF Tick
  <2>2. played \in Nat /\ played <= MaxFrameDelta
    BY <2>1
  <2> HIDE DEF played
  <2> QED BY <1>1, <2>1, <2>2 DEF Loops
<1> HIDE DEF again, acc
<1>3. /\ shot' \in Shots /\ shot'.again = again /\ shot'.over = shot.over
      /\ shot'.before = shot.before /\ shot'.fell = shot.fell /\ shot'.hashing = shot.hashing
      /\ shot'.told = shot.told
  BY <1>1 DEF Shots
<1>4. LoopInv' /\ (loop'.running => ~hud.shown)
  <2>1. CASE hud.shown
    <3>1. loop' = [loop EXCEPT !.acc = 0, !.wasAiming = TRUE]
      BY <2>1 DEF useFrame
    <3>2. loop' \in Loops /\ loop'.acc = 0 /\ ~loop'.running
      BY <1>1, <3>1 DEF Loops
    <3> QED BY <3>2 DEF LoopInv, Loops, Tick
  <2>2. CASE ~hud.shown
    <3>1. loop' = [loop EXCEPT !.acc = acc, !.wasAiming = FALSE, !.running = TRUE, !.ticks = 0]
      BY <2>2 DEF useFrame, acc
    <3>2. loop' \in Loops /\ loop'.acc = acc /\ loop'.running /\ loop'.ticks = 0
      BY <1>1, <1>2, <3>1 DEF Loops
    <3> QED BY <1>1, <1>2, <2>2, <3>2 DEF LoopInv, Loops, Tick
  <2> QED BY <2>1, <2>2
<1>5. ShotTypes'
  BY <1>1, <1>3 DEF TableInv, ShotTypes, Shots
<1>6. StrikingInv' /\ MovingInv'
  BY <1>1, <1>3 DEF TableInv, StrikingInv, MovingInv, FellIn
<1>7. RestingInv'
  <2>1. hud.set /\ ~hud.shown => again
    BY DEF again
  <2> QED BY <1>1, <1>3, <1>4, <2>1 DEF TableInv, RestingInv, FellIn
<1>8. HashingInv'
  BY <1>1, <1>3 DEF TableInv, HashingInv
<1>9. \A b : FellIn(b) <=> FellIn(b)'
  BY <1>3 DEF FellIn
<1>10. ToldInv'
  BY <1>3, <1>9 DEF TableInv, ToldInv
<1> QED BY <1>1, <1>4, <1>5, <1>6, <1>7, <1>8, <1>10 DEF TableInv

LEMMA FrameEndsStep ==
    ASSUME TableInv, FrameEnds
    PROVE  TableInv'
<1>1. /\ loop \in Loops /\ balls' = balls /\ hud' = hud /\ shot' = shot
      /\ loop' = [loop EXCEPT !.running = FALSE, !.ticks = 0]
      /\ loop.running /\ ~TicksOn(loop)
  BY DEF FrameEnds, TableInv, LoopInv, Loops
<1>2. loop' \in Loops /\ ~loop'.running /\ loop'.acc = loop.acc
  BY <1>1 DEF Loops
<1>3. loop.acc < Tick
  <2>1. /\ loop.acc \in Nat /\ loop.ticks \in Nat /\ TicksPerFrame \in Nat
        /\ loop.acc + Tick * loop.ticks < Tick + TicksPerFrame * Tick
    <3>1. loop.acc \in Nat /\ loop.ticks \in Nat /\ loop.acc + Tick * loop.ticks < Tick + MaxFrameDelta
      BY <1>1 DEF TableInv, LoopInv, Loops
    <3> QED BY <3>1, TableAssumption DEF Tick
  <2>2. loop.acc < Tick \/ loop.ticks >= TicksPerFrame
    BY <1>1, <2>1 DEF TicksOn, Tick
  <2> QED BY <2>1, <2>2 DEF Tick
<1>4. LoopInv'
  BY <1>1, <1>2, <1>3 DEF LoopInv, Loops
<1>5. ShotTypes' /\ StrikingInv' /\ MovingInv' /\ HashingInv'
  BY <1>1 DEF TableInv, ShotTypes, StrikingInv, MovingInv, HashingInv, FellIn
<1>6. RestingInv'
  BY <1>1, <1>2 DEF TableInv, RestingInv, FellIn
<1>7. ToldInv' /\ Fits(balls')
  BY <1>1 DEF TableInv, ToldInv, FellIn
<1> QED BY <1>1, <1>4, <1>5, <1>6, <1>7 DEF TableInv

LEMMA RenderStep ==
    ASSUME TableInv, RenderTable
    PROVE  TableInv'
<1>1. /\ hud \in Huds /\ balls' = balls /\ loop' = loop /\ shot' = shot
      /\ hud' = [hud EXCEPT !.shown = hud.set] /\ ~loop.running /\ hud.set # hud.shown
  BY DEF RenderTable, Between, TableInv, ShotTypes, Huds
<1>2. /\ hud' \in Huds /\ hud'.shown = hud.set /\ hud'.set = hud.set
      /\ hud'.striking = hud.striking /\ ~hud.striking
  BY <1>1 DEF Huds, TableInv, StrikingInv
<1>3. LoopInv' /\ ShotTypes'
  BY <1>1, <1>2 DEF TableInv, LoopInv, ShotTypes, Huds
<1>4. StrikingInv' /\ MovingInv' /\ HashingInv'
  BY <1>1, <1>2 DEF TableInv, StrikingInv, MovingInv, HashingInv, FellIn
<1>5. RestingInv'
  BY <1>1, <1>2 DEF TableInv, RestingInv, FellIn
<1>6. ToldInv' /\ Fits(balls')
  BY <1>1 DEF TableInv, ToldInv, FellIn
<1> QED BY <1>1, <1>3, <1>4, <1>5, <1>6 DEF TableInv

LEMMA ReportStep ==
    ASSUME TableInv, onShotResult
    PROVE  TableInv'
<1> DEFINE r == [balls |-> balls, cueBallSunk |-> Head(shot.hashing),
                 over |-> shot.over, again |-> shot.again]
           told == IF shot.told # <<>> THEN shot.told ELSE <<r>>
           hashing == Tail(shot.hashing)
<1>1. /\ ~loop.running /\ shot.hashing # <<>> /\ balls' = balls /\ loop' = loop /\ hud' = hud
      /\ shot \in Shots /\ balls \in TableTypes
      /\ shot' = [shot EXCEPT !.hashing = hashing, !.told = told]
  BY DEF onShotResult, Between, TableInv, ShotTypes, Shots, Fits
<1>2. /\ hud.set /\ ~hud.striking /\ shot.before[White].place = "up" /\ Resting(balls)
  BY <1>1 DEF TableInv, StrikingInv, MovingInv, ShotTypes, RestingInv
<1>3. hashing \in Seq(BOOLEAN) /\ Head(shot.hashing) \in BOOLEAN
  BY <1>1 DEF Shots
<1>4. r \in Reports /\ r.balls = balls /\ r.cueBallSunk = Head(shot.hashing)
      /\ r.over = shot.over /\ r.again = shot.again
  BY <1>1, <1>3 DEF Reports, Shots
<1> HIDE DEF r, hashing
<1>5. told \in Seq(Reports) /\ told # <<>>
  BY <1>1, <1>4 DEF Shots
<1>6. \A i \in DOMAIN told :
          \/ (shot.told # <<>> /\ told[i] = shot.told[i] /\ i \in DOMAIN shot.told)
          \/ (shot.told = <<>> /\ told[i] = r)
  <2>1. CASE shot.told # <<>>
    <3>1. told = shot.told
      BY <2>1
    <3> HIDE DEF told
    <3>2. ASSUME NEW i \in DOMAIN told PROVE told[i] = shot.told[i] /\ i \in DOMAIN shot.told
      BY <3>1, <3>2
    <3> QED BY <2>1, <3>2
  <2>2. CASE shot.told = <<>>
    <3>1. told = <<r>> /\ DOMAIN <<r>> = {1} /\ <<r>>[1] = r
      BY <2>2
    <3> HIDE DEF told
    <3> QED BY <2>2, <3>1
  <2> QED BY <2>1, <2>2
<1> HIDE DEF told
<1>7. /\ shot' \in Shots /\ shot'.before = shot.before /\ shot'.fell = shot.fell
      /\ shot'.hashing = hashing /\ shot'.told = told /\ shot'.over = shot.over
      /\ shot'.again = shot.again
  BY <1>1, <1>3, <1>5 DEF Shots
<1>8. \A b : FellIn(b) <=> FellIn(b)'
  BY <1>7 DEF FellIn
<1>9. ShotTypes' /\ LoopInv' /\ Fits(balls')
  BY <1>1, <1>2, <1>7 DEF TableInv, ShotTypes, LoopInv, Shots
<1>10. StrikingInv' /\ MovingInv' /\ HashingInv'
  BY <1>1, <1>2, <1>5, <1>7 DEF StrikingInv, MovingInv, HashingInv
<1>11. RestingInv'
  BY <1>1, <1>7, <1>8 DEF TableInv, RestingInv
<1>12. ToldInv'
  <2> SUFFICES ASSUME NEW i \in DOMAIN told
               PROVE  /\ Resting(told[i].balls)
                      /\ WhiteGoes(told[i].balls) => White \in shot.fell
                      /\ ~told[i].over /\ ~told[i].again =>
                            /\ told[i].balls[White].place = "up"
                            /\ \A b \in Targets : told[i].balls[b].place = "sunk" <=> FellIn(b)
                            /\ told[i].cueBallSunk <=> White \in shot.fell
    BY <1>7, <1>8 DEF ToldInv
  <2>1. CASE shot.told # <<>> /\ told[i] = shot.told[i] /\ i \in DOMAIN shot.told
    BY <2>1 DEF TableInv, ToldInv
  <2>2. CASE shot.told = <<>> /\ told[i] = r
    BY <1>1, <1>2, <1>4, <2>2 DEF TableInv, RestingInv, HashingInv
  <2> QED BY <1>6, <2>1, <2>2
<1> QED BY <1>9, <1>10, <1>11, <1>12 DEF TableInv

\* The lobby's snapshot brings a table at rest.
LEMMA ToldRests ==
    ASSUME TableInv, NEW t \in Told \union {shot.before}
    PROVE  /\ Resting(t)
           /\ shot.before[White].place = "up" /\ t[White].place # "up" => White \in shot.fell
<1>1. Resting(shot.before)
  BY DEF TableInv, ShotTypes
<1>2. CASE t = shot.before
  BY <1>1, <1>2
<1>3. CASE \E i \in DOMAIN shot.told : t = shot.told[i].balls
  BY <1>3 DEF TableInv, ToldInv, WhiteGoes
<1>4. CASE \E fallen \in SUBSET Targets :
              t = [b \in Balls |-> IF b \in fallen THEN [Still EXCEPT !.place = "sunk"]
                                   ELSE shot.before[b]]
  <2> DEFINE sunk == [Still EXCEPT !.place = "sunk"]
  <2>1. PICK fallen \in SUBSET Targets :
                t = [b \in Balls |-> IF b \in fallen THEN sunk ELSE shot.before[b]]
    BY <1>4
  <2>2. sunk \in BallTypes /\ sunk.place = "sunk" /\ sunk.speed = 0 /\ ~sunk.overPocket
    BY StillIs
  <2> HIDE DEF sunk
  <2>3. White \in Balls /\ Targets \subseteq Balls /\ White \notin fallen
    BY TableAssumption DEF Balls
  <2> QED BY <1>1, <2>1, <2>2, <2>3 DEF Resting, Fits, TableTypes
<1> QED BY <1>2, <1>3, <1>4 DEF Told

LEMMA AlignStep ==
    ASSUME TableInv, alignLocalBallsToSnapshot
    PROVE  TableInv'
<1>1. /\ ~loop.running /\ ~shot.over /\ hud \in Huds /\ shot \in Shots
      /\ hud' = [hud EXCEPT !.set = TRUE, !.striking = FALSE]
      /\ shot' = [shot EXCEPT !.over = TRUE] /\ loop' = loop
      /\ Resting(shot.before)
  BY DEF alignLocalBallsToSnapshot, Between, TableInv, ShotTypes, Shots, Huds
<1>2. /\ hud' \in Huds /\ hud'.set /\ ~hud'.striking
  BY <1>1 DEF Huds
<1>3. /\ shot' \in Shots /\ shot'.before = shot.before /\ shot'.fell = shot.fell
      /\ shot'.hashing = shot.hashing /\ shot'.told = shot.told /\ shot'.over
      /\ shot'.again = shot.again
  BY <1>1 DEF Shots
<1>4. PICK t \in Told \union {shot.before} : balls' = Bare(t)
  BY DEF alignLocalBallsToSnapshot
<1>5. Resting(t) /\ (shot.before[White].place = "up" /\ t[White].place # "up" => White \in shot.fell)
  BY <1>4, ToldRests
<1>6. /\ Resting(balls') /\ (WhiteGoes(balls') => t[White].place # "up")
  BY <1>4, <1>5, BareRests DEF WhiteGoes, Balls
<1>7. ShotTypes' /\ LoopInv' /\ Fits(balls')
  BY <1>1, <1>2, <1>3, <1>6 DEF TableInv, ShotTypes, LoopInv, Shots, Huds, Resting
<1>8. StrikingInv' /\ MovingInv' /\ HashingInv'
  BY <1>2, <1>3 DEF StrikingInv, MovingInv, HashingInv
<1>9. RestingInv'
  BY <1>1, <1>2, <1>3, <1>5, <1>6 DEF RestingInv
<1>10. \A b : FellIn(b) <=> FellIn(b)'
  BY <1>3 DEF FellIn
<1>11. ToldInv'
  BY <1>3, <1>10 DEF TableInv, ToldInv
<1> QED BY <1>7, <1>8, <1>9, <1>11 DEF TableInv

\* While the balls move, a tick keeps the account of what fell.
LEMMA TickCounts ==
    ASSUME TableInv, ~hud.set, NEW t \in stepSimulation(balls), NEW b \in Balls
    PROVE  /\ t[b].place # "up" => FellIn(b) \/ b \in Falling(t)
           /\ t[b].place = "up" => ~FellIn(b) /\ b \notin Falling(t)
<1>1. TickOf(balls[b], t[b]) /\ t[b] \in BallTypes
  BY StepFits DEF TableInv, Fits, TableTypes
<1>2. /\ balls[b].place # "up" => FellIn(b)
      /\ balls[b].place = "up" => ~FellIn(b)
  BY DEF TableInv, MovingInv
<1> QED BY <1>1, <1>2 DEF TickOf, Falling, BallTypes

LEMMA AppendFits ==
    ASSUME NEW S, NEW s \in Seq(S), NEW e \in S
    PROVE  /\ Append(s, e) \in Seq(S) /\ Append(s, e) # <<>>
           /\ s = <<>> => Head(Append(s, e)) = e
<1>1. /\ Append(s, e) \in Seq(S) /\ Len(Append(s, e)) = Len(s) + 1 /\ Len(s) \in Nat
      /\ Append(s, e)[Len(s) + 1] = e
  OBVIOUS
<1>2. Append(s, e) # <<>>
  BY <1>1
<1>3. s = <<>> => Head(Append(s, e)) = e
  BY <1>1
<1> QED BY <1>1, <1>2, <1>3

LEMMA StopStep ==
    ASSUME TableInv, Ticks,
           NEW t \in stepSimulation(balls), isStatic(t),
           loop' = [acc |-> 0, wasAiming |-> TRUE, running |-> FALSE, ticks |-> 0],
           hud' = [hud EXCEPT !.set = TRUE], handleSimulationStopped(t)
    PROVE  TableInv'
<1> DEFINE tells == shot.mine /\ ~shot.over /\ Len(shot.hashing) < 2
           sunk == t[White].place = "sunk"
           hashing == IF tells THEN Append(shot.hashing, sunk) ELSE shot.hashing
<1>1. /\ loop.running /\ ~hud.shown /\ ~hud.striking /\ hud \in Huds /\ shot \in Shots
      /\ White \in Balls /\ Targets \subseteq Balls
  BY DEF Ticks, TableInv, LoopInv, StrikingInv, ShotTypes, Huds, Shots, Balls
<1>2. /\ hud' \in Huds /\ hud'.set /\ ~hud'.striking /\ hud'.shown = hud.shown
  BY <1>1 DEF Huds
<1>3. /\ Fits(t) /\ \A b \in Balls : TickOf(balls[b], t[b]) /\ t[b].place \in {"up", "sunk"}
  BY StepFits DEF TableInv, isStatic, Fits, TableTypes, BallTypes
<1>4. Falling(t) = {}
  BY <1>3 DEF Falling
<1>5. /\ Resting(balls') /\ \A b \in Targets : balls'[b] = t[b]
      /\ balls'[White].place = "up"
      /\ balls'[White].overPocket => t[White].overPocket \/ t[White].place = "sunk"
  BY <1>3, RespawnedRests DEF handleSimulationStopped
<1>6. WhiteGoes(balls') => sunk
  BY <1>1, <1>3, <1>5 DEF WhiteGoes, TickOf
<1>7. /\ hashing \in Seq(BOOLEAN) /\ shot.hashing \in Seq(BOOLEAN) /\ sunk \in BOOLEAN
      /\ (shot.hashing = <<>> => hashing = <<>> \/ (hashing # <<>> /\ Head(hashing) = sunk))
      /\ (~tells => hashing = shot.hashing)
  <2>1. shot.hashing \in Seq(BOOLEAN) /\ sunk \in BOOLEAN
    BY <1>1 DEF Shots
  <2> HIDE DEF tells, sunk
  <2>2. CASE tells
    <3>1. hashing = Append(shot.hashing, sunk)
      BY <2>2
    <3> QED BY <2>1, <2>2, <3>1, AppendFits
  <2>3. CASE ~tells
    BY <2>1, <2>3
  <2> QED BY <2>2, <2>3
<1>8. shot' = [shot EXCEPT !.fell = shot.fell, !.hashing = hashing]
  BY <1>1, <1>4 DEF handleSimulationStopped, Shots
<1> HIDE DEF hashing
<1>9. /\ shot' \in Shots /\ shot'.before = shot.before /\ shot'.fell = shot.fell
      /\ shot'.hashing = hashing /\ shot'.told = shot.told /\ shot'.over = shot.over
      /\ shot'.again = shot.again
  BY <1>1, <1>7, <1>8 DEF Shots
<1>10. \A b : FellIn(b) <=> FellIn(b)'
  BY <1>9 DEF FellIn
<1>11. \/ shot.before[White].place = "up"
       \/ shot.over /\ hud.set /\ hashing = shot.hashing
  BY <1>1, <1>7 DEF TableInv, MovingInv, RestingInv
<1>12. ShotTypes'
  BY <1>2, <1>9, <1>11 DEF TableInv, ShotTypes, Shots, Huds
<1>13. LoopInv' /\ ~loop'.running
  BY DEF LoopInv, Tick
<1>14. StrikingInv' /\ MovingInv'
  BY <1>2 DEF StrikingInv, MovingInv
<1>15. ToldInv'
  BY <1>9, <1>10 DEF TableInv, ToldInv
<1>16. shot.before[White].place = "up" /\ sunk => White \in shot.fell
  <2>1. CASE hud.set
    <3>1. balls[White].place # "up" \/ ~sunk
      BY <1>1, <1>3 DEF TickOf
    <3> QED BY <1>1, <2>1, <3>1 DEF TableInv, RestingInv, WhiteGoes
  <2>2. CASE ~hud.set
    BY <1>1, <1>4, <2>2, TickCounts DEF FellIn
  <2> QED BY <2>1, <2>2
<1>17. ~shot.over => \A b \in Targets : t[b].place = "sunk" <=> FellIn(b)
  <2>1. CASE hud.set
    <3>1. Resting(balls) /\ (~shot.over => \A b \in Targets : balls[b].place = "sunk" <=> FellIn(b))
      BY <1>1, <2>1 DEF TableInv, RestingInv
    <3>2. \A b \in Targets : t[b].place = balls[b].place
      BY <3>1, StepFits DEF TableInv
    <3> QED BY <3>1, <3>2
  <2>2. CASE ~hud.set
    BY <1>1, <1>3, <1>4, <2>2, TickCounts
  <2> QED BY <2>1, <2>2
<1>18. RestingInv'
  BY <1>1, <1>2, <1>5, <1>6, <1>9, <1>10, <1>11, <1>13, <1>16, <1>17 DEF RestingInv
<1>19. HashingInv'
  <2>1. CASE hud.set
    BY <1>1, <1>9, <2>1 DEF TableInv, RestingInv, HashingInv
  <2>2. CASE ~hud.set
    <3>1. shot.hashing = <<>> /\ shot.before[White].place = "up"
      BY <2>2 DEF TableInv, MovingInv
    <3>2. White \in shot.fell => sunk
      BY <1>1, <1>3, <2>2, TickCounts DEF FellIn
    <3> QED BY <1>5, <1>7, <1>9, <1>16, <3>1, <3>2 DEF HashingInv
  <2> QED BY <2>1, <2>2
<1> QED BY <1>5, <1>12, <1>13, <1>14, <1>15, <1>18, <1>19 DEF TableInv, Resting

LEMMA RollStep ==
    ASSUME TableInv, Ticks,
           NEW t \in stepSimulation(balls), ~isStatic(t),
           loop' = [loop EXCEPT !.acc = loop.acc - Tick, !.ticks = loop.ticks + 1],
           balls' = t, shot' = [shot EXCEPT !.fell = shot.fell \union Falling(t)], hud' = hud
    PROVE  TableInv'
<1> DEFINE acc == loop.acc - Tick
           ticks == loop.ticks + 1
           fell == shot.fell \union Falling(t)
<1>1. /\ loop.running /\ ~hud.shown /\ ~hud.striking /\ hud \in Huds /\ shot \in Shots
      /\ White \in Balls /\ Targets \subseteq Balls /\ loop \in Loops /\ TicksOn(loop)
  BY DEF Ticks, TableInv, LoopInv, StrikingInv, ShotTypes, Huds, Shots, Balls, Loops
<1>2. /\ acc \in Nat /\ ticks \in Nat
      /\ acc + Tick * ticks < Tick + MaxFrameDelta
  <2>1. loop.acc \in Nat /\ loop.ticks \in Nat /\ loop.acc + Tick * loop.ticks < Tick + MaxFrameDelta
    BY <1>1 DEF TableInv, LoopInv, Loops
  <2>2. MaxFrameDelta \in Nat
    BY TableAssumption
  <2> QED BY <1>1, <2>1, <2>2 DEF TicksOn, Tick
<1> HIDE DEF acc, ticks
<1>3. loop' \in Loops /\ loop'.acc = acc /\ loop'.ticks = ticks /\ loop'.running
  BY <1>1, <1>2 DEF Loops, acc, ticks
<1>4. LoopInv'
  BY <1>1, <1>2, <1>3 DEF LoopInv, Loops
<1>5. /\ Fits(t) /\ \A b \in Balls : TickOf(balls[b], t[b]) /\ t[b] \in BallTypes
  BY StepFits DEF TableInv, Fits, TableTypes
<1>6. fell \in SUBSET Balls
  BY <1>1 DEF Shots, Falling
<1> HIDE DEF fell
<1>7. /\ shot' \in Shots /\ shot'.before = shot.before /\ shot'.fell = fell
      /\ shot'.hashing = shot.hashing /\ shot'.told = shot.told /\ shot'.over = shot.over
      /\ shot'.again = shot.again
  BY <1>1, <1>6 DEF Shots, fell
<1>8. ShotTypes' /\ StrikingInv'
  BY <1>1, <1>7 DEF TableInv, ShotTypes, StrikingInv, Shots
<1>9. CASE ~hud.set
  <2>1. MovingInv'
    <3>1. ASSUME NEW b \in Balls
          PROVE  /\ t[b].place # "up" => FellIn(b)'
                 /\ t[b].place = "up" => ~FellIn(b)'
      BY <1>7, <1>9, TickCounts DEF FellIn, fell
    <3> QED BY <1>7, <1>9, <3>1 DEF TableInv, MovingInv
  <2>2. DOMAIN shot'.told = {} /\ shot'.hashing = <<>>
    BY <1>7, <1>9 DEF TableInv, MovingInv
  <2>3. ToldInv' /\ HashingInv' /\ RestingInv'
    BY <1>9, <2>2 DEF ToldInv, HashingInv, RestingInv
  <2> QED BY <1>4, <1>5, <1>8, <2>1, <2>3 DEF TableInv
<1>10. CASE hud.set
  <2>1. /\ Resting(balls) /\ shot.again
        /\ (shot.before[White].place = "up" /\ WhiteGoes(balls) => White \in shot.fell)
        /\ (~shot.over => \A b \in Targets : balls[b].place = "sunk" <=> FellIn(b))
        /\ (shot.before[White].place # "up" => shot.over)
    BY <1>1, <1>10 DEF TableInv, RestingInv
  <2>2. /\ \A b \in Balls : t[b].speed = 0
        /\ \A b \in Targets : t[b].place = balls[b].place
        /\ ~WhiteGoes(balls) => t[White].place = "up"
    BY <2>1, StepFits DEF TableInv
  <2>3. \A b \in Targets : t[b].place # "sinking"
    BY <2>1, <2>2 DEF Resting
  <2>4. t[White].place = "sinking"
    BY <1>1, <2>2, <2>3 DEF isStatic, Balls
  <2>5. Resting(t)
    BY <1>5, <2>2, <2>3, <2>4 DEF Resting
  <2>6. Falling(t) = {White} /\ fell = shot.fell \union {White}
    BY <1>1, <2>3, <2>4 DEF Falling, Balls, fell
  <2>7. \A b \in Targets : FellIn(b) <=> FellIn(b)'
    BY <1>7, <2>6, TableAssumption DEF FellIn
  <2>8. shot.before[White].place = "up" => fell = shot.fell
    BY <2>1, <2>2, <2>4, <2>6
  <2>9. RestingInv'
    BY <1>1, <1>7, <1>10, <2>1, <2>2, <2>5, <2>6, <2>7 DEF RestingInv
  <2>10. MovingInv' /\ HashingInv'
    BY <1>7, <1>10, <2>1 DEF MovingInv, HashingInv
  <2>11. ToldInv'
    <3>1. CASE shot.before[White].place = "up"
      BY <1>7, <2>7, <2>8, <3>1 DEF TableInv, ToldInv
    <3>2. CASE shot.before[White].place # "up"
      <4>1. DOMAIN shot'.told = {}
        BY <1>7, <3>2 DEF TableInv, ShotTypes
      <4> QED BY <4>1 DEF ToldInv
    <3> QED BY <3>1, <3>2
  <2> QED BY <1>4, <1>5, <1>8, <2>9, <2>10, <2>11 DEF TableInv
<1> QED BY <1>9, <1>10

LEMMA TableStep ==
    ASSUME TableInv, [TableNext]_tableVars
    PROVE  TableInv'
<1>1. CASE Ticks
  <2>1. PICK t \in stepSimulation(balls) :
          IF isStatic(t)
          THEN /\ loop' = [acc |-> 0, wasAiming |-> TRUE, running |-> FALSE, ticks |-> 0]
               /\ hud' = [hud EXCEPT !.set = TRUE]
               /\ handleSimulationStopped(t)
          ELSE /\ loop' = [loop EXCEPT !.acc = loop.acc - Tick, !.ticks = loop.ticks + 1]
               /\ balls' = t
               /\ shot' = [shot EXCEPT !.fell = shot.fell \union Falling(t)]
               /\ hud' = hud
    BY <1>1 DEF Ticks
  <2> QED BY <1>1, <2>1, StopStep, RollStep
<1>2. CASE UNCHANGED tableVars
  <2>1. balls' = balls /\ loop' = loop /\ hud' = hud /\ shot' = shot
    BY <1>2 DEF tableVars
  <2>2. LoopInv' /\ ShotTypes' /\ StrikingInv' /\ MovingInv' /\ HashingInv'
    BY <2>1 DEF TableInv, LoopInv, ShotTypes, StrikingInv, MovingInv, HashingInv, FellIn
  <2>3. RestingInv' /\ Fits(balls')
    BY <2>1 DEF TableInv, RestingInv, FellIn
  <2>4. ToldInv'
    BY <2>1 DEF TableInv, ToldInv, FellIn
  <2> QED BY <2>1, <2>2, <2>3, <2>4 DEF TableInv
<1>3. CASE beginShot
  BY <1>3, beginShotStep
<1>4. CASE handleCueContact
  BY <1>4, contactStep
<1>5. ASSUME NEW delta \in FrameDeltas, useFrame(delta) PROVE TableInv'
  BY <1>5, frameStep
<1>6. CASE FrameEnds
  BY <1>6, FrameEndsStep
<1>7. CASE RenderTable
  BY <1>7, RenderStep
<1>8. CASE onShotResult
  BY <1>8, ReportStep
<1>9. CASE alignLocalBallsToSnapshot
  BY <1>9, AlignStep
<1> QED BY <1>1, <1>2, <1>3, <1>4, <1>5, <1>6, <1>7, <1>8, <1>9 DEF TableNext

LEMMA TableInvariance == TableSpec => []TableInv
<1>1. TableInit => TableInv
  BY TableInvInit
<1>2. TableInv /\ [TableNext]_tableVars => TableInv'
  BY TableStep
<1> QED BY <1>1, <1>2, PTL DEF TableSpec

-----------------------------------------------------------------------------
\* What the shooter's page tells of its shot is a table at rest, the white ball up, with just
\* those balls down that fell in the shot or before (SnookerMatch.tsx: SimulationLoop,
\* handleSimulationStopped).
THEOREM ReportsAreTrue == TableSpec => []ReportIsTrue
<1>1. ASSUME TableInv PROVE ReportIsTrue
  <2> DEFINE r == shot.told[1]
  <2> SUFFICES ASSUME shot.told # <<>>, ~r.over, ~r.again
               PROVE  /\ \A b \in Balls : r.balls[b].place # "sinking" /\ r.balls[b].speed = 0
                      /\ r.balls[White].place = "up"
                      /\ \A b \in Targets : r.balls[b].place = "sunk" <=> FellIn(b)
                      /\ r.cueBallSunk <=> White \in shot.fell
    BY DEF ReportIsTrue, FellIn
  <2>1. 1 \in DOMAIN shot.told
    BY <1>1 DEF TableInv, ShotTypes
  <2>2. /\ Resting(r.balls) /\ r.balls[White].place = "up"
        /\ \A b \in Targets : r.balls[b].place = "sunk" <=> FellIn(b)
        /\ r.cueBallSunk <=> White \in shot.fell
    BY <1>1, <2>1 DEF TableInv, ToldInv
  <2> QED BY <2>2 DEF Resting, Balls
<1> QED BY <1>1, TableInvariance, PTL

\* Between two frames less than a tick is left to play, for frames of any length
\* (SimulationLoop: the accumulator and PHYSICS_MAX_TICKS_PER_FRAME).
THEOREM PaceIsKept == TableSpec => []TimeIsPlayed
<1>1. TableInv => TimeIsPlayed
  BY DEF TableInv, LoopInv, TimeIsPlayed
<1> QED BY <1>1, TableInvariance, PTL

-----------------------------------------------------------------------------
(***************************************************************************)
(* What is proved by induction over a sequence: of the numbers for which a *)
(* claim fails, a set that is not empty has a least one.                   *)
(***************************************************************************)
LEMMA SmallestOf ==
    ASSUME NEW T \in SUBSET Nat, T # {}
    PROVE  \E n \in T : \A m \in T : ~(m < n)
<1>1. PICK n \in T : \A m \in T : ~(<<m, n>> \in OpToRel(<, Nat))
  BY NatLessThanWellFounded, WFMin
<1>2. \A m \in T : ~(m < n)
  BY <1>1 DEF OpToRel
<1> QED BY <1>2

\* A set of numbers that has 0 and with each number the next one has them all.
LEMMA AllNumbers ==
    ASSUME NEW n \in Nat, NEW T, 0 \in T,
           \A k \in 1 .. n : k - 1 \in T => k \in T
    PROVE  0 .. n \subseteq T
<1> DEFINE Others == (0 .. n) \ T
<1> SUFFICES ASSUME Others # {} PROVE FALSE
  OBVIOUS
<1>1. PICK k \in Others : \A m \in Others : ~(m < k)
  <2>1. Others \in SUBSET Nat
    OBVIOUS
  <2> HIDE DEF Others
  <2> QED BY <2>1, SmallestOf
<1>2. k \in 1 .. n /\ k \notin T
  BY <1>1
<1>3. k - 1 \in 0 .. n /\ k - 1 < k
  BY <1>2
<1> QED BY <1>1, <1>2, <1>3

-----------------------------------------------------------------------------
(***************************************************************************)
(* CueFeed: the inductive invariant.  A page whose player has the turn     *)
(* aims with that player's aim, and a shot is told with an aim of who took *)
(* it, so the effect that begins a shot hands its player the turn.         *)
(***************************************************************************)
CueAims == [by : Players \union {"nobody"}, n : Nat]
OwnAims == [by : Players, n : Nat]
OwnPackets == [aim : OwnAims, shot : Nat]
Snapshots ==
    [at : Nat, shot : Nat, turn : Nat, player : Players,
     status : {"none", "aiming", "moving"}, timed : BOOLEAN]
\* What a page puts on its link, and the lobby's handler of the link checks: aims of its player.
PacketsOf(p) == [aim : [by : {p}, n : Nat], shot : Nat]
SentBy(p) == [type : {"cue_state", "shot_started"}, snap : Snapshots, packet : PacketsOf(p)]

CueMessages ==
    [type : {"shot_started"}, snap : Snapshots, packet : OwnPackets]
    \union [type : {"cue_state", "turn_timeout", "game_state_sync"}, snap : Snapshots,
            packet : Packets]
CuePages(p) ==
    [up : BOOLEAN, in : Seq(CueMessages), out : Seq(SentBy(p)),
     relay : PacketsOf(p) \union {NoPacket},
     seen : Nat, last : Nat, remote : Packets, snap : Snapshots, started : Packets,
     effects : SUBSET {"cue", "snap", "shot"}, clock : Nat, turn : Players,
     status : {"aiming", "moving"}, shot : Nat, lastShot : Nat, aim : CueAims]
Matches ==
    [at : Nat, shot : Nat, turn : Nat, player : Players, status : {"aiming", "moving"},
     timed : BOOLEAN, shotAim : CueAims, aims : Nat, acts : Nat]

\* A page on its way through a render, of player p.
Rendering(s, p) ==
    /\ s \in CuePages(p)
    /\ Len(s.in) <= MaxInbox /\ Len(s.out) <= MaxOutbox
    /\ s.turn = p => s.aim.by = p
    /\ "shot" \in s.effects => s.started \in OwnPackets

MatchFits(m) ==
    /\ m \in Matches
    /\ m.timed => m.status = "aiming"
    /\ m.status = "moving" => m.shotAim \in OwnAims

PagesFit(pg) ==
    /\ pg = [p \in Players |-> pg[p]]
    /\ \A p \in Players : Rendering(pg[p], p) /\ pg[p].effects = {}

CueInv ==
    /\ MatchFits(match)
    /\ PagesFit(page)
    /\ late \subseteq Packets

LEMMA CueConstants ==
    /\ NoAim \in CueAims /\ NoPacket \in Packets /\ NoSnapshot \in Snapshots
    /\ A \in Players /\ B \in Players /\ \A p : Opposite(p) \in Players
    /\ OwnAims \subseteq CueAims /\ OwnPackets \subseteq Packets
    /\ MaxInbox \in Nat /\ MaxOutbox \in Nat
    /\ \A p \in Players : \A n \in Nat : Aim(p, n) \in OwnAims /\ Aim(p, n).by = p
    /\ \A p \in Players : PacketsOf(p) \subseteq OwnPackets
<1>1. NoAim \in CueAims
  BY DEF NoAim, Aim, CueAims
<1>2. NoPacket \in Packets
  BY <1>1 DEF NoPacket, Packet, Packets, CueAims
<1>3. A \in Players /\ B \in Players /\ \A p : Opposite(p) \in Players
  BY DEF Players, Opposite
<1>4. NoSnapshot \in Snapshots
  BY <1>3 DEF NoSnapshot, Snapshots
<1>5. OwnAims \subseteq CueAims
  BY DEF OwnAims, CueAims
<1>6. OwnPackets \subseteq Packets
  BY <1>5 DEF OwnPackets, Packets, CueAims
<1>7. \A p \in Players : \A n \in Nat : Aim(p, n) \in OwnAims /\ Aim(p, n).by = p
  BY DEF Aim, OwnAims
<1>8. \A p \in Players : PacketsOf(p) \subseteq OwnPackets
  BY DEF PacketsOf, OwnPackets, OwnAims
<1> QED BY <1>1, <1>2, <1>3, <1>4, <1>5, <1>6, <1>7, <1>8, CueAssumption

LEMMA MessageTypes ==
    ASSUME NEW m \in CueMessages
    PROVE  /\ m.type \in {"cue_state", "shot_started", "turn_timeout", "game_state_sync"}
           /\ m.snap \in Snapshots /\ m.packet \in Packets
           /\ m.type = "shot_started" => m.packet \in OwnPackets
BY CueConstants DEF CueMessages

LEMMA MadeMessages ==
    /\ \A packet \in Packets : CueState(packet) \in CueMessages
    /\ \A aim \in OwnAims : \A n \in Nat : ShotStarted(aim, n) \in CueMessages
    /\ TurnTimeoutEvent \in CueMessages
    /\ \A m : MatchFits(m) => GameStateSync(m) \in CueMessages
<1>1. \A packet \in Packets : CueState(packet) \in CueMessages
  BY CueConstants DEF CueState, Message, CueMessages
<1>2. \A aim \in OwnAims : \A n \in Nat : ShotStarted(aim, n) \in CueMessages
  <2> SUFFICES ASSUME NEW aim \in OwnAims, NEW n \in Nat
               PROVE  ShotStarted(aim, n) \in CueMessages
    OBVIOUS
  <2>1. Packet(aim, n) \in OwnPackets
    BY DEF Packet, OwnPackets
  <2> QED BY <2>1, CueConstants DEF ShotStarted, Message, CueMessages
<1>3. TurnTimeoutEvent \in CueMessages
  BY CueConstants DEF TurnTimeoutEvent, Message, CueMessages
<1>4. ASSUME NEW m, MatchFits(m) PROVE GameStateSync(m) \in CueMessages
  <2>1. Snapshot(m) \in Snapshots
    BY <1>4 DEF Snapshot, MatchFits, Matches, Snapshots
  <2> QED BY <2>1, CueConstants DEF GameStateSync, Message, CueMessages
<1> QED BY <1>1, <1>2, <1>3, <1>4

-----------------------------------------------------------------------------
(* The page: a message, all messages of a render, the effects.             *)

LEMMA CueTaken ==
    ASSUME NEW p \in Players, NEW s, Rendering(s, p), NEW packet \in Packets
    PROVE  LET t == OnCueState(s, packet) IN
           Rendering(t, p) /\ t.in = s.in /\ t.turn = s.turn
<1> DEFINE effects == s.effects \union {"cue"}
           t == [s EXCEPT !.last = packet.aim.n, !.remote = packet, !.effects = effects]
<1>1. s \in CuePages(p) /\ packet.aim.n \in Nat
  BY DEF Rendering, Packets
<1>2. effects \in SUBSET {"cue", "snap", "shot"} /\ ("shot" \in effects => "shot" \in s.effects)
  BY <1>1 DEF CuePages
<1>3. OnCueState(s, packet) = t \/ OnCueState(s, packet) = s
  BY DEF OnCueState
<1> HIDE DEF effects
<1>4. /\ t \in CuePages(p) /\ t.in = s.in /\ t.out = s.out /\ t.turn = s.turn /\ t.aim = s.aim
      /\ t.effects = effects /\ t.started = s.started
  BY <1>1, <1>2 DEF CuePages
<1>5. Rendering(t, p)
  BY <1>2, <1>4 DEF Rendering
<1> QED BY <1>3, <1>4, <1>5

LEMMA ShotTold ==
    ASSUME NEW p \in Players, NEW s, Rendering(s, p), NEW packet \in OwnPackets
    PROVE  LET t == OnShotStarted(s, packet) IN
           Rendering(t, p) /\ t.in = s.in /\ t.turn = s.turn
<1> DEFINE effects == (s.effects \ {"cue"}) \union {"shot"}
           t == [s EXCEPT !.remote = NoPacket, !.clock = 0, !.started = packet,
                          !.effects = effects]
<1>1. s \in CuePages(p) /\ packet \in Packets /\ NoPacket \in Packets
  BY CueConstants DEF Rendering
<1>2. effects \in SUBSET {"cue", "snap", "shot"}
  BY <1>1 DEF CuePages
<1>3. OnShotStarted(s, packet) = t
  BY DEF OnShotStarted
<1> HIDE DEF effects
<1>4. /\ t \in CuePages(p) /\ t.in = s.in /\ t.out = s.out /\ t.turn = s.turn /\ t.aim = s.aim
      /\ t.started = packet
  BY <1>1, <1>2 DEF CuePages
<1>5. Rendering(t, p)
  BY <1>4 DEF Rendering
<1> QED BY <1>3, <1>4, <1>5

LEMMA TimeoutTold ==
    ASSUME NEW p \in Players, NEW s, Rendering(s, p)
    PROVE  LET t == OnTurnTimeout(s) IN
           Rendering(t, p) /\ t.in = s.in /\ t.turn = s.turn
<1> DEFINE effects == s.effects \ {"cue", "shot"}
           t == [s EXCEPT !.remote = NoPacket, !.clock = 0, !.started = NoPacket,
                          !.effects = effects]
<1>1. s \in CuePages(p) /\ NoPacket \in Packets
  BY CueConstants DEF Rendering
<1>2. effects \in SUBSET {"cue", "snap", "shot"} /\ "shot" \notin effects
  BY <1>1 DEF CuePages
<1>3. OnTurnTimeout(s) = t
  BY DEF OnTurnTimeout
<1> HIDE DEF effects
<1>4. /\ t \in CuePages(p) /\ t.in = s.in /\ t.out = s.out /\ t.turn = s.turn /\ t.aim = s.aim
      /\ t.effects = effects
  BY <1>1, <1>2 DEF CuePages
<1>5. Rendering(t, p)
  BY <1>2, <1>4 DEF Rendering
<1> QED BY <1>3, <1>4, <1>5

LEMMA SnapshotTaken ==
    ASSUME NEW p \in Players, NEW s, Rendering(s, p), NEW snap \in Snapshots
    PROVE  LET t == OnGameStateSync(s, snap) IN
           Rendering(t, p) /\ t.in = s.in /\ t.turn = s.turn
<1> DEFINE stays == snap.status = "aiming" /\ s.remote.aim.by = snap.player
           clock == IF snap.status = "aiming" /\ snap.timed THEN snap.turn ELSE 0
           remote == IF stays THEN s.remote ELSE NoPacket
           effects == (IF stays THEN s.effects ELSE s.effects \ {"cue"}) \union {"snap"}
           t == [s EXCEPT !.seen = snap.at, !.snap = snap, !.clock = clock,
                          !.remote = remote, !.effects = effects]
<1>1. s \in CuePages(p) /\ NoPacket \in Packets /\ snap.at \in Nat
  BY CueConstants DEF Rendering, Snapshots
<1>2. /\ effects \in SUBSET {"cue", "snap", "shot"}
      /\ "shot" \in effects => "shot" \in s.effects
  BY <1>1 DEF CuePages
<1>3. clock \in Nat /\ remote \in Packets
  BY <1>1 DEF CuePages, Snapshots
<1>4. OnGameStateSync(s, snap) = t \/ OnGameStateSync(s, snap) = s
  BY DEF OnGameStateSync
<1> HIDE DEF effects, clock, remote
<1>5. /\ t \in CuePages(p) /\ t.in = s.in /\ t.out = s.out /\ t.turn = s.turn /\ t.aim = s.aim
      /\ t.effects = effects /\ t.started = s.started
  BY <1>1, <1>2, <1>3 DEF CuePages
<1>6. Rendering(t, p)
  BY <1>2, <1>5 DEF Rendering
<1> QED BY <1>4, <1>5, <1>6

LEMMA AnyMessage ==
    ASSUME NEW p \in Players, NEW s, Rendering(s, p), NEW m \in CueMessages
    PROVE  LET t == OnMessage(s, m) IN
           Rendering(t, p) /\ t.in = s.in /\ t.turn = s.turn
<1>1. CASE m.type = "cue_state"
  <2>1. OnMessage(s, m) = OnCueState(s, m.packet)
    BY <1>1 DEF OnMessage
  <2> QED BY <2>1, CueTaken, MessageTypes
<1>2. CASE m.type = "shot_started"
  <2>1. OnMessage(s, m) = OnShotStarted(s, m.packet) /\ m.packet \in OwnPackets
    BY <1>2, MessageTypes DEF OnMessage
  <2> QED BY <2>1, ShotTold
<1>3. CASE m.type = "turn_timeout"
  <2>1. OnMessage(s, m) = OnTurnTimeout(s)
    BY <1>3 DEF OnMessage
  <2> QED BY <2>1, TimeoutTold
<1>4. CASE m.type = "game_state_sync"
  <2>1. OnMessage(s, m) = OnGameStateSync(s, m.snap) /\ m.snap \in Snapshots
    BY <1>4, MessageTypes DEF OnMessage
  <2> QED BY <2>1, SnapshotTaken
<1> QED BY <1>1, <1>2, <1>3, <1>4, MessageTypes

\* The recursive function of Handled exists, and so it is what its definition says.
LEMMA HandledExists ==
    ASSUME NEW s, s.in \in Seq(CueMessages)
    PROVE  \E f : f = [k \in 0 .. Len(s.in) |->
                          IF k = 0 THEN s ELSE OnMessage(f[k - 1], s.in[k])]
<1> DEFINE IsBuilt(n, f) ==
               f = [k \in 0 .. n |-> IF k = 0 THEN s ELSE OnMessage(f[k - 1], s.in[k])]
           Built == {n \in Nat : \E f : IsBuilt(n, f)}
<1>1. 0 \in Built
  <2>1. IsBuilt(0, [k \in 0 .. 0 |-> s])
    OBVIOUS
  <2> QED BY <2>1
<1>2. ASSUME NEW n \in 1 .. Len(s.in), n - 1 \in Built PROVE n \in Built
  <2>1. PICK g : IsBuilt(n - 1, g)
    BY <1>2
  <2> DEFINE h == [k \in 0 .. n |-> IF k = n THEN OnMessage(g[n - 1], s.in[n]) ELSE g[k]]
  <2>2. n \in Nat /\ n # 0 /\ n - 1 \in Nat
    OBVIOUS
  <2>3. IsBuilt(n, h)
    BY <2>1, <2>2
  <2> QED BY <2>2, <2>3
<1>3. Len(s.in) \in Nat
  OBVIOUS
<1> HIDE DEF Built
<1>4. 0 .. Len(s.in) \subseteq Built
  BY <1>1, <1>2, <1>3, AllNumbers
<1>7. Len(s.in) \in Built
  BY <1>3, <1>4
<1> USE DEF Built
<1>5. PICK f : IsBuilt(Len(s.in), f)
  BY <1>7
<1>6. f = [k \in 0 .. Len(s.in) |-> IF k = 0 THEN s ELSE OnMessage(f[k - 1], s.in[k])]
  BY <1>5
<1> HIDE DEF IsBuilt, Built
<1> QED BY Zenon, <1>6

LEMMA HandledUnfolds ==
    ASSUME NEW s, s.in \in Seq(CueMessages)
    PROVE  /\ Handled(s)[0] = s
           /\ \A k \in 1 .. Len(s.in) : Handled(s)[k] = OnMessage(Handled(s)[k - 1], s.in[k])
<1>1. PICK f : f = [k \in 0 .. Len(s.in) |->
                       IF k = 0 THEN s ELSE OnMessage(f[k - 1], s.in[k])]
  BY HandledExists
<1>2. Handled(s) = [k \in 0 .. Len(s.in) |->
                       IF k = 0 THEN s ELSE OnMessage(Handled(s)[k - 1], s.in[k])]
  BY <1>1, Zenon DEF Handled
<1> HIDE DEF Handled
<1>3. Len(s.in) \in Nat
  OBVIOUS
<1> QED BY <1>2, <1>3

LEMMA AllHandled ==
    ASSUME NEW p \in Players, NEW s, Rendering(s, p), NEW k \in DOMAIN s.in
    PROVE  LET t == Handled(s)[k] IN
           Rendering(t, p) /\ t.in = s.in /\ t.turn = s.turn
<1> DEFINE Same(t) == Rendering(t, p) /\ t.in = s.in /\ t.turn = s.turn
           Good == {n \in 0 .. Len(s.in) : Same(Handled(s)[n])}
<1>1. s.in \in Seq(CueMessages) /\ Len(s.in) \in Nat
  BY DEF Rendering, CuePages
<1>2. 0 \in Good
  BY <1>1, HandledUnfolds
<1>3. ASSUME NEW n \in 1 .. Len(s.in), n - 1 \in Good PROVE n \in Good
  <2>1. Same(Handled(s)[n - 1]) /\ s.in[n] \in CueMessages
    BY <1>1, <1>3
  <2>2. Same(OnMessage(Handled(s)[n - 1], s.in[n]))
    BY <2>1, AnyMessage
  <2>3. Handled(s)[n] = OnMessage(Handled(s)[n - 1], s.in[n])
    BY <1>1, HandledUnfolds
  <2> QED BY <2>2, <2>3
<1> HIDE DEF Good
<1>4. 0 .. Len(s.in) \subseteq Good
  BY <1>1, <1>2, <1>3, AllNumbers
<1>5. k \in 0 .. Len(s.in)
  BY <1>1
<1> USE DEF Good
<1> QED BY <1>4, <1>5

\* Each effect of a render, and all of them.
LEMMA CueShown ==
    ASSUME NEW p \in Players, NEW s, Rendering(s, p)
    PROVE  Rendering(ShowsCue(s, p), p) /\ ShowsCue(s, p).in = s.in
<1> DEFINE t == [s EXCEPT !.aim = s.remote.aim]
<1>1. s \in CuePages(p) /\ s.remote.aim \in CueAims
  BY DEF Rendering, CuePages, Packets, CueAims
<1>2. /\ t \in CuePages(p) /\ t.in = s.in /\ t.out = s.out /\ t.turn = s.turn
      /\ t.effects = s.effects /\ t.started = s.started
  BY <1>1 DEF CuePages
<1>3. s.turn # p => Rendering(t, p)
  BY <1>2 DEF Rendering
<1>4. ShowsCue(s, p) = IF "cue" \in s.effects /\ shouldRenderRemoteCue(s, p) THEN t ELSE s
  BY DEF ShowsCue
<1>5. shouldRenderRemoteCue(s, p) => s.turn # p
  BY DEF shouldRenderRemoteCue
<1> HIDE DEF t
<1> QED BY <1>2, <1>3, <1>4, <1>5

LEMMA SnapshotShown ==
    ASSUME NEW p \in Players, NEW n \in Nat, NEW s, Rendering(s, p)
    PROVE  Rendering(ShowsSnapshot(s, p, n), p) /\ ShowsSnapshot(s, p, n).in = s.in
<1> DEFINE aim == CASE s.snap.player = s.turn -> s.aim
                    [] s.snap.player # s.turn /\ s.snap.player = p -> Aim(p, n)
                    [] OTHER -> NoAim
           t == [s EXCEPT !.aim = aim, !.shot = s.snap.shot, !.turn = s.snap.player,
                          !.status = "aiming"]
<1>1. /\ s \in CuePages(p) /\ s.snap.player \in Players /\ s.snap.shot \in Nat /\ s.aim \in CueAims
      /\ s.turn = p => s.aim.by = p
  BY DEF Rendering, CuePages, Snapshots
<1>2. aim \in CueAims /\ (s.snap.player = p => aim.by = p)
  <2>1. Aim(p, n) \in CueAims /\ Aim(p, n).by = p /\ NoAim \in CueAims
    BY CueConstants
  <2>2. CASE s.snap.player = s.turn
    BY <1>1, <2>2
  <2>3. CASE s.snap.player # s.turn /\ s.snap.player = p
    <3>1. aim = Aim(p, n)
      BY <2>3
    <3> QED BY <2>1, <3>1
  <2>4. CASE s.snap.player # s.turn /\ s.snap.player # p
    <3>1. aim = NoAim
      BY <2>4
    <3> QED BY <2>1, <2>4, <3>1
  <2> QED BY <2>2, <2>3, <2>4
<1>3. ShowsSnapshot(s, p, n) = s \/ ShowsSnapshot(s, p, n) = t
  BY DEF ShowsSnapshot
<1> HIDE DEF aim
<1>4. /\ t \in CuePages(p) /\ t.in = s.in /\ t.out = s.out /\ t.turn = s.snap.player
      /\ t.aim = aim /\ t.effects = s.effects /\ t.started = s.started
  BY <1>1, <1>2 DEF CuePages
<1>5. Rendering(t, p)
  BY <1>2, <1>4 DEF Rendering
<1> QED BY <1>3, <1>4, <1>5

LEMMA ShotBegun ==
    ASSUME NEW p \in Players, NEW s, Rendering(s, p)
    PROVE  Rendering(WithShotBegun(s), p) /\ WithShotBegun(s).in = s.in
<1> DEFINE seq == IF s.shot < s.started.shot THEN s.started.shot ELSE s.shot
           t == [s EXCEPT !.lastShot = s.started.shot, !.shot = seq, !.aim = s.started.aim,
                          !.turn = s.started.aim.by, !.status = "moving"]
<1>1. CASE "shot" \notin s.effects \/ s.started.shot <= s.lastShot
  BY <1>1 DEF WithShotBegun
<1>2. CASE ~("shot" \notin s.effects \/ s.started.shot <= s.lastShot)
  <2>1. s \in CuePages(p) /\ s.started \in OwnPackets
    BY <1>2 DEF Rendering
  <2>2. /\ s.started.shot \in Nat /\ s.started.aim \in OwnAims /\ s.started.aim.by \in Players
        /\ s.started.aim \in CueAims
    BY <2>1, CueConstants DEF OwnPackets, OwnAims
  <2>3. seq \in Nat
    BY <2>1, <2>2 DEF CuePages
  <2>4. WithShotBegun(s) = t
    BY <1>2 DEF WithShotBegun
  <2> HIDE DEF seq
  <2>5. /\ t \in CuePages(p) /\ t.in = s.in /\ t.out = s.out /\ t.turn = s.started.aim.by
        /\ t.aim = s.started.aim /\ t.effects = s.effects /\ t.started = s.started
    BY <2>1, <2>2, <2>3 DEF CuePages
  <2>6. Rendering(t, p)
    BY <2>1, <2>5 DEF Rendering
  <2> QED BY <2>4, <2>5, <2>6
<1> QED BY <1>1, <1>2

LEMMA AllEffects ==
    ASSUME NEW p \in Players, NEW n \in Nat, NEW s, Rendering(s, p)
    PROVE  Rendering(Effects(s, p, n), p) /\ Effects(s, p, n).in = s.in
<1> DEFINE t == WithShotBegun(ShowsSnapshot(ShowsCue(s, p), p, n))
           again == [t EXCEPT !.effects = {"cue"}]
<1>1. Rendering(t, p) /\ t.in = s.in
  BY CueShown, SnapshotShown, ShotBegun
<1>2. Effects(s, p, n) = t \/ Effects(s, p, n) = ShowsCue(again, p)
  BY DEF Effects
<1> HIDE DEF t
<1>3. /\ again \in CuePages(p) /\ again.in = t.in /\ again.out = t.out /\ again.turn = t.turn
      /\ again.aim = t.aim /\ again.effects = {"cue"}
  BY <1>1 DEF Rendering, CuePages
<1>4. Rendering(again, p)
  BY <1>1, <1>3 DEF Rendering
<1> HIDE DEF again
<1>5. Rendering(ShowsCue(again, p), p) /\ ShowsCue(again, p).in = s.in
  BY <1>1, <1>3, <1>4, CueShown
<1> QED BY <1>1, <1>2, <1>5

-----------------------------------------------------------------------------
(* The links and the lobby.                                                *)

LEMMA OnePage ==
    ASSUME NEW pg, PagesFit(pg), NEW p \in Players, NEW t, Rendering(t, p), t.effects = {}
    PROVE  PagesFit([pg EXCEPT ![p] = t])
BY DEF PagesFit

LEMMA PageFields ==
    ASSUME NEW pg, PagesFit(pg), NEW p \in Players
    PROVE  /\ pg[p] \in CuePages(p) /\ pg[p].in \in Seq(CueMessages)
           /\ pg[p].out \in Seq(SentBy(p)) /\ pg[p].relay \in PacketsOf(p) \union {NoPacket}
           /\ pg[p].aim \in CueAims /\ pg[p].shot \in Nat /\ pg[p].effects = {}
           /\ Len(pg[p].in) <= MaxInbox /\ Len(pg[p].out) <= MaxOutbox
           /\ pg[p].turn = p => pg[p].aim.by = p
BY DEF PagesFit, Rendering, CuePages

\* A page whose link, aim or both changed.
LinkWith(s, up, in, out, relay, aim) ==
    [s EXCEPT !.up = up, !.in = in, !.out = out, !.relay = relay, !.aim = aim]

LEMMA LinkChanges ==
    ASSUME NEW p \in Players, NEW s, Rendering(s, p), s.effects = {},
           NEW in \in Seq(CueMessages), Len(in) <= MaxInbox,
           NEW out \in Seq(SentBy(p)), Len(out) <= MaxOutbox,
           NEW up \in BOOLEAN, NEW relay \in PacketsOf(p) \union {NoPacket},
           NEW aim \in CueAims, s.turn = p => aim.by = p
    PROVE  LET t == LinkWith(s, up, in, out, relay, aim) IN
           Rendering(t, p) /\ t.effects = {}
<1> DEFINE t == LinkWith(s, up, in, out, relay, aim)
<1>1. /\ t \in CuePages(p) /\ t.in = in /\ t.out = out /\ t.turn = s.turn /\ t.aim = aim
      /\ t.effects = s.effects
  BY DEF Rendering, CuePages, LinkWith
<1> QED BY <1>1 DEF Rendering

LEMMA GivenOne ==
    ASSUME NEW p \in Players, NEW s, Rendering(s, p), s.effects = {},
           NEW messages \in Seq(CueMessages), Len(s.in) + Len(messages) <= MaxInbox
    PROVE  LET t == [s EXCEPT !.in = @ \o messages] IN Rendering(t, p) /\ t.effects = {}
<1> DEFINE t == [s EXCEPT !.in = s.in \o messages]
<1>1. s \in CuePages(p) /\ s.in \in Seq(CueMessages) /\ s.in \o messages \in Seq(CueMessages)
      /\ Len(s.in \o messages) = Len(s.in) + Len(messages)
  BY DEF Rendering, CuePages
<1>2. /\ t \in CuePages(p) /\ t.in = s.in \o messages /\ t.out = s.out /\ t.turn = s.turn
      /\ t.aim = s.aim /\ t.effects = s.effects
  BY <1>1 DEF CuePages
<1> QED BY <1>1, <1>2 DEF Rendering

LEMMA Publishing ==
    ASSUME NEW pg, PagesFit(pg), NEW messages \in Seq(CueMessages), Publishes(pg, messages)
    PROVE  PagesFit(page')
<1>1. page' = [p \in Players |->
                  IF pg[p].up THEN [pg[p] EXCEPT !.in = @ \o messages] ELSE pg[p]]
      /\ \A p \in Players : pg[p].up => Len(pg[p].in) + Len(messages) <= MaxInbox
  BY DEF Publishes, Published, Room
<1>2. ASSUME NEW p \in Players PROVE Rendering(page'[p], p) /\ page'[p].effects = {}
  <2>1. Rendering(pg[p], p) /\ pg[p].effects = {}
    BY DEF PagesFit
  <2>2. CASE pg[p].up
    <3>1. page'[p] = [pg[p] EXCEPT !.in = @ \o messages]
      BY <1>1, <2>2
    <3> QED BY <1>1, <2>1, <2>2, <3>1, GivenOne
  <2>3. CASE ~pg[p].up
    <3>1. page'[p] = pg[p]
      BY <1>1, <2>3
    <3> QED BY <2>1, <3>1
  <2> QED BY <2>2, <2>3
<1> QED BY <1>1, <1>2 DEF PagesFit

LEMMA Relaying ==
    ASSUME NEW pg, PagesFit(pg), NEW packet \in Packets, Room(pg, Opposite(packet.aim.by), 1)
    PROVE  PagesFit(Relayed(pg, packet))
<1> DEFINE q == Opposite(packet.aim.by)
           t == [pg[q] EXCEPT !.in = @ \o <<CueState(packet)>>]
<1>1. q \in Players /\ CueState(packet) \in CueMessages
  BY CueConstants, MadeMessages
<1> HIDE DEF q
<1>2. CASE ~(pg[q].up /\ ~Repeats(pg[q].in, packet))
  BY <1>2 DEF Relayed, q
<1>3. CASE pg[q].up /\ ~Repeats(pg[q].in, packet)
  <2>1. Rendering(pg[q], q) /\ pg[q].effects = {} /\ pg[q].in \in Seq(CueMessages)
    BY <1>1, PageFields DEF PagesFit
  <2>2. <<CueState(packet)>> \in Seq(CueMessages) /\ Len(<<CueState(packet)>>) = 1
    BY <1>1
  <2>3. Len(pg[q].in) + 1 <= MaxInbox
    BY <1>3 DEF Room, q
  <2> DEFINE messages == <<CueState(packet)>>
  <2>4. messages \in Seq(CueMessages) /\ Len(pg[q].in) + Len(messages) <= MaxInbox
    BY <2>2, <2>3
  <2>5. pg[q].in \o messages = Append(pg[q].in, CueState(packet))
    BY <1>1, <2>1
  <2> HIDE DEF messages
  <2>6. Rendering([pg[q] EXCEPT !.in = @ \o messages], q)
        /\ [pg[q] EXCEPT !.in = @ \o messages].effects = {}
    BY <1>1, <2>1, <2>4, GivenOne
  <2>7. PagesFit([pg EXCEPT ![q] = [pg[q] EXCEPT !.in = @ \o messages]])
    BY <1>1, <2>6, OnePage
  <2>8. Relayed(pg, packet) = [pg EXCEPT ![q] = [pg[q] EXCEPT !.in = @ \o messages]]
    BY <1>3, <2>5 DEF Relayed, q
  <2> QED BY <2>7, <2>8
<1> QED BY <1>2, <1>3

LEMMA CueInvInit == Init => CueInv
<1> SUFFICES ASSUME Init PROVE CueInv
  OBVIOUS
<1>1. match = [at |-> 1, shot |-> 0, turn |-> 1, player |-> A, status |-> "aiming",
               timed |-> FALSE, shotAim |-> NoAim, aims |-> 0, acts |-> 0]
  BY DEF Init
<1>2. match \in Matches /\ ~match.timed /\ match.status = "aiming"
  BY <1>1, CueConstants DEF Matches
<1>3. MatchFits(match)
  BY <1>2 DEF MatchFits
<1>4. ASSUME NEW p \in Players PROVE Rendering(page[p], p) /\ page[p].effects = {}
  <2> DEFINE aim == IF p = A THEN Aim(A, 0) ELSE NoAim
             t == [FreshPage EXCEPT !.aim = aim]
  <2>1. aim \in CueAims /\ (A = p => aim.by = p)
    BY CueConstants
  <2>2. page[p] = t
    BY DEF Init
  <2> HIDE DEF aim
  <2>3. <<>> \in Seq(CueMessages) /\ <<>> \in Seq(SentBy(p)) /\ Len(<<>>) = 0
    OBVIOUS
  <2>4. /\ FreshPage \in CuePages(p) /\ FreshPage.in = <<>> /\ FreshPage.out = <<>>
        /\ FreshPage.turn = A /\ FreshPage.effects = {}
    BY <2>3, CueConstants DEF FreshPage, CuePages
  <2>5. /\ t \in CuePages(p) /\ t.in = <<>> /\ t.out = <<>> /\ t.turn = A /\ t.aim = aim
        /\ t.effects = {}
    BY <2>1, <2>4 DEF CuePages
  <2> HIDE DEF t
  <2>6. Len(t.in) <= MaxInbox /\ Len(t.out) <= MaxOutbox
    BY <2>3, <2>5, CueConstants
  <2> QED BY <2>1, <2>2, <2>5, <2>6 DEF Rendering
<1>5. page = [p \in Players |-> page[p]] /\ late = {}
  BY DEF Init
<1> QED BY <1>3, <1>4, <1>5 DEF CueInv, PagesFit

LEMMA ClockStarts == CueInv /\ StartClock => CueInv'
<1> SUFFICES ASSUME CueInv, StartClock PROVE CueInv'
  OBVIOUS
<1>1. MatchFits(match')
  <2>1. /\ match' = [match EXCEPT !.timed = TRUE, !.at = @ + 1] /\ match.status = "aiming"
        /\ match \in Matches
    BY DEF StartClock, CueInv, MatchFits
  <2> DEFINE timed == TRUE
             at == match.at + 1
  <2>2. timed \in BOOLEAN /\ at \in Nat /\ match' = [match EXCEPT !.timed = timed, !.at = at]
    BY <2>1 DEF Matches
  <2> HIDE DEF timed, at
  <2>4. match \in Matches /\ match.status = "aiming"
    BY <2>1
  <2>3. match' \in Matches /\ match'.status = match.status
    BY <2>2, <2>4 DEF Matches
  <2> QED BY <2>3, <2>4 DEF MatchFits
<1>2. <<GameStateSync(match')>> \in Seq(CueMessages)
  BY <1>1, MadeMessages
<1>3. PagesFit(page')
  BY <1>2, Publishing DEF CueInv, StartClock
<1> QED BY <1>1, <1>3 DEF CueInv, StartClock

LEMMA TurnTimesOut == CueInv /\ TurnTimeout => CueInv'
<1> SUFFICES ASSUME CueInv, TurnTimeout PROVE CueInv'
  OBVIOUS
<1>1. MatchFits(match')
  <2>1. /\ match' = [match EXCEPT !.turn = @ + 1, !.player = Opposite(@), !.timed = FALSE,
                                  !.at = @ + 1, !.acts = @ + 1]
        /\ match.status = "aiming" /\ match \in Matches /\ Opposite(match.player) \in Players
    BY CueConstants DEF TurnTimeout, CueInv, MatchFits
  <2> DEFINE other == Opposite(match.player)
             timed == FALSE
             turn == match.turn + 1
             at == match.at + 1
             acts == match.acts + 1
  <2>2. match' = [match EXCEPT !.turn = turn, !.player = other, !.timed = timed,
                               !.at = at, !.acts = acts]
    BY <2>1
  <2>3. other \in Players /\ timed \in BOOLEAN /\ turn \in Nat /\ at \in Nat /\ acts \in Nat
    BY <2>1 DEF Matches
  <2> HIDE DEF other, timed, turn, at, acts
  <2>5. match \in Matches /\ match.status = "aiming"
    BY <2>1
  <2>4. match' \in Matches /\ match'.status = match.status
    BY <2>5, <2>2, <2>3 DEF Matches
  <2> QED BY <2>4, <2>5 DEF MatchFits
<1>2. <<TurnTimeoutEvent, GameStateSync(match')>> \in Seq(CueMessages)
  <2>1. TurnTimeoutEvent \in CueMessages /\ GameStateSync(match') \in CueMessages
    BY <1>1, MadeMessages
  <2> QED BY <2>1
<1>3. PagesFit(page')
  BY <1>2, Publishing DEF CueInv, TurnTimeout
<1> QED BY <1>1, <1>3 DEF CueInv, TurnTimeout

LEMMA ShotIsOver == CueInv /\ ShotEnds => CueInv'
<1> SUFFICES ASSUME CueInv, ShotEnds PROVE CueInv'
  OBVIOUS
<1>1. MatchFits(match')
  <2>1. PICK p \in Players :
           match' = [match EXCEPT !.turn = @ + 1, !.player = p, !.status = "aiming",
                                  !.at = @ + 1, !.acts = @ + 1]
    BY DEF ShotEnds
  <2>2. match \in Matches
    BY DEF CueInv, MatchFits
  <2> DEFINE status == "aiming"
             turn == match.turn + 1
             at == match.at + 1
             acts == match.acts + 1
  <2>4. /\ status \in {"aiming", "moving"} /\ turn \in Nat /\ at \in Nat /\ acts \in Nat
        /\ match' = [match EXCEPT !.turn = turn, !.player = p, !.status = status,
                                  !.at = at, !.acts = acts]
    BY <2>1, <2>2 DEF Matches
  <2> HIDE DEF status, turn, at, acts
  <2>3. match' \in Matches /\ match'.status = status
    BY <2>2, <2>4 DEF Matches
  <2>5. match'.status = "aiming"
    BY <2>3 DEF status
  <2> QED BY <2>3, <2>5 DEF MatchFits
<1>2. <<GameStateSync(match')>> \in Seq(CueMessages)
  BY <1>1, MadeMessages
<1>3. PagesFit(page')
  BY <1>2, Publishing DEF CueInv, ShotEnds
<1> QED BY <1>1, <1>3 DEF CueInv, ShotEnds

LEMMA LinkBreaks == ASSUME CueInv, NEW p \in Players, Break(p) PROVE CueInv'
<1>1. MatchFits(match')
  <2>1. match' = [match EXCEPT !.acts = @ + 1] /\ match \in Matches
        /\ (match.timed => match.status = "aiming")
        /\ (match.status = "moving" => match.shotAim \in OwnAims)
    BY DEF Break, CueInv, MatchFits
  <2>2. /\ match' \in Matches /\ match'.status = match.status /\ match'.timed = match.timed
        /\ match'.shotAim = match.shotAim
    BY <2>1 DEF Matches
  <2> QED BY <2>1, <2>2 DEF MatchFits
<1>2. PagesFit(page')
  <2> DEFINE s == page[p]
             t == LinkWith(s, FALSE, <<>>, <<>>, NoPacket, s.aim)
  <2>1. /\ Rendering(s, p) /\ s.effects = {} /\ s.aim \in CueAims
        /\ s.turn = p => s.aim.by = p
    BY PageFields DEF CueInv, PagesFit
  <2>2. /\ <<>> \in Seq(CueMessages) /\ <<>> \in Seq(SentBy(p))
        /\ Len(<<>>) <= MaxInbox /\ Len(<<>>) <= MaxOutbox
    BY CueConstants
  <2> HIDE DEF s
  <2>3. Rendering(t, p) /\ t.effects = {}
    BY <2>1, <2>2, LinkChanges
  <2>4. t = [s EXCEPT !.up = FALSE, !.in = <<>>, !.out = <<>>, !.relay = NoPacket]
    BY <2>1 DEF Rendering, CuePages, LinkWith
  <2>5. page' = [page EXCEPT ![p] =
                    [s EXCEPT !.up = FALSE, !.in = <<>>, !.out = <<>>, !.relay = NoPacket]]
    BY DEF Break, s
  <2>6. page' = [page EXCEPT ![p] = t]
    BY <2>4, <2>5
  <2> HIDE DEF t
  <2> QED BY <2>3, <2>6, OnePage DEF CueInv
<1>3. late' \subseteq Packets
  <2>1. page[p].relay \in Packets /\ late \subseteq Packets
    BY PageFields, CueConstants DEF CueInv
  <2> QED BY <2>1 DEF Break
<1> QED BY <1>1, <1>2, <1>3 DEF CueInv

LEMMA LinkOpens == ASSUME CueInv, NEW p \in Players, Reconnect(p) PROVE CueInv'
<1> DEFINE open == [page EXCEPT ![p].up = TRUE]
           messages == <<GameStateSync(match)>> \o
                       (IF match.status = "moving"
                        THEN <<ShotStarted(match.shotAim, match.shot)>> ELSE <<>>)
<1>1. Publishes(open, messages) /\ match' = match /\ late' = late
  BY DEF Reconnect
<1>2. PagesFit(open)
  <2> DEFINE s == page[p]
             t == [s EXCEPT !.up = TRUE]
  <2>1. Rendering(s, p) /\ s.effects = {}
    BY DEF CueInv, PagesFit
  <2> HIDE DEF s
  <2>2. /\ t \in CuePages(p) /\ t.in = s.in /\ t.out = s.out /\ t.turn = s.turn /\ t.aim = s.aim
        /\ t.effects = s.effects
    BY <2>1 DEF Rendering, CuePages
  <2>3. Rendering(t, p) /\ t.effects = {}
    BY <2>1, <2>2 DEF Rendering
  <2>4. open = [page EXCEPT ![p] = t]
    BY DEF s
  <2> HIDE DEF t, open
  <2> QED BY <2>3, <2>4, OnePage DEF CueInv
<1>3. messages \in Seq(CueMessages)
  <2>1. GameStateSync(match) \in CueMessages
    BY MadeMessages DEF CueInv
  <2>2. match.status = "moving" => ShotStarted(match.shotAim, match.shot) \in CueMessages
    BY MadeMessages DEF CueInv, MatchFits, Matches
  <2> DEFINE sync == GameStateSync(match)
             shotMessage == ShotStarted(match.shotAim, match.shot)
  <2> HIDE DEF sync, shotMessage
  <2>3. messages = <<sync>> \o (IF match.status = "moving" THEN <<shotMessage>> ELSE <<>>)
    BY DEF sync, shotMessage
  <2>4. sync \in CueMessages /\ (match.status = "moving" => shotMessage \in CueMessages)
    BY <2>1, <2>2 DEF sync, shotMessage
  <2>5. <<sync>> \in Seq(CueMessages)
        /\ (match.status = "moving" => <<shotMessage>> \in Seq(CueMessages))
        /\ <<>> \in Seq(CueMessages)
    BY <2>4
  <2>6. CASE match.status = "moving"
    BY <2>3, <2>5, <2>6
  <2>7. CASE match.status # "moving"
    BY <2>3, <2>5, <2>7
  <2> QED BY <2>6, <2>7
<1> HIDE DEF open, messages
<1>4. PagesFit(page')
  BY <1>1, <1>2, <1>3, Publishing
<1> QED BY <1>1, <1>4 DEF CueInv

LEMMA TailShortens ==
    ASSUME NEW S, NEW s \in Seq(S), s # <<>>
    PROVE  Tail(s) \in Seq(S) /\ Head(s) \in S /\ Len(Tail(s)) <= Len(s)
OBVIOUS

LEMMA PacketRead == ASSUME CueInv, NEW p \in Players, RelayReads(p) PROVE CueInv'
<1> DEFINE s == page[p]
           packet == Head(s.out).packet
           relay == IF Relays(p, packet) THEN packet ELSE NoPacket
           t == LinkWith(s, s.up, s.in, Tail(s.out), relay, s.aim)
<1>1. /\ Rendering(s, p) /\ s.effects = {} /\ s.aim \in CueAims /\ s.in \in Seq(CueMessages)
      /\ s.out \in Seq(SentBy(p)) /\ s.out # <<>>
      /\ (s.turn = p => s.aim.by = p)
      /\ s.up \in BOOLEAN /\ Len(s.in) <= MaxInbox /\ Len(s.out) <= MaxOutbox
  <2>1. PagesFit(page) /\ Rendering(s, p) /\ s.out # <<>>
    BY DEF CueInv, PagesFit, RelayReads
  <2> HIDE DEF s
  <2>2. s \in CuePages(p) /\ Len(s.in) <= MaxInbox /\ Len(s.out) <= MaxOutbox
        /\ (s.turn = p => s.aim.by = p)
    BY <2>1 DEF Rendering
  <2>3. s.effects = {}
    BY <2>1 DEF PagesFit, s
  <2> QED BY <2>1, <2>2, <2>3 DEF CuePages
<1>2. /\ Tail(s.out) \in Seq(SentBy(p)) /\ Len(Tail(s.out)) <= MaxOutbox
      /\ Head(s.out) \in SentBy(p)
  BY <1>1, TailShortens, CueConstants
<1>3. relay \in PacketsOf(p) \union {NoPacket}
  BY <1>2 DEF SentBy
<1>4. page' = [page EXCEPT ![p] = [s EXCEPT !.out = Tail(s.out), !.relay = relay]]
  BY DEF RelayReads
<1> HIDE DEF s, relay
<1>5. Rendering(t, p) /\ t.effects = {}
  BY <1>1, <1>2, <1>3, LinkChanges
<1>6. t = [s EXCEPT !.out = Tail(s.out), !.relay = relay]
  BY <1>1 DEF Rendering, CuePages, LinkWith
<1>7. page' = [page EXCEPT ![p] = t]
  BY <1>4, <1>6
<1> HIDE DEF t
<1>8. PagesFit(page')
  BY <1>5, <1>7, OnePage DEF CueInv
<1> QED BY <1>8 DEF CueInv, RelayReads


LEMMA PacketPublished == ASSUME CueInv, NEW p \in Players, RelayPublishes(p) PROVE CueInv'
<1> DEFINE s == page[p]
           t == LinkWith(s, s.up, s.in, s.out, NoPacket, s.aim)
           read == [page EXCEPT ![p] = t]
           q == Opposite(p)
<1>1. /\ Rendering(s, p) /\ s.effects = {}
      /\ s.relay \in PacketsOf(p) /\ s.relay \in Packets /\ s.relay.aim.by = p
  <2>1. s.relay \in PacketsOf(p)
    BY PageFields DEF CueInv, RelayPublishes
  <2> QED BY <2>1, CueConstants DEF CueInv, PagesFit, PacketsOf
<1>2. Room(page, q, 1) /\ page' = Relayed([page EXCEPT ![p].relay = NoPacket], s.relay)
  BY DEF RelayPublishes
<1>3. [page EXCEPT ![p].relay = NoPacket] = [page EXCEPT ![p] = [s EXCEPT !.relay = NoPacket]]
  OBVIOUS
<1>9. q \in Players /\ page = [r \in Players |-> page[r]]
  BY CueConstants DEF CueInv, PagesFit
<1>10. q = p => page[q] = s
  OBVIOUS
<1> HIDE DEF s, q
<1>4. s \in CuePages(p) /\ Len(s.in) <= MaxInbox /\ Len(s.out) <= MaxOutbox
      /\ (s.turn = p => s.aim.by = p)
  BY <1>1 DEF Rendering
<1>5. t = [s EXCEPT !.relay = NoPacket]
  BY <1>4 DEF CuePages, LinkWith
<1>11. t.in = s.in /\ t.up = s.up
  BY <1>4 DEF CuePages, LinkWith
<1>15. /\ s.up \in BOOLEAN /\ s.in \in Seq(CueMessages) /\ s.out \in Seq(SentBy(p))
       /\ s.aim \in CueAims /\ NoPacket \in PacketsOf(p) \union {NoPacket}
  BY <1>4 DEF CuePages
<1>6. Rendering(t, p) /\ t.effects = {}
  BY <1>1, <1>4, <1>15, LinkChanges
<1> HIDE DEF t
<1>7. PagesFit(read)
  BY <1>6, OnePage DEF CueInv
<1>8. page' = Relayed(read, s.relay)
  BY <1>2, <1>3, <1>5
<1>12. Room(read, q, 1)
  BY <1>2, <1>9, <1>10, <1>11 DEF Room
<1>13. Opposite(s.relay.aim.by) = q
  BY <1>1 DEF q
<1> HIDE DEF read
<1>14. PagesFit(page')
  BY <1>1, <1>7, <1>8, <1>12, <1>13, Relaying
<1> QED BY <1>14 DEF CueInv, RelayPublishes

LEMMA LatePublished == CueInv /\ LatePublishes => CueInv'
<1> SUFFICES ASSUME CueInv, LatePublishes PROVE CueInv'
  OBVIOUS
<1>1. PICK packet \in late :
        /\ Room(page, Opposite(packet.aim.by), 1)
        /\ page' = Relayed(page, packet)
        /\ late' = late \ {packet}
  BY DEF LatePublishes
<1>2. PagesFit(page')
  BY <1>1, Relaying DEF CueInv
<1> QED BY <1>1, <1>2 DEF CueInv, LatePublishes

LEMMA ShotServed == ASSUME CueInv, NEW p \in Players, ServeShot(p) PROVE CueInv'
<1> DEFINE s == page[p]
           aim == Head(s.out).packet.aim
           out == Tail(s.out)
           t == LinkWith(s, s.up, s.in, out, s.relay, s.aim)
           read == [page EXCEPT ![p] = t]
<1>1. /\ Rendering(s, p) /\ s.effects = {} /\ s.out # <<>>
  BY DEF CueInv, PagesFit, ServeShot
<1>2. [page EXCEPT ![p].out = Tail(@)] = [page EXCEPT ![p] = [s EXCEPT !.out = Tail(s.out)]]
  OBVIOUS
<1>3. LET before == [page EXCEPT ![p].out = Tail(@)] IN
      IF match.status = "aiming" /\ match.timed /\ match.player = p
      THEN /\ match' = [match EXCEPT !.shot = @ + 1, !.status = "moving", !.timed = FALSE,
                                     !.shotAim = aim, !.at = @ + 1]
           /\ Publishes(before, <<ShotStarted(aim, match'.shot)>>)
      ELSE page' = before /\ UNCHANGED match
  BY DEF ServeShot
<1> HIDE DEF s
<1>4. s \in CuePages(p) /\ Len(s.in) <= MaxInbox /\ Len(s.out) <= MaxOutbox
      /\ (s.turn = p => s.aim.by = p)
  BY <1>1 DEF Rendering
<1>5. /\ s.out \in Seq(SentBy(p)) /\ out \in Seq(SentBy(p))
      /\ Len(out) <= MaxOutbox /\ Head(s.out) \in SentBy(p)
  BY <1>1, <1>4, TailShortens, CueConstants DEF CuePages
<1>6. t = [s EXCEPT !.out = Tail(s.out)]
  BY <1>4 DEF CuePages, LinkWith
<1>15. /\ s.up \in BOOLEAN /\ s.in \in Seq(CueMessages) /\ s.aim \in CueAims
       /\ s.relay \in PacketsOf(p) \union {NoPacket}
  BY <1>4 DEF CuePages
<1> HIDE DEF out
<1>7. Rendering(t, p) /\ t.effects = {}
  BY <1>1, <1>4, <1>5, <1>15, LinkChanges
<1>8. aim \in OwnAims /\ aim \in CueAims
  <2>1. Head(s.out).packet \in PacketsOf(p)
    BY <1>5 DEF SentBy
  <2>2. Head(s.out).packet \in OwnPackets /\ OwnAims \subseteq CueAims
    BY <2>1, CueConstants
  <2> QED BY <2>2 DEF OwnPackets
<1> HIDE DEF t, aim
<1>9. PagesFit(read)
  BY <1>7, OnePage DEF CueInv
<1>10. [page EXCEPT ![p].out = Tail(@)] = read
  BY <1>2, <1>6
<1> HIDE DEF read
<1>11. CASE match.status = "aiming" /\ match.timed /\ match.player = p
  <2>1. /\ match' = [match EXCEPT !.shot = @ + 1, !.status = "moving", !.timed = FALSE,
                                  !.shotAim = aim, !.at = @ + 1]
        /\ Publishes(read, <<ShotStarted(aim, match'.shot)>>)
    BY <1>3, <1>10, <1>11
  <2>2. match \in Matches
    BY DEF CueInv, MatchFits
  <2> DEFINE status == "moving"
             timed == FALSE
             seq == match.shot + 1
             at == match.at + 1
  <2>3. /\ status \in {"aiming", "moving"} /\ timed \in BOOLEAN /\ seq \in Nat /\ at \in Nat
        /\ match' = [match EXCEPT !.shot = seq, !.status = status, !.timed = timed,
                                  !.shotAim = aim, !.at = at]
    BY <2>1, <2>2 DEF Matches
  <2> HIDE DEF status, timed, seq, at
  <2>4. /\ match' \in Matches /\ match'.status = status /\ match'.timed = timed
        /\ match'.shotAim = aim
    BY <1>8, <2>2, <2>3 DEF Matches
  <2> USE DEF timed
  <2>5. MatchFits(match')
    BY <1>8, <2>4 DEF MatchFits
  <2>6. ShotStarted(aim, match'.shot) \in CueMessages
    BY <1>8, <2>4, MadeMessages DEF Matches
  <2> DEFINE message == ShotStarted(aim, match'.shot)
  <2> HIDE DEF message
  <2>7. message \in CueMessages /\ Publishes(read, <<message>>)
    BY <2>1, <2>6 DEF message
  <2>8. <<message>> \in Seq(CueMessages)
    BY <2>7
  <2>9. PagesFit(page')
    BY <1>9, <2>7, <2>8, Publishing
  <2> QED BY <2>5, <2>9 DEF CueInv, ServeShot
<1>12. CASE ~(match.status = "aiming" /\ match.timed /\ match.player = p)
  <2>1. page' = read /\ match' = match
    BY <1>3, <1>10, <1>12
  <2> QED BY <1>9, <2>1 DEF CueInv, ServeShot
<1> QED BY <1>11, <1>12

-----------------------------------------------------------------------------
(* The page: a render, and what its player does.                           *)

LEMMA Rendered ==
    ASSUME NEW p \in Players, NEW t, Rendering(t, p), NEW k \in DOMAIN t.in
    PROVE  LET u == [t EXCEPT !.in = SubSeq(@, k + 1, Len(@)), !.effects = {},
                              !.snap = NoSnapshot, !.started = NoPacket] IN
           Rendering(u, p) /\ u.effects = {}
<1> DEFINE in == SubSeq(t.in, k + 1, Len(t.in))
           effects == {}
           u == [t EXCEPT !.in = in, !.effects = effects, !.snap = NoSnapshot,
                          !.started = NoPacket]
<1>1. t \in CuePages(p) /\ t.in \in Seq(CueMessages) /\ Len(t.in) <= MaxInbox
  BY DEF Rendering, CuePages
<1>2. k \in 1 .. Len(t.in) /\ Len(t.in) \in Nat
  BY <1>1
<1>3. in \in Seq(CueMessages) /\ Len(in) <= Len(t.in)
  <2>1. /\ k + 1 \in Nat /\ k + 1 >= 1 /\ Len(t.in) - (k + 1) + 1 = Len(t.in) - k
        /\ Len(t.in) - k \in Nat /\ Len(t.in) - k <= Len(t.in)
    BY <1>2
  <2>2. \A i \in 1 .. Len(t.in) - k : t.in[k + i] \in CueMessages
    BY <1>1, <1>2
  <2>3. in \in Seq(CueMessages)
    BY <1>1, <1>2, SubSeqProperties
  <2>4. Len(in) = Len(t.in) - k
    BY <1>1, <1>2, <2>1, SubSeqProperties
  <2> QED BY <2>1, <2>3, <2>4
<1>4. Len(in) <= MaxInbox
  BY <1>1, <1>2, <1>3, CueConstants
<1>5. effects \in SUBSET {"cue", "snap", "shot"}
  OBVIOUS
<1> HIDE DEF in, effects
<1>6. /\ u \in CuePages(p) /\ u.in = in /\ u.out = t.out /\ u.turn = t.turn /\ u.aim = t.aim
      /\ u.effects = effects
  BY <1>1, <1>3, <1>5, CueConstants DEF CuePages
<1>7. effects = {}
  BY DEF effects
<1>8. Rendering(u, p) /\ u.effects = {}
  BY <1>4, <1>6, <1>7 DEF Rendering
<1>9. u = [t EXCEPT !.in = SubSeq(@, k + 1, Len(@)), !.effects = {},
                    !.snap = NoSnapshot, !.started = NoPacket]
  BY DEF in, effects
<1> HIDE DEF u
<1> QED BY <1>8, <1>9

LEMMA PageRenders == ASSUME CueInv, NEW p \in Players, Render(p) PROVE CueInv'
<1>1. PICK k \in DOMAIN page[p].in :
         \E s \in {Handled(page[p])[k]} : \E t \in {Effects(s, p, match.aims + 1)} :
            /\ page' = [page EXCEPT ![p] =
                   [t EXCEPT !.in = SubSeq(@, k + 1, Len(@)), !.effects = {},
                             !.snap = NoSnapshot, !.started = NoPacket]]
            /\ match' = IF t.turn = p /\ s.turn # p THEN [match EXCEPT !.aims = @ + 1] ELSE match
  BY DEF Render
<1> DEFINE s == Handled(page[p])[k]
           t == Effects(s, p, match.aims + 1)
           u == [t EXCEPT !.in = SubSeq(@, k + 1, Len(@)), !.effects = {},
                          !.snap = NoSnapshot, !.started = NoPacket]
<1>2. /\ page' = [page EXCEPT ![p] = u]
      /\ match' = IF t.turn = p /\ s.turn # p THEN [match EXCEPT !.aims = @ + 1] ELSE match
  BY <1>1
<1>3. Rendering(page[p], p)
  BY DEF CueInv, PagesFit
<1>4. Rendering(s, p) /\ s.in = page[p].in
  BY <1>3, AllHandled
<1>5. match.aims + 1 \in Nat /\ match \in Matches
  BY DEF CueInv, MatchFits, Matches
<1> HIDE DEF s
<1>6. Rendering(t, p) /\ t.in = s.in
  BY <1>4, <1>5, AllEffects
<1> HIDE DEF t
<1>7. Rendering(u, p) /\ u.effects = {}
  BY <1>4, <1>6, Rendered
<1> HIDE DEF u
<1>8. PagesFit(page')
  BY <1>2, <1>7, OnePage DEF CueInv
<1>9. MatchFits(match')
  <2> DEFINE aims == match.aims + 1
  <2>1. match' = match \/ match' = [match EXCEPT !.aims = aims]
    BY <1>2
  <2>2. aims \in Nat
    BY <1>5
  <2> HIDE DEF aims
  <2>3. MatchFits(match)
    BY DEF CueInv
  <2>4. CASE match' = [match EXCEPT !.aims = aims]
    <3>1. /\ match' \in Matches /\ match'.status = match.status /\ match'.timed = match.timed
          /\ match'.shotAim = match.shotAim
      BY <1>5, <2>2, <2>4 DEF Matches
    <3> QED BY <2>3, <3>1 DEF MatchFits
  <2> QED BY <2>1, <2>3, <2>4
<1> QED BY <1>8, <1>9 DEF CueInv, Render

\* The player's page with an aim of the player's own and perhaps a message more to the lobby.
LEMMA PlayerActs ==
    ASSUME CueInv, NEW p \in Players, page[p].turn = p, NEW aim \in CueAims, aim.by = p,
           NEW out \in Seq(SentBy(p)), Len(out) <= MaxOutbox, NEW pg,
           pg = [page EXCEPT ![p] = [page[p] EXCEPT !.out = out, !.aim = aim]]
    PROVE  PagesFit(pg)
<1> DEFINE s == page[p]
           t == LinkWith(s, s.up, s.in, out, s.relay, aim)
<1>1. Rendering(s, p) /\ s.effects = {}
  BY DEF CueInv, PagesFit
<1>2. pg = [page EXCEPT ![p] = [s EXCEPT !.out = out, !.aim = aim]]
  OBVIOUS
<1> HIDE DEF s
<1>3. s \in CuePages(p) /\ Len(s.in) <= MaxInbox
  BY <1>1 DEF Rendering
<1>4. /\ s.up \in BOOLEAN /\ s.in \in Seq(CueMessages) /\ s.relay \in PacketsOf(p) \union {NoPacket}
  BY <1>3 DEF CuePages
<1>5. t = [s EXCEPT !.out = out, !.aim = aim]
  BY <1>3 DEF CuePages, LinkWith
<1>6. Rendering(t, p) /\ t.effects = {}
  BY <1>1, <1>3, <1>4, LinkChanges
<1>7. pg = [page EXCEPT ![p] = t]
  BY <1>2, <1>5
<1> HIDE DEF t
<1>8. PagesFit(page)
  BY DEF CueInv
<1>9. PagesFit([page EXCEPT ![p] = t])
  BY <1>6, <1>8, OnePage
<1> QED BY <1>7, <1>9

LEMMA MatchCounts ==
    ASSUME CueInv, NEW aims \in Nat, NEW acts \in Nat, NEW m,
           m = [match EXCEPT !.aims = aims, !.acts = acts]
    PROVE  MatchFits(m)
<1>1. match \in Matches /\ MatchFits(match)
  BY DEF CueInv, MatchFits
<1>2. /\ m \in Matches /\ m.status = match.status /\ m.timed = match.timed
      /\ m.shotAim = match.shotAim
  BY <1>1 DEF Matches
<1> QED BY <1>1, <1>2 DEF MatchFits

\* What a message to the lobby adds to those on their way.
LEMMA OneMore ==
    ASSUME CueInv, NEW p \in Players, CanSend(p), NEW m \in SentBy(p)
    PROVE  /\ Append(page[p].out, m) \in Seq(SentBy(p))
           /\ Len(Append(page[p].out, m)) <= MaxOutbox
<1>1. page[p].out \in Seq(SentBy(p)) /\ Len(page[p].out) < MaxOutbox
  BY PageFields DEF CueInv, CanSend
<1> QED BY <1>1, AppendAdds, CueConstants

LEMMA OwnMessages ==
    ASSUME NEW p \in Players, NEW aim \in CueAims, aim.by = p, NEW n \in Nat
    PROVE  CueState(Packet(aim, n)) \in SentBy(p) /\ ShotStarted(aim, n) \in SentBy(p)
<1>1. Packet(aim, n) \in PacketsOf(p)
  BY DEF Packet, PacketsOf, CueAims
<1> QED BY <1>1, CueConstants DEF CueState, ShotStarted, Message, SentBy

LEMMA AimTurns == ASSUME CueInv, NEW p \in Players, Turn(p) PROVE CueInv'
<1> DEFINE aim == NextAim(p)
           aims == match.aims + 1
           acts == match.acts + 1
           out == page[p].out
<1>1. page[p].turn = p /\ page' = [page EXCEPT ![p].aim = aim] /\ late' = late
      /\ match' = [match EXCEPT !.aims = aims, !.acts = acts]
  BY DEF Turn, canControlCue
<1>2. aims \in Nat /\ acts \in Nat
  BY DEF CueInv, MatchFits, Matches
<1>3. aim \in CueAims /\ aim.by = p
  BY <1>2, CueConstants DEF NextAim
<1>4. out \in Seq(SentBy(p)) /\ Len(out) <= MaxOutbox
  BY PageFields DEF CueInv
<1> HIDE DEF aim, aims, acts
<1>5. page' = [page EXCEPT ![p] = [page[p] EXCEPT !.out = out, !.aim = aim]]
  <2>1. page[p] \in CuePages(p)
    BY PageFields DEF CueInv
  <2>2. [page[p] EXCEPT !.out = out, !.aim = aim] = [page[p] EXCEPT !.aim = aim]
    BY <2>1 DEF CuePages
  <2> QED BY <1>1, <2>2
<1> HIDE DEF out
<1>6. PagesFit(page')
  BY <1>1, <1>3, <1>4, <1>5, PlayerActs
<1>7. MatchFits(match')
  BY <1>1, <1>2, MatchCounts
<1> QED BY <1>1, <1>6, <1>7 DEF CueInv

LEMMA PowerTold == ASSUME CueInv, NEW p \in Players, handlePowerChange(p) PROVE CueInv'
<1> DEFINE aim == NextAim(p)
           aims == match.aims + 1
           acts == match.acts + 1
           m == CueState(Packet(aim, page[p].shot))
           out == Append(page[p].out, m)
<1>1. /\ page[p].turn = p /\ CanSend(p) /\ late' = late
      /\ match' = [match EXCEPT !.aims = aims, !.acts = acts]
      /\ page' = [page EXCEPT ![p] = sendCueState([page[p] EXCEPT !.aim = aim])]
  BY DEF handlePowerChange, canControlCue
<1>2. aims \in Nat /\ acts \in Nat /\ page[p] \in CuePages(p) /\ page[p].shot \in Nat
  BY PageFields DEF CueInv, MatchFits, Matches
<1>3. aim \in CueAims /\ aim.by = p
  BY <1>2, CueConstants DEF NextAim
<1> HIDE DEF aim, aims, acts
<1>4. out \in Seq(SentBy(p)) /\ Len(out) <= MaxOutbox
  <2>1. m \in SentBy(p)
    BY <1>2, <1>3, OwnMessages
  <2> HIDE DEF m
  <2> QED BY <1>1, <2>1, OneMore
<1>5. sendCueState([page[p] EXCEPT !.aim = aim]) = [page[p] EXCEPT !.out = out, !.aim = aim]
  BY <1>2 DEF sendCueState, Sent, CuePages
<1> HIDE DEF out
<1>6. PagesFit(page')
  BY <1>1, <1>3, <1>4, <1>5, PlayerActs
<1>7. MatchFits(match')
  BY <1>1, <1>2, MatchCounts
<1> QED BY <1>1, <1>6, <1>7 DEF CueInv

LEMMA CueTold ==
    ASSUME CueInv, NEW p \in Players, publishCueState(p) \/ handleShoot(p)
    PROVE  CueInv'
<1> DEFINE aim == page[p].aim
           cue == CueState(Packet(aim, page[p].shot))
           strike == ShotStarted(aim, page[p].shot)
<1>1. page[p].turn = p /\ CanSend(p) /\ late' = late /\ match' = match
  BY DEF publishCueState, handleShoot, canControlCue
<1>2. page[p] \in CuePages(p) /\ page[p].shot \in Nat /\ aim \in CueAims /\ aim.by = p
  BY <1>1, PageFields DEF CueInv
<1>3. PICK m \in {cue, strike} : page' = [page EXCEPT ![p] = Sent(page[p], m)]
  <2>1. CASE publishCueState(p)
    BY <2>1 DEF publishCueState, sendCueState
  <2>2. CASE handleShoot(p)
    BY <2>2 DEF handleShoot
  <2> QED BY <2>1, <2>2
<1>4. m \in SentBy(p)
  BY <1>2, <1>3, OwnMessages
<1> DEFINE out == Append(page[p].out, m)
<1>5. out \in Seq(SentBy(p)) /\ Len(out) <= MaxOutbox
  BY <1>1, <1>4, OneMore
<1>6. Sent(page[p], m) = [page[p] EXCEPT !.out = out, !.aim = aim]
  BY <1>2 DEF Sent, CuePages
<1> HIDE DEF out, aim
<1>7. PagesFit(page')
  BY <1>1, <1>2, <1>3, <1>5, <1>6, PlayerActs
<1> QED BY <1>1, <1>7 DEF CueInv

LEMMA CueInvStep == CueInv /\ [Next]_cueVars => CueInv'
<1> SUFFICES ASSUME CueInv, [Next]_cueVars PROVE CueInv'
  OBVIOUS
<1>1. CASE UNCHANGED cueVars
  BY <1>1 DEF cueVars, CueInv
<1>2. CASE StartClock \/ TurnTimeout \/ ShotEnds \/ LatePublishes
  BY <1>2, ClockStarts, TurnTimesOut, ShotIsOver, LatePublished
<1>3. ASSUME NEW p \in Players, Shows(p) \/ Break(p) PROVE CueInv'
  BY <1>3, LinkOpens, PageRenders, LinkBreaks DEF Shows
<1>4. ASSUME NEW p \in Players, Tells(p) PROVE CueInv'
  BY <1>4, CueTold, PacketRead, PacketPublished, ShotServed DEF Tells
<1>5. ASSUME NEW p \in Players, Turn(p) \/ handlePowerChange(p) \/ handleShoot(p)
      PROVE  CueInv'
  BY <1>5, AimTurns, PowerTold, CueTold
<1> QED BY <1>1, <1>2, <1>3, <1>4, <1>5 DEF Next

LEMMA CueInvariance == CueSpec => []CueInv
<1> QED BY CueInvInit, CueInvStep, PTL DEF CueSpec

-----------------------------------------------------------------------------
\* The match, the pages and what is on the way between them are of their types, and no link
\* holds more than its buffer (ws_handler.go, GamePage.tsx).
THEOREM CueTypes == CueSpec => []TypeOK
<1>1. ASSUME CueInv PROVE TypeOK
  <2>1. /\ match.player \in Players /\ match.status \in {"aiming", "moving"}
        /\ match.timed => match.status = "aiming"
        /\ late \subseteq Packets
    BY <1>1 DEF CueInv, MatchFits, Matches
  <2>2. ASSUME NEW p \in Players
        PROVE  /\ page[p].relay \in Packets /\ page[p].remote \in Packets
               /\ page[p].effects \subseteq {"cue", "snap", "shot"}
               /\ page[p].turn \in Players /\ page[p].status \in {"aiming", "moving"}
               /\ Len(page[p].in) <= MaxInbox /\ Len(page[p].out) <= MaxOutbox
    <3>1. Rendering(page[p], p)
      BY <1>1 DEF CueInv, PagesFit
    <3> QED BY <3>1, CueConstants DEF Rendering, CuePages
  <2> QED BY <2>1, <2>2 DEF TypeOK
<1> QED BY <1>1, CueInvariance, PTL

\* Who has the turn on their own page aims there with an aim of their own, however late the
\* packets of the other player's turn are and however many messages one render shows
\* (SnookerMatch.tsx: shouldRenderRemoteCue and the effects of a render).
THEOREM OwnAimIsKept == CueSpec => []MyAimIsMine
<1>1. CueInv => MyAimIsMine
  BY DEF CueInv, PagesFit, Rendering, MyAimIsMine
<1> QED BY <1>1, CueInvariance, PTL

-----------------------------------------------------------------------------
(***************************************************************************)
(* TableMotion: types.  A ball's speed is one of MaxSpeed because no shot  *)
(* gives more and balls that meet pass on what they have.  The speed of    *)
(* the shot is a set of so many units, of which no two balls have the same *)
(* one: this says, without a sum over the balls, that they have no more    *)
(* than MaxSpeed together.                                                 *)
(***************************************************************************)
Units == 1 .. MaxSpeed

Shares(t, share) ==
    /\ share \in [Balls -> SUBSET Units]
    /\ \A b \in Balls : Cardinality(share[b]) = t[b].speed
    /\ \A b, c \in Balls : b # c => share[b] \cap share[c] = {}

Shared(t) == \E share \in [Balls -> SUBSET Units] : Shares(t, share)

\* A ball goes down for less than SinkTicks.
GoesDown(t) == \A b \in Balls : t[b].down < SinkTicks

BoundsInv ==
    /\ Shared(balls) /\ GoesDown(balls) /\ GoesDown(shot.before)
    /\ \A i \in DOMAIN shot.told : GoesDown(shot.told[i].balls)
    /\ loop.ticks <= TicksPerFrame

LEMMA SubsetOfSize ==
    ASSUME NEW S, IsFiniteSet(S), NEW k \in Nat, k <= Cardinality(S)
    PROVE  \E T \in SUBSET S : Cardinality(T) = k
<1> DEFINE n == Cardinality(S)
<1>1. n \in Nat /\ ExistsBijection(1 .. n, S)
  BY FS_CardinalityType
<1> HIDE DEF n
<1>2. PICK f \in Bijection(1 .. n, S) : TRUE
  BY <1>1 DEF ExistsBijection
<1>3. f \in [1 .. n -> S] /\ \A i, j \in 1 .. n : f[i] = f[j] => i = j
  BY <1>2 DEF Bijection, Injection, IsInjective
<1> DEFINE T == {f[i] : i \in 1 .. k}
           g == [i \in 1 .. k |-> f[i]]
<1>4. 1 .. k \subseteq 1 .. n
  BY <1>1 DEF n
<1>5. T \in SUBSET S
  BY <1>3, <1>4
<1>6. g \in Bijection(1 .. k, T)
  BY <1>3, <1>4 DEF Bijection, Injection, Surjection, IsInjective
<1>7. IsFiniteSet(1 .. k) /\ Cardinality(1 .. k) = k
  BY FS_Interval
<1>8. Cardinality(T) = k
  <2> HIDE DEF T, g
  <2>1. ExistsBijection(1 .. k, T)
    BY <1>6 DEF ExistsBijection
  <2> QED BY <1>7, <2>1, FS_Bijection
<1> QED BY <1>5, <1>8

LEMMA UnitsCount ==
    /\ \A S \in SUBSET Units : IsFiniteSet(S) /\ Cardinality(S) \in 0 .. MaxSpeed
    /\ \A s \in 0 .. MaxSpeed : \E S \in SUBSET Units : Cardinality(S) = s
<1>1. MaxSpeed \in Nat
  BY TableAssumption
<1>2. IsFiniteSet(Units) /\ Cardinality(Units) = MaxSpeed
  BY <1>1, FS_Interval DEF Units
<1>3. ASSUME NEW S \in SUBSET Units PROVE IsFiniteSet(S) /\ Cardinality(S) \in 0 .. MaxSpeed
  <2>1. IsFiniteSet(S) /\ Cardinality(S) <= MaxSpeed
    BY <1>2, FS_Subset
  <2>2. Cardinality(S) \in Nat
    BY <2>1, FS_CardinalityType
  <2> QED BY <1>1, <2>1, <2>2
<1>4. ASSUME NEW s \in 0 .. MaxSpeed PROVE \E S \in SUBSET Units : Cardinality(S) = s
  BY <1>1, <1>2, SubsetOfSize
<1> QED BY <1>3, <1>4

LEMMA SharedIsBounded ==
    ASSUME NEW t, Shared(t), NEW b \in Balls
    PROVE  t[b].speed \in 0 .. MaxSpeed
BY UnitsCount DEF Shared, Shares

LEMMA RestingIsShared ==
    ASSUME NEW t, Resting(t)
    PROVE  Shared(t)
<1> DEFINE share == [b \in Balls |-> {}]
<1>1. Shares(t, share)
  BY FS_EmptySet DEF Shares, Resting
<1> QED BY <1>1 DEF Shared, Shares

\* Balls that get slower give units back.
LEMMA SlowerIsShared ==
    ASSUME NEW t, Shared(t), NEW u,
           \A b \in Balls : u[b].speed \in Nat /\ u[b].speed <= t[b].speed
    PROVE  Shared(u)
<1>1. PICK share \in [Balls -> SUBSET Units] : Shares(t, share)
  BY DEF Shared
<1>2. \A b \in Balls : \E S \in SUBSET share[b] : Cardinality(S) = u[b].speed
  BY <1>1, UnitsCount, SubsetOfSize DEF Shares
<1> DEFINE less == [b \in Balls |->
                        CHOOSE S \in SUBSET share[b] : Cardinality(S) = u[b].speed]
<1>3. \A b \in Balls : less[b] \in SUBSET share[b] /\ Cardinality(less[b]) = u[b].speed
  BY <1>2
<1>4. less \in [Balls -> SUBSET Units]
  BY <1>3
<1> HIDE DEF less
<1>5. Shares(u, less)
  BY <1>1, <1>3, <1>4 DEF Shares
<1> QED BY <1>4, <1>5 DEF Shared

LEMMA CollidedIsShared ==
    ASSUME NEW t \in TableTypes, Shared(t), NEW u \in Collided(t)
    PROVE  Shared(u)
<1>1. CASE u = t
  BY <1>1
<1>2. CASE u # t
  <2>1. PICK p \in Balls, q \in Balls, s \in 0 .. MaxSpeed :
              /\ p # q /\ s <= t[p].speed + t[q].speed
              /\ u = [t EXCEPT ![p].speed = s, ![q].speed = t[p].speed + t[q].speed - s]
    <3>1. PICK p \in Balls, q \in Balls, s \in 0 .. MaxSpeed : Meet(t, p, q, s, u)
      BY <1>2, Meeting
    <3> QED BY <3>1 DEF Meet
  <2> DEFINE left == t[p].speed + t[q].speed - s
  <2>2. PICK share \in [Balls -> SUBSET Units] : Shares(t, share)
    BY DEF Shared
  <2> DEFINE both == share[p] \cup share[q]
  <2>3. /\ IsFiniteSet(both) /\ Cardinality(both) = t[p].speed + t[q].speed
        /\ t[p].speed \in Nat /\ t[q].speed \in Nat
    <3>1. /\ IsFiniteSet(share[p]) /\ IsFiniteSet(share[q]) /\ share[p] \cap share[q] = {}
          /\ Cardinality(share[p]) = t[p].speed /\ Cardinality(share[q]) = t[q].speed
      BY <2>1, <2>2, UnitsCount DEF Shares
    <3>2. t[p].speed \in Nat /\ t[q].speed \in Nat
      BY DEF TableTypes, BallTypes
    <3> QED BY <3>1, <3>2, FS_Union, FS_EmptySet
  <2>4. s \in Nat
    BY TableAssumption
  <2>5. PICK one \in SUBSET both : Cardinality(one) = s
    BY <2>1, <2>3, <2>4, SubsetOfSize
  <2> DEFINE other == both \ one
  <2>6. Cardinality(other) = left
    <3>1. both \cap one = one
      OBVIOUS
    <3> HIDE DEF both
    <3>2. Cardinality(both \ one) = Cardinality(both) - Cardinality(both \cap one)
      BY <2>3, FS_Difference
    <3>3. Cardinality(both \ one) = Cardinality(both) - Cardinality(one)
      BY <3>1, <3>2
    <3> QED BY <2>3, <2>5, <3>3
  <2> DEFINE shared == [share EXCEPT ![p] = one, ![q] = other]
  <2>7. /\ shared \in [Balls -> SUBSET Units] /\ shared[p] = one /\ shared[q] = other
        /\ \A b \in Balls : b # p /\ b # q => shared[b] = share[b]
    BY <2>1, <2>2
  <2>8. /\ u[p].speed = s /\ u[q].speed = left
        /\ \A b \in Balls : b # p /\ b # q => u[b] = t[b]
    BY <2>1 DEF TableTypes, BallTypes
  <2> HIDE DEF shared, left
  <2>9. \A b \in Balls : Cardinality(shared[b]) = u[b].speed
    BY <2>2, <2>5, <2>6, <2>7, <2>8 DEF Shares
  <2>10. one \cap other = {} /\ one \cup other = both
    OBVIOUS
  <2>11. ASSUME NEW b \in Balls, NEW c \in Balls, b # c PROVE shared[b] \cap shared[c] = {}
    <3>1. share[b] \cap share[c] = {}
      BY <2>2, <2>11 DEF Shares
    <3>2. ASSUME NEW d \in Balls, d # p, d # q PROVE share[d] \cap both = {}
      BY <2>2, <3>2 DEF Shares
    <3> HIDE DEF both, other
    <3> QED BY <2>7, <2>10, <2>11, <3>1, <3>2
  <2> QED BY <2>7, <2>9, <2>11 DEF Shared, Shares
<1> QED BY <1>1, <1>2

LEMMA StepIsShared ==
    ASSUME NEW t, Fits(t), Shared(t), NEW u \in stepSimulation(t)
    PROVE  Shared(u)
<1>1. PICK v \in [Balls -> UNION {Moved(t[b]) : b \in Balls}] :
            (\A b \in Balls : v[b] \in Moved(t[b])) /\ u \in Collided(v)
  BY DEF stepSimulation
<1>2. ASSUME NEW b \in Balls
      PROVE  v[b] \in BallTypes /\ v[b].speed \in Nat /\ v[b].speed <= t[b].speed
  <2>1. t[b] \in BallTypes /\ (t[b].place # "up" => t[b].speed = 0) /\ v[b] \in Moved(t[b])
    BY <1>1 DEF Fits, TableTypes
  <2>2. /\ v[b] \in BallTypes /\ (v[b].place = "up" => v[b].speed <= t[b].speed)
        /\ (v[b].place # "up" => v[b].speed = 0)
    BY <2>1, MovedFits DEF TickOf
  <2> QED BY <2>1, <2>2 DEF BallTypes
<1>3. v \in TableTypes /\ Shared(v)
  BY <1>1, <1>2, SlowerIsShared DEF TableTypes
<1> QED BY <1>1, <1>3, CollidedIsShared

LEMMA StillUp == Still.down = 0 /\ 0 < SinkTicks
BY TableAssumption DEF Still

\* The place and the speed of a ball are not how far down it is.
LEMMA PutStill ==
    ASSUME NEW place, NEW over
    PROVE  [Still EXCEPT !.place = place].down = 0 /\ [Still EXCEPT !.overPocket = over].down = 0
BY DEF Still

LEMMA StepGoesDown ==
    ASSUME NEW t, Fits(t), GoesDown(t), NEW u \in stepSimulation(t)
    PROVE  GoesDown(u)
<1>1. PICK v \in [Balls -> UNION {Moved(t[b]) : b \in Balls}] :
            (\A b \in Balls : v[b] \in Moved(t[b])) /\ u \in Collided(v)
  BY DEF stepSimulation
<1>2. ASSUME NEW b \in Balls
      PROVE  v[b] \in BallTypes /\ v[b].down < SinkTicks
  <2>1. /\ t[b] \in BallTypes /\ (t[b].place # "up" => t[b].speed = 0)
        /\ v[b] \in Moved(t[b]) /\ t[b].down < SinkTicks
    BY <1>1 DEF Fits, TableTypes, GoesDown
  <2>2. v[b] \in BallTypes
    BY <2>1, MovedFits
  <2>3. CASE v[b] \in {t[b]} \cup {[t[b] EXCEPT !.speed = s] : s \in 0 .. t[b].speed}
    BY <2>1, <2>3 DEF BallTypes
  <2>4. CASE v[b] = beginSinking(t[b])
    BY <2>2, <2>4, PutStill, StillUp DEF beginSinking
  <2>5. CASE v[b] = updateSinkingBall(t[b])
    <3>1. CASE t[b].down + 1 < SinkTicks
      BY <2>1, <2>5, <3>1 DEF updateSinkingBall, BallTypes
    <3>2. CASE ~(t[b].down + 1 < SinkTicks)
      BY <2>2, <2>5, <3>2, PutStill, StillUp DEF updateSinkingBall
    <3> QED BY <3>1, <3>2
  <2>6. \/ v[b] \in {t[b]} \cup {[t[b] EXCEPT !.speed = s] : s \in 0 .. t[b].speed}
        \/ v[b] = beginSinking(t[b]) \/ v[b] = updateSinkingBall(t[b])
    <3>1. t[b].place \in {"up", "sinking", "sunk"} /\ t[b].overPocket \in BOOLEAN
      BY <2>1 DEF BallTypes
    <3>2. CASE t[b].place # "up" \/ t[b].overPocket
      BY <2>1, <3>1, <3>2 DEF Moved
    <3>3. CASE t[b].place = "up" /\ ~t[b].overPocket
      BY <2>1, <3>3 DEF Moved
    <3> QED BY <3>2, <3>3
  <2> QED BY <2>2, <2>3, <2>4, <2>5, <2>6
<1>3. v \in TableTypes
  BY <1>1, <1>2 DEF TableTypes
<1>4. CASE u = v
  BY <1>2, <1>4 DEF GoesDown
<1>5. CASE u # v
  <2>1. PICK p \in Balls, q \in Balls, s \in 0 .. MaxSpeed : Meet(v, p, q, s, u)
    BY <1>1, <1>5, Meeting
  <2>2. \A b \in Balls : u[b].down = v[b].down
    BY <1>3, <2>1 DEF Meet, TableTypes, BallTypes
  <2> QED BY <1>2, <2>2 DEF GoesDown
<1> QED BY <1>4, <1>5

\* The tables that frames and snapshots leave.
LEMMA BareGoesDown ==
    ASSUME NEW t, t \in TableTypes, GoesDown(t)
    PROVE  GoesDown(Bare(t))
<1>1. ASSUME NEW b \in Balls PROVE Bare(t)[b].down = t[b].down
  <2>1. Bare(t)[b] = [t[b] EXCEPT !.overPocket = FALSE] /\ t[b] \in BallTypes
    BY DEF Bare, TableTypes
  <2> QED BY <2>1 DEF BallTypes
<1> QED BY <1>1 DEF GoesDown

LEMMA RespawnedGoesDown ==
    ASSUME NEW t \in TableTypes, GoesDown(t), NEW u \in Respawned(t)
    PROVE  GoesDown(u)
<1>1. CASE u = t
  BY <1>1
<1>2. ASSUME NEW over \in BOOLEAN, u = [t EXCEPT ![White] = [Still EXCEPT !.overPocket = over]]
      PROVE  GoesDown(u)
  <2> DEFINE w == [Still EXCEPT !.overPocket = over]
  <2>1. w.down = 0 /\ u = [t EXCEPT ![White] = w]
    BY <1>2, PutStill
  <2> HIDE DEF w
  <2>2. \A b \in Balls : u[b] = IF b = White THEN w ELSE t[b]
    BY <2>1 DEF TableTypes
  <2> QED BY <2>1, <2>2, StillUp DEF GoesDown
<1> QED BY <1>1, <1>2 DEF Respawned

\* With some balls down.
LEMMA SunkGoesDown ==
    ASSUME NEW t, GoesDown(t), NEW down
    PROVE  GoesDown([b \in Balls |-> IF b \in down THEN [Still EXCEPT !.place = "sunk"] ELSE t[b]])
BY PutStill, StillUp DEF GoesDown

LEMMA InitGoesDown == GoesDown(initBalls) /\ \A t \in Tables : GoesDown(t)
<1>1. GoesDown(initBalls)
  BY StillUp DEF initBalls, GoesDown
<1> QED BY <1>1, SunkGoesDown DEF Tables

LEMMA BoundsInit == TableInit => BoundsInv
<1> SUFFICES ASSUME TableInit PROVE BoundsInv
  OBVIOUS
<1>1. Resting(balls) /\ GoesDown(balls) /\ GoesDown(initBalls)
  BY InitialTables, InitGoesDown DEF TableInit
<1>2. shot.before = initBalls /\ shot.told = <<>> /\ loop.ticks = 0 /\ TicksPerFrame \in Nat
  BY NoShotFits, TableAssumption DEF TableInit
<1>3. DOMAIN shot.told = {}
  BY <1>2
<1> QED BY <1>1, <1>2, <1>3, RestingIsShared DEF BoundsInv

LEMMA BoundsStep ==
    ASSUME TableInv, BoundsInv, [TableNext]_tableVars
    PROVE  BoundsInv'
<1>1. shot \in Shots /\ loop \in Loops /\ Fits(balls) /\ balls \in TableTypes
  BY DEF TableInv, ShotTypes, LoopInv, Shots, Loops, Fits
<1>2. CASE beginShot
  <2>1. PICK mine \in BOOLEAN : shot' = NewShot(mine, balls)
    BY <1>2 DEF beginShot, NewShot
  <2>2. hud.set /\ balls' = balls /\ loop' = loop
    BY <1>2 DEF beginShot
  <2>3. shot'.before = balls /\ shot'.told = <<>>
    BY <2>1, <2>2, NewShotFits DEF TableInv, RestingInv
  <2>4. DOMAIN shot'.told = {}
    BY <2>3
  <2> QED BY <2>2, <2>3, <2>4 DEF BoundsInv
<1>3. CASE handleCueContact
  <2>1. Resting(balls) /\ loop' = loop /\ shot' = shot
    BY <1>3 DEF handleCueContact, TableInv, StrikingInv, RestingInv
  <2>2. CASE balls' = balls
    BY <2>1, <2>2 DEF BoundsInv
  <2>3. CASE \E s \in 1 .. MaxSpeed : balls' = [balls EXCEPT ![White].speed = s]
    <3>1. PICK s \in 1 .. MaxSpeed : balls' = [balls EXCEPT ![White].speed = s]
      BY <2>3
    <3> DEFINE w == [balls[White] EXCEPT !.speed = s]
    <3>2. White \in Balls /\ balls[White] \in BallTypes /\ balls' = [balls EXCEPT ![White] = w]
      BY <1>1, <3>1 DEF Balls, TableTypes
    <3>3. w.speed = s /\ w.down = balls[White].down
      BY <3>2 DEF BallTypes
    <3> HIDE DEF w
    <3>4. \A b \in Balls : /\ balls'[b].speed = (IF b = White THEN s ELSE 0)
                            /\ balls'[b].down = balls[b].down
      BY <1>1, <2>1, <3>2, <3>3 DEF Resting, TableTypes
    <3>5. PICK S \in SUBSET Units : Cardinality(S) = s
      BY UnitsCount, TableAssumption
    <3> DEFINE share == [b \in Balls |-> IF b = White THEN S ELSE {}]
    <3>6. share \in [Balls -> SUBSET Units] /\ Shares(balls', share)
      <4>1. share \in [Balls -> SUBSET Units]
        OBVIOUS
      <4>2. \A b \in Balls : Cardinality(share[b]) = balls'[b].speed
        BY <3>4, <3>5, FS_EmptySet
      <4>3. \A b, c \in Balls : b # c => share[b] \cap share[c] = {}
        OBVIOUS
      <4> QED BY <4>1, <4>2, <4>3 DEF Shares
    <3> HIDE DEF share
    <3> QED BY <2>1, <3>4, <3>6 DEF BoundsInv, GoesDown, Shared
  <2> QED BY <1>3, <2>2, <2>3 DEF handleCueContact
<1>4. CASE \E delta \in FrameDeltas : useFrame(delta)
  <2>1. balls' = balls /\ shot'.before = shot.before /\ shot'.told = shot.told
    BY <1>1, <1>4 DEF useFrame, Shots
  <2>2. loop'.ticks \in {loop.ticks, 0}
    BY <1>1, <1>4 DEF useFrame, Loops
  <2> QED BY <2>1, <2>2, TableAssumption DEF BoundsInv
<1>5. CASE Ticks
  <2>1. PICK t \in stepSimulation(balls) :
          IF isStatic(t)
          THEN /\ loop' = [acc |-> 0, wasAiming |-> TRUE, running |-> FALSE, ticks |-> 0]
               /\ hud' = [hud EXCEPT !.set = TRUE]
               /\ handleSimulationStopped(t)
          ELSE /\ loop' = [loop EXCEPT !.acc = loop.acc - Tick, !.ticks = loop.ticks + 1]
               /\ balls' = t
               /\ shot' = [shot EXCEPT !.fell = shot.fell \union Falling(t)]
               /\ hud' = hud
    BY <1>5 DEF Ticks
  <2>2. Fits(t) /\ t \in TableTypes /\ Shared(t) /\ GoesDown(t)
    BY <1>1, StepFits, StepIsShared, StepGoesDown DEF BoundsInv, Fits
  <2>3. shot'.before = shot.before /\ shot'.told = shot.told
    BY <1>1, <2>1 DEF handleSimulationStopped, Shots
  <2>4. CASE isStatic(t)
    <3>1. balls' \in Respawned(t) /\ loop'.ticks = 0
      BY <2>1, <2>4 DEF handleSimulationStopped
    <3>2. Resting(balls') /\ GoesDown(balls')
      BY <2>2, <2>4, <3>1, RespawnedRests, RespawnedGoesDown
    <3> QED BY <2>3, <3>1, <3>2, RestingIsShared, TableAssumption DEF BoundsInv
  <2>5. CASE ~isStatic(t)
    <3>1. balls' = t /\ loop'.ticks = loop.ticks + 1
      BY <1>1, <2>1, <2>5 DEF Loops
    <3>2. loop.ticks + 1 <= TicksPerFrame
      BY <1>1, <1>5, TableAssumption DEF Ticks, TicksOn, Loops
    <3> QED BY <2>2, <2>3, <3>1, <3>2 DEF BoundsInv
  <2> QED BY <2>4, <2>5
<1>6. CASE FrameEnds
  <2>1. balls' = balls /\ shot' = shot /\ loop'.ticks = 0
    BY <1>1, <1>6 DEF FrameEnds, Loops
  <2> QED BY <2>1, TableAssumption DEF BoundsInv
<1>7. CASE RenderTable
  BY <1>7 DEF RenderTable, BoundsInv
<1>8. CASE onShotResult
  <2> DEFINE r == [balls |-> balls, cueBallSunk |-> Head(shot.hashing),
                   over |-> shot.over, again |-> shot.again]
             told == IF shot.told # <<>> THEN shot.told ELSE <<r>>
  <2>1. balls' = balls /\ loop' = loop /\ shot'.before = shot.before /\ shot'.told = told
    BY <1>1, <1>8 DEF onShotResult, Shots
  <2>2. \A i \in DOMAIN told : GoesDown(told[i].balls)
    BY DEF BoundsInv
  <2> QED BY <2>1, <2>2 DEF BoundsInv
<1>9. CASE alignLocalBallsToSnapshot
  <2>1. PICK t \in Told \union {shot.before} : balls' = Bare(t)
    BY <1>9 DEF alignLocalBallsToSnapshot
  <2>2. loop' = loop /\ shot'.before = shot.before /\ shot'.told = shot.told
    BY <1>1, <1>9 DEF alignLocalBallsToSnapshot, Shots
  <2>3. GoesDown(t)
    BY SunkGoesDown DEF BoundsInv, Told
  <2>4. Resting(t)
    BY ToldRests DEF TableInv, ShotTypes
  <2>5. Resting(balls') /\ GoesDown(balls')
    BY <2>1, <2>3, <2>4, BareRests, BareGoesDown DEF Resting, Fits
  <2> QED BY <2>2, <2>5, RestingIsShared DEF BoundsInv
<1>10. CASE UNCHANGED tableVars
  BY <1>10 DEF tableVars, BoundsInv
<1> QED BY <1>2, <1>3, <1>4, <1>5, <1>6, <1>7, <1>8, <1>9, <1>10 DEF TableNext

\* No ball is ever faster than the shot that moved it, however often balls meet, and none
\* goes down for longer than it takes; a frame plays no more ticks than it may
\* (engine.ts, SnookerMatch.tsx: SimulationLoop).
THEOREM TableTypesHold == TableSpec => []TableTypeOK
<1>1. TableInit => BoundsInv
  BY BoundsInit
<1>2. TableInv /\ BoundsInv /\ [TableNext]_tableVars => BoundsInv'
  BY BoundsStep
<1>3. ASSUME TableInv, BoundsInv PROVE TableTypeOK
  <2>1. /\ balls \in TableTypes /\ shot.before \in TableTypes /\ shot.fell \subseteq Balls
        /\ Shared(shot.before) /\ \A b \in Balls : balls[b].place # "up" => balls[b].speed = 0
    BY <1>3, RestingIsShared DEF TableInv, ShotTypes, Resting, Fits
  <2>2. ASSUME NEW t \in TableTypes, Shared(t), GoesDown(t) PROVE t \in [Balls -> BallStates]
    <3>1. ASSUME NEW b \in Balls PROVE t[b] \in BallStates
      <4>1. t[b] \in BallTypes /\ t[b].speed \in 0 .. MaxSpeed /\ t[b].down < SinkTicks
        BY <2>2, SharedIsBounded DEF TableTypes, GoesDown
      <4>2. t[b].down \in 0 .. SinkTicks - 1
        BY <4>1, TableAssumption DEF BallTypes
      <4> QED BY <4>1, <4>2 DEF BallTypes, BallStates
    <3> QED BY <3>1 DEF TableTypes
  <2> QED BY <1>3, <2>1, <2>2 DEF BoundsInv, TableTypeOK
<1> QED BY <1>1, <1>2, <1>3, TableInvariance, PTL DEF TableSpec

\* All four together: each part goes on by its own rules or stays as it is, and so keeps its
\* types.
THEOREM PartsTypes == PartsSpec => []TypesOK
<1>1. PartsSpec => CueSpec
  <2>1. PartsInit => Init
    BY DEF PartsInit
  <2>2. [PartsNext]_vars => [Next]_cueVars
    BY DEF PartsNext, CueOnly, ChatOnly, HomeOnly, TableOnly, vars
  <2> QED BY <2>1, <2>2, PTL DEF PartsSpec, CueSpec
<1>2. PartsSpec => ChatSpec
  <2>1. PartsInit => ChatInit
    BY DEF PartsInit
  <2>2. [PartsNext]_vars => [ChatNext]_chatVars
    BY DEF PartsNext, CueOnly, ChatOnly, HomeOnly, TableOnly, vars
  <2> QED BY <2>1, <2>2, PTL DEF PartsSpec, ChatSpec
<1>3. PartsSpec => HomeSpec
  <2>1. PartsInit => HomeInit
    BY DEF PartsInit
  <2>2. [PartsNext]_vars => [HomeNext]_homeVars
    BY DEF PartsNext, CueOnly, ChatOnly, HomeOnly, TableOnly, vars
  <2> QED BY <2>1, <2>2, PTL DEF PartsSpec, HomeSpec
<1>4. PartsSpec => TableSpec
  <2>1. PartsInit => TableInit
    BY DEF PartsInit
  <2>2. [PartsNext]_vars => [TableNext]_tableVars
    BY DEF PartsNext, CueOnly, ChatOnly, HomeOnly, TableOnly, vars
  <2> QED BY <2>1, <2>2, PTL DEF PartsSpec, TableSpec
<1> QED BY <1>1, <1>2, <1>3, <1>4, CueTypes, ChatTypes, HomeTypes, TableTypesHold, PTL DEF TypesOK
=============================================================================
