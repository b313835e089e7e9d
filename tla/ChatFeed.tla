------------------------------ MODULE ChatFeed ------------------------------
(***************************************************************************)
(* The chat of a room as one player's page shows it.  The lobby keeps the  *)
(* messages in a stream and sends a new socket all of them from the first  *)
(* (ws_handler.go: DeliverAll), but for those that find the socket's queue *)
(* full; the page drops those it has.  The page of the match waits for the *)
(* sender's profile before it shows one, the page of the room shows it at  *)
(* once (GamePage.tsx, LobbyRoomPage.tsx).                                 *)
(***************************************************************************)
EXTENDS Naturals, Sequences, SequencesExt, FiniteSets

CONSTANTS
    MaxMessages,    \* bounds: messages in the stream, broken links,
    MaxBroken,
    MaxOpened       \* times the chat is opened

ASSUME ChatAssumption == {MaxMessages, MaxBroken, MaxOpened} \subseteq Nat

VARIABLES
    stream,     \* the senders of the messages; a message's place is its message_id
    wire,       \* the page's link: up, the next message for it, on the way in and out;
                \* history: the messages that its queue had no place for
    panel       \* the page's chat, and how often something was broken or opened

chatVars == <<stream, wire, panel>>

Senders == {"me", "other"}
NoWire == [up |-> FALSE, next |-> 1, in |-> <<>>, out |-> 0, lost |-> {}]

ChatInit ==
    /\ stream = <<>>
    /\ wire = [NoWire EXCEPT !.up = TRUE]
    /\ panel \in [page : {"room", "game"},
                 ids : {{}},        \* chatMessageIdsRef
                 names : {{}},      \* senders whose profile is in profilesCache
                 awaited : {{}},    \* messages that wait for the sender's profile
                 shown : {<<>>}, open : {FALSE}, unread : {0},
                 broken : {0}, opened : {0}]

\* Only a socket that is open takes the text; the input field is emptied all the same.
handleSendChat ==
    /\ Len(stream) + wire.out < MaxMessages
    /\ wire' = IF wire.up THEN [wire EXCEPT !.out = @ + 1] ELSE wire
    /\ UNCHANGED <<stream, panel>>

ServeChat ==
    /\ wire.out > 0
    /\ wire' = [wire EXCEPT !.out = @ - 1]
    /\ stream' = Append(stream, "me")
    /\ UNCHANGED panel

OtherSays ==
    /\ Len(stream) + wire.out < MaxMessages
    /\ stream' = Append(stream, "other")
    /\ UNCHANGED <<wire, panel>>

\* enqueueWS: a message for which writeChan has no place is dropped and the link stays
\* open.  The room's events, which are not modelled here, wait there too, so that it may
\* be full whatever the chat has put into it.
StreamDelivers ==
    /\ wire.up /\ wire.next <= Len(stream)
    /\ \/ wire' = [wire EXCEPT !.next = @ + 1, !.in = Append(@, wire.next)]
       \/ wire' = [wire EXCEPT !.next = @ + 1, !.lost = @ \union {wire.next}]
    /\ UNCHANGED <<stream, panel>>

\* What is on the way either way is lost.
BreakChat ==
    /\ wire.up
    /\ panel.broken < MaxBroken
    /\ wire' = NoWire
    /\ panel' = [panel EXCEPT !.broken = @ + 1]
    /\ UNCHANGED stream

\* A new socket gets the stream from its first message.
SubscribeChat ==
    /\ ~wire.up
    /\ wire' = [NoWire EXCEPT !.up = TRUE]
    /\ UNCHANGED <<stream, panel>>

ShowsMessage(c, id) ==
    [c EXCEPT !.shown = Append(@, id), !.awaited = @ \ {id},
              !.unread = IF c.open \/ c.page = "room" THEN @ ELSE @ + 1]

ShowsAtOnce(c, id) == c.page = "room" \/ stream[id] \in c.names

\* Mutant: the id is remembered only with the message shown.
OnChatForgets(c, id) ==
    IF id \in c.ids THEN c
    ELSE IF ShowsAtOnce(c, id) THEN ShowsMessage([c EXCEPT !.ids = @ \union {id}], id)
         ELSE [c EXCEPT !.awaited = @ \union {id}]

\* The id is remembered before the profile is awaited.
OnChatMessage(c, id) ==
    IF id \in c.ids THEN c
    ELSE LET known == [c EXCEPT !.ids = @ \union {id}] IN
         IF ShowsAtOnce(c, id) THEN ShowsMessage(known, id)
         ELSE [known EXCEPT !.awaited = @ \union {id}]

ReceiveChat ==
    /\ wire.in # <<>>
    /\ panel' = OnChatMessage(panel, Head(wire.in))
    /\ wire' = [wire EXCEPT !.in = Tail(@)]
    /\ UNCHANGED stream

\* ensureProfile answers, for one message of the sender after another, or fails, and the
\* message is shown under the name "Jogador".
NameArrives(id) ==
    /\ id \in panel.awaited
    /\ \/ panel' = [ShowsMessage(panel, id) EXCEPT !.names = @ \union {stream[id]}]
       \/ panel' = ShowsMessage(panel, id)
    /\ UNCHANGED <<stream, wire>>

setChatOpen ==
    /\ panel.page = "game"
    /\ panel.open \/ panel.opened < MaxOpened
    /\ panel' = IF panel.open THEN [panel EXCEPT !.open = FALSE]
                ELSE [panel EXCEPT !.open = TRUE, !.unread = 0, !.opened = @ + 1]
    /\ UNCHANGED <<stream, wire>>

ChatGoesOn ==
    \/ ServeChat \/ StreamDelivers \/ SubscribeChat \/ ReceiveChat
    \/ \E id \in panel.awaited : NameArrives(id)

ChatNext == ChatGoesOn \/ handleSendChat \/ OtherSays \/ BreakChat \/ setChatOpen

ChatSpec == ChatInit /\ [][ChatNext]_chatVars

----------------------------------------------------------------------------
(* Properties.                                                             *)

ChatIds == 1 .. MaxMessages
ChatTypeOK ==
    /\ stream \in Seq(Senders) /\ Len(stream) <= MaxMessages
    /\ wire.in \in Seq(ChatIds) /\ wire.next \in 1 .. MaxMessages + 1
    /\ wire.lost \subseteq ChatIds
    /\ panel.ids \subseteq ChatIds /\ panel.awaited \subseteq ChatIds
    /\ panel.shown \in Seq(ChatIds) /\ panel.unread \in Nat

\* With nothing on the way and no profile awaited, the page of an open link has shown every
\* message of the stream but those the link's queue dropped, and shown none twice: what a
\* link before dropped or lost the replay on this one has brought, and nothing again.
ChatIsWhole ==
    wire.up /\ wire.in = <<>> /\ wire.next > Len(stream) /\ panel.awaited = {} =>
        /\ Len(panel.shown) = Cardinality(ToSet(panel.shown))
        /\ DOMAIN stream \ wire.lost \subseteq ToSet(panel.shown)
        /\ ToSet(panel.shown) \subseteq DOMAIN stream
=============================================================================
