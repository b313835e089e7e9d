---------------------------- MODULE Invitations ----------------------------
(***************************************************************************)
(* How a room's owner invites a guest, from the room's page                *)
(* (LobbyRoomPage.tsx), and the guest gets the invitation wherever in the  *)
(* site (LobbyNotificationsProvider.tsx), while others join and leave and  *)
(* the owner goes and comes back, or closes the room.                      *)
(*                                                                         *)
(* The service's handlers are jobs whose steps interleave: the check of an *)
(* invitation, its storing, its publication and the answer; the write of a *)
(* room, the clearing of its invitations and its publication.  What is     *)
(* published reaches the sockets that are subscribed at that moment.  One  *)
(* room, one guest: other guests' invitations are other keys of the maps.  *)
(***************************************************************************)
EXTENDS Naturals

CONSTANTS
    MaxInvites,  \* bounds: the owner's invitations, ...
    MaxActs      \* ... and what others do, links that break, calls that fail

ASSUME InvitationsAssumption == MaxInvites \in Nat /\ MaxActs \in Nat

VARIABLES
    room,     \* the room's row
    store,    \* invitationStore
    jobs,     \* the handlers under way
    guest,    \* the guest's pages
    owner,    \* the owner's page
    sent,     \* how many invitations were sent
    acts,     \* how much of MaxActs has happened
    mishaps   \* history: what came too late or was not heard

vars == <<room, store, jobs, guest, owner, sent, acts, mishaps>>

Ids == 1 .. MaxInvites

Init ==
    /\ room = [status |-> "waiting", seat |-> "nobody", gone |-> FALSE]
    /\ store = [byRoom |-> 0, byUser |-> {}, byInvitation |-> {}]
    /\ jobs = {}
    /\ guest = [link |-> "closed", pending |-> {}, invites |-> {}, answered |-> {}]
    /\ owner = [invite |-> "none", cleared |-> FALSE, hears |-> TRUE]
    /\ sent = 0 /\ acts = 0
    /\ mishaps = {}

Acts == acts < MaxActs /\ acts' = acts + 1

\* JoinRoom.
Joinable == room.status = "waiting" /\ room.seat = "nobody"

\* roomAcceptsInvite.
Accepts(r) == r.status = "waiting" /\ r.seat = "nobody" /\ ~r.gone

-----------------------------------------------------------------------------
(***************************************************************************)
(* The handlers.  at is the next step.                                     *)
(***************************************************************************)
Job(op, at, id) == [op |-> op, at |-> at, id |-> id]

Runs(j, at) == jobs' = (jobs \ {j}) \cup {[j EXCEPT !.at = at]}
Ends(j)     == jobs' = jobs \ {j}
Begins(j)   == jobs' = jobs \cup {j}

\* Subscribed, or about to be sent what is pending.
Hears(g) == g.link # "closed"

Mishap(what, happens) == mishaps' = IF happens THEN mishaps \cup {what} ELSE mishaps

\* InviteUser, until the invitation is made.
InviteChecked(j) ==
    /\ j.op = "invite" /\ j.at = "check"
    /\ \/ ~Accepts(room) /\ Runs(j, "clear") /\ UNCHANGED sent
       \/ Accepts(room) /\ guest.link \notin {"listed", "open"} /\ Runs(j, "offline") /\ UNCHANGED sent
       \/ /\ Accepts(room) /\ guest.link \in {"listed", "open"}
          /\ sent' = sent + 1
          /\ jobs' = (jobs \ {j}) \cup {[j EXCEPT !.at = "store", !.id = sent']}
    /\ UNCHANGED <<room, store, guest, owner, acts, mishaps>>

Upsert(s, id) ==
    [byRoom |-> id, byUser |-> (s.byUser \ {s.byRoom}) \cup {id},
     byInvitation |-> (s.byInvitation \ {s.byRoom}) \cup {id}]

InviteStored(j) ==
    /\ j.op = "invite" /\ j.at = "store"
    /\ store' = Upsert(store, j.id)
    /\ Mishap("stored late", ~Accepts(room))
    /\ Runs(j, "publish")
    /\ UNCHANGED <<room, guest, owner, sent, acts>>

\* What the guest's page does with room_invite: an invitation replaces the
\* room's one before.
OnInvite(g, id) == [g EXCEPT !.invites = {id}]

InvitePublished(j) ==
    /\ j.op = "invite" /\ j.at = "publish"
    /\ guest' = IF Hears(guest) THEN OnInvite(guest, j.id) ELSE guest
    /\ Mishap("crossed", Hears(guest) /\ j.id \notin store.byInvitation)
    /\ Runs(j, "answer")
    /\ UNCHANGED <<room, store, owner, sent, acts>>

\* request: the answer's body, the invitation, or an error with its text.
Reply(at) == IF at = "answer" THEN "sent" ELSE at

\* The answer reaches the owner's page (handleInviteUser), which keeps the
\* invitation's id or the error's text.
InviteAnswered(j) ==
    /\ j.op = "invite" /\ j.at \in {"answer", "offline", "full"}
    /\ owner' = [owner EXCEPT !.invite = Reply(j.at)]
    /\ Mishap("answered late", j.at = "answer" /\ j.id \notin store.byInvitation)
    /\ Ends(j)
    /\ UNCHANGED <<room, store, guest, sent, acts>>

\* ClearRoom, ClearInvitation: the maps' entries, and which invitation it was.
Cleared(s, ids) ==
    [byRoom |-> IF s.byRoom \in ids THEN 0 ELSE s.byRoom,
     byUser |-> s.byUser \ ids, byInvitation |-> s.byInvitation \ ids]

Clears(j) ==
    LET ids == IF j.op = "decline" THEN {j.id} \cap store.byInvitation ELSE {store.byRoom} \ {0}
    IN  /\ j.at = "clear"
        /\ store' = Cleared(store, ids)
        /\ \/ /\ ids # {}
              /\ \E id \in ids : jobs' = (jobs \ {j}) \cup {[j EXCEPT !.at = "tell", !.id = id]}
           \/ ids = {} /\ j.op \in {"decline", "room"} /\ Ends(j)
           \/ ids = {} /\ j.op = "invite" /\ Runs(j, "full")
        /\ UNCHANGED <<room, guest, owner, sent, acts, mishaps>>

\* Mutant: only what the guest answered goes.
OnClearedAnswered(g) == [g EXCEPT !.invites = @ \ g.answered]

\* What the guest's page does with room_invite_cleared: the room's invitation
\* goes, whichever it is.
OnCleared(g) == [g EXCEPT !.invites = {}]

\* The owner's page: the clearing is remembered, and the effect takes the
\* status back that the guest has by then.
OwnerOnCleared(o) == IF o.hears THEN [o EXCEPT !.invite = "none", !.cleared = TRUE] ELSE o

\* publishInviteCleared, for the owner.
Tells(o) == OwnerOnCleared(o)

Told(j) ==
    /\ j.at = "tell"
    /\ guest' = IF Hears(guest) THEN OnCleared(guest) ELSE guest
    /\ owner' = Tells(owner)
    /\ mishaps' = mishaps \cup (IF Hears(guest) THEN {} ELSE {"guest deaf"})
                          \cup (IF owner.hears THEN {} ELSE {"owner deaf"})
                          \cup (IF Hears(guest) /\ guest.invites \cap store.byInvitation # {}
                                THEN {"crossed"} ELSE {})
    /\ \/ j.op \in {"decline", "room"} /\ Ends(j)
       \/ j.op = "invite" /\ Runs(j, "full")
    /\ UNCHANGED <<room, store, sent, acts>>

-----------------------------------------------------------------------------
(***************************************************************************)
(* The owner.                                                              *)
(***************************************************************************)
\* wasInvited: an error's text that begins neither with "Falha" nor "Usuario" is
\* taken for an invitation's id.
wasInvited(status) == status \in {"sent", "full"}

\* handleInviteUser and its button.
Invite ==
    /\ owner.invite # "sending" /\ ~wasInvited(owner.invite) /\ sent < MaxInvites
    /\ ~ \E j \in jobs : j.op = "invite"
    /\ owner' = [owner EXCEPT !.invite = "sending"]
    /\ Begins(Job("invite", "check", 0))
    /\ UNCHANGED <<room, store, guest, sent, acts, mishaps>>

\* player_joined and player_left take all statuses off the owner's page.
OwnerOnRoom == owner' = [owner EXCEPT !.invite = "none"]

\* Any other change of the room runs the effect again.
OwnerOnView == owner' = IF owner.cleared THEN [owner EXCEPT !.invite = "none"] ELSE owner

\* The owner's notifications break, or come back.
OwnerLink ==
    /\ Acts
    /\ owner' = [owner EXCEPT !.hears = ~@]
    /\ UNCHANGED <<room, store, jobs, guest, sent, mishaps>>

\* The owner's connection to the room is lost and comes back: the room keeps
\* its invitations.
OwnerGoes ==
    /\ Acts /\ room.status = "waiting"
    /\ room' = [room EXCEPT !.gone = ~@]
    /\ OwnerOnView
    /\ UNCHANGED <<store, jobs, guest, sent, mishaps>>

\* Mutant: the handler forgets the room's invitations.
EndsOnly == jobs

\* LeaveRoom by the owner, CloseRoom, deleteRoomStreams.
EndsAndClears == jobs \cup {Job("room", "clear", 0)}

RoomEnds ==
    /\ room.status = "waiting"
    /\ room' = [room EXCEPT !.status = "over"]
    /\ jobs' = EndsAndClears
    /\ UNCHANGED <<store, guest, owner, sent, acts, mishaps>>

\* GetRoomByID, GetRoomByCode: whoever reads a room past its expires_at that nobody has
\* joined writes that it has expired, and clears nothing.  ExpireRooms, after which
\* deleteRoomStreams clears, only returns rooms that it finds waiting.
RoomExpires ==
    /\ Joinable
    /\ room' = [room EXCEPT !.status = "over"]
    /\ Mishap("left behind", store.byRoom # 0)
    /\ UNCHANGED <<store, jobs, guest, owner, sent, acts>>

-----------------------------------------------------------------------------
(***************************************************************************)
(* Others, and the guest.                                                  *)
(***************************************************************************)
Sits(who) ==
    /\ Joinable
    /\ room' = [room EXCEPT !.seat = who]
    /\ Begins(Job("room", "clear", 0))
    /\ OwnerOnRoom

OtherJoins ==
    /\ Acts /\ Sits("other")
    /\ UNCHANGED <<store, guest, sent, mishaps>>

OpponentLeaves ==
    /\ room.status = "waiting" /\ room.seat # "nobody"
    /\ room' = [room EXCEPT !.seat = "nobody"]
    /\ OwnerOnRoom
    /\ UNCHANGED <<store, jobs, guest, sent, acts, mishaps>>

Answers(id) == guest' = [guest EXCEPT !.invites = @ \ {id}, !.answered = @ \cup {id}]

\* acceptInvite: the guest sits down, or not.
Accept(id) ==
    /\ Answers(id)
    /\ \/ Sits("guest")
       \/ ~Joinable /\ UNCHANGED <<room, jobs, owner>>

AcceptInvite ==
    /\ \E id \in guest.invites : Accept(id)
    /\ UNCHANGED <<store, sent, acts, mishaps>>

\* declineInvite: nothing of its answer is used, and it may fail.
declineInvite(id) ==
    \/ Begins(Job("decline", "clear", id)) /\ UNCHANGED acts
    \/ Acts /\ UNCHANGED jobs

DismissInvite ==
    /\ \E id \in guest.invites : Answers(id) /\ declineInvite(id)
    /\ UNCHANGED <<room, store, owner, sent, mishaps>>

\* The guest's socket breaks: invitations on the screen stay.
Break ==
    /\ Acts /\ guest.link # "closed"
    /\ guest' = [guest EXCEPT !.link = "closed", !.pending = {}]
    /\ UNCHANGED <<room, store, jobs, owner, sent, mishaps>>

\* HandleNotificationsWS: the subscription, ...
Subscribe ==
    /\ guest.link = "closed"
    /\ guest' = [guest EXCEPT !.link = "subscribed"]
    /\ UNCHANGED <<room, store, jobs, owner, sent, acts, mishaps>>

\* Mutant: a new socket only gets what is published from then on.
ListsNothing(s) == {}

ListForUser(s) == s.byUser

\* ... then RegisterOnline and the pending invitations, ...
ListPending ==
    /\ guest.link = "subscribed"
    /\ guest' = [guest EXCEPT !.link = "listed", !.pending = ListForUser(store)]
    /\ UNCHANGED <<room, store, jobs, owner, sent, acts, mishaps>>

\* ... which are sent after what was published meanwhile.
SendPending ==
    /\ guest.link = "listed"
    /\ LET g == [guest EXCEPT !.link = "open", !.pending = {}]
       IN  \/ guest.pending = {} /\ guest' = g
           \/ \E id \in guest.pending : guest' = OnInvite(g, id)
    /\ Mishap("crossed", ~(guest.pending \subseteq store.byInvitation))
    /\ UNCHANGED <<room, store, jobs, owner, sent, acts>>

-----------------------------------------------------------------------------
Serves(j) ==
    \/ InviteChecked(j) \/ InviteStored(j) \/ InvitePublished(j) \/ InviteAnswered(j)
    \/ Clears(j) \/ Told(j)

Next ==
    \/ \E j \in jobs : Serves(j)
    \/ Invite \/ OwnerLink \/ OwnerGoes \/ RoomEnds \/ RoomExpires
    \/ OtherJoins \/ OpponentLeaves
    \/ AcceptInvite \/ DismissInvite
    \/ Break \/ Subscribe \/ ListPending \/ SendPending

Spec == Init /\ [][Next]_vars

\* The handlers go on, and a page whose sockets broke opens them again after
\* two seconds.  What the players do is up to them.
Fairness ==
    /\ WF_vars(\E j \in jobs : Serves(j))
    /\ WF_vars(Subscribe \/ ListPending \/ SendPending)

FairSpec == Spec /\ Fairness

-----------------------------------------------------------------------------
(***************************************************************************)
(* Properties.  What the sockets did not hear, and what overtook something *)
(* else, is excepted by name.                                              *)
(***************************************************************************)

Without(happened) == mishaps \cap happened = {}

\* At rest a connected guest has on the screen the invitation that the service
\* keeps, unless it has been answered: neither one that is void nor none.
InvitesAgree ==
    jobs = {} /\ guest.link = "open" /\ Without({"crossed", "guest deaf"}) =>
        /\ guest.invites \subseteq store.byInvitation
        /\ store.byInvitation \subseteq guest.invites \cup guest.answered

\* Nobody is left invited to a room that is full, closed or swept, unless the
\* invitation was checked before and stored after, or was there when a reader of
\* the room wrote that it had expired.
FullRoomInvitesNobody ==
    jobs = {} /\ ~Joinable /\ Without({"stored late", "left behind"}) => store.byRoom = 0

\* An invitation that is kept is shown some time, even if the guest's socket
\* broke before it was published.
InvitedIsTold ==
    \A id \in Ids :
        id \in store.byInvitation \ guest.answered
            ~> \/ id \notin store.byInvitation
               \/ id \in guest.invites \cup guest.answered
               \/ "crossed" \in mishaps
=============================================================================
