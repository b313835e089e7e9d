----------------------------- MODULE RoomSeats ------------------------------
(***************************************************************************)
(* What the lobby promises of its rooms, with no locks, no transactions    *)
(* and no clock: a user sits in at most one room that is waiting or        *)
(* playing.  Each step is one decision, taken on the rooms as they are.    *)
(***************************************************************************)
EXTENDS Naturals

CONSTANTS Rooms, Users, NoUser

VARIABLE seats      \* of every room: its status and who sits in it

Active(s) == s.status \in {"waiting", "playing"}
Sits(u, s) == u \in {s.creator, s.opponent}

FreeBut(u, r) == \A q \in Rooms \ {r} : ~(Active(seats[q]) /\ Sits(u, seats[q]))

Put(r, s) == seats' = [seats EXCEPT ![r] = s]

Init == seats = [r \in Rooms |-> [status |-> "none", creator |-> NoUser, opponent |-> NoUser]]

Open(u, r) ==
    /\ seats[r].status = "none" /\ FreeBut(u, r)
    /\ Put(r, [status |-> "waiting", creator |-> u, opponent |-> NoUser])

Sit(u, r) ==
    /\ seats[r].status = "waiting" /\ seats[r].opponent = NoUser
    /\ seats[r].creator # u /\ FreeBut(u, r)
    /\ Put(r, [seats[r] EXCEPT !.opponent = u])

Start(r) ==
    /\ seats[r].status = "waiting" /\ seats[r].opponent # NoUser
    /\ Put(r, [seats[r] EXCEPT !.status = "playing"])

Finish(r) ==
    /\ seats[r].status = "playing"
    /\ Put(r, [seats[r] EXCEPT !.status = "finished"])

PlayAgain(r) ==
    /\ seats[r].status = "finished"
    /\ FreeBut(seats[r].creator, r) /\ FreeBut(seats[r].opponent, r)
    /\ Put(r, [seats[r] EXCEPT !.status = "playing"])

StandUp(r) ==
    /\ Active(seats[r]) /\ seats[r].opponent # NoUser
    /\ Put(r, [seats[r] EXCEPT !.status = "waiting", !.opponent = NoUser])

Close(r) ==
    /\ seats[r].status # "none"
    /\ Put(r, [seats[r] EXCEPT !.status = "expired"])

Next ==
    \E r \in Rooms :
        \/ Start(r) \/ Finish(r) \/ PlayAgain(r) \/ StandUp(r) \/ Close(r)
        \/ \E u \in Users : Open(u, r) \/ Sit(u, r)

Spec == Init /\ [][Next]_seats
=============================================================================
