------------------------- MODULE InvitationsProofs --------------------------
(***************************************************************************)
(* Invitations, for any number of them and of what others do: when no      *)
(* handler is under way, a connected guest's page and the invitation store *)
(* agree, and nobody is left invited to a room that is full or over.       *)
(***************************************************************************)
EXTENDS Invitations, TLAPS

Steps == {"check", "store", "publish", "answer", "offline", "full", "clear", "tell"}

JobRecords == [op : {"invite", "decline", "room"}, at : Steps, id : Nat]

GuestStates ==
    [link : {"closed", "subscribed", "listed", "open"}, pending : SUBSET Nat,
     invites : SUBSET Nat, answered : SUBSET Nat]

Kept == store.byInvitation

\* The three maps of invitationStore hold the same invitation, or none.
MapsAgree == store.byUser = Kept /\ Kept = {store.byRoom} \ {0}

Typed ==
    /\ room \in [status : {"waiting", "over"}, seat : {"nobody", "other", "guest"}, gone : BOOLEAN]
    /\ store \in [byRoom : Nat, byUser : SUBSET Nat, byInvitation : SUBSET Nat]
    /\ MapsAgree
    /\ jobs \subseteq JobRecords
    /\ \A j \in jobs : j.at = "store" => j.id # 0
    /\ guest \in GuestStates
    /\ sent \in Nat

(***************************************************************************)
(* The inductive invariant of InvitesAgree.  What is on the screen is      *)
(* void only while somebody is on the way to say so, or another invitation *)
(* to take its place; and one that is missing is on its way.               *)
(***************************************************************************)
IsPublished == \E j \in jobs : j.at = "publish" /\ j.id \in Kept

NothingVoid ==
    \/ guest.invites \subseteq Kept
    \/ \E j \in jobs : j.at = "tell"
    \/ IsPublished
    \/ guest.link # "open" /\ Kept # {} /\ (guest.link = "listed" => guest.pending # {})

NothingMissing ==
    \/ Kept \subseteq guest.invites \cup guest.answered
    \/ IsPublished
    \/ guest.link \in {"closed", "subscribed"}
    \/ guest.link = "listed" /\ Kept \subseteq guest.pending

AgreeInv == Without({"crossed", "guest deaf"}) => NothingVoid /\ NothingMissing

\* Whoever fills the room or closes it clears its invitations next; whoever lets it expire
\* does not.
FullInv ==
    ~Joinable /\ Without({"stored late", "left behind"}) =>
        store.byRoom = 0 \/ Job("room", "clear", 0) \in jobs

-----------------------------------------------------------------------------
(***************************************************************************)
(* Types, and the three maps.                                              *)
(***************************************************************************)
LEMMA MovedIs ==
    ASSUME NEW j \in JobRecords, NEW at \in Steps
    PROVE  /\ [j EXCEPT !.at = at] \in JobRecords /\ [j EXCEPT !.at = at].at = at
           /\ [j EXCEPT !.at = at].id = j.id /\ [j EXCEPT !.at = at].op = j.op
BY DEF JobRecords

JobsFit == jobs \subseteq JobRecords /\ \A j \in jobs : j.at = "store" => j.id # 0

LEMMA ReplacedFit ==
    ASSUME JobsFit, NEW j, NEW k \in JobRecords, k.at = "store" => k.id # 0,
           jobs' = (jobs \ {j}) \cup {k}
    PROVE  JobsFit'
BY DEF JobsFit

LEMMA RunsFit ==
    ASSUME JobsFit, NEW j \in jobs, NEW at \in Steps, at # "store", Runs(j, at)
    PROVE  JobsFit'
<1> DEFINE k == [j EXCEPT !.at = at]
<1>1. k \in JobRecords /\ k.at = at
  BY MovedIs DEF JobsFit
<1>2. jobs' = (jobs \ {j}) \cup {k}
  BY DEF Runs
<1> HIDE DEF k
<1> QED BY <1>1, <1>2, ReplacedFit

LEMMA MovesFit ==
    ASSUME JobsFit, NEW j \in jobs, NEW at \in Steps, NEW id \in Nat, at = "store" => id # 0,
           jobs' = (jobs \ {j}) \cup {[j EXCEPT !.at = at, !.id = id]}
    PROVE  JobsFit'
<1> DEFINE k == [j EXCEPT !.at = at, !.id = id]
<1>1. k \in JobRecords /\ k.at = at /\ k.id = id
  BY DEF JobsFit, JobRecords
<1> HIDE DEF k
<1> QED BY <1>1, ReplacedFit DEF k

LEMMA EndsFit ==
    ASSUME JobsFit, NEW j, Ends(j)
    PROVE  JobsFit'
BY DEF JobsFit, Ends

LEMMA JobIs ==
    ASSUME NEW op \in {"invite", "decline", "room"}, NEW at \in Steps, NEW id \in Nat
    PROVE  Job(op, at, id) \in JobRecords /\ Job(op, at, id).at = at /\ Job(op, at, id).op = op
BY DEF Job, JobRecords

LEMMA ServesType ==
    ASSUME Typed, NEW j \in jobs, Serves(j)
    PROVE  Typed'
<1>1. JobsFit /\ j \in JobRecords
  BY DEF Typed, JobsFit
<1>2. ASSUME JobsFit', UNCHANGED <<room, store, sent>>, guest' \in GuestStates
      PROVE  Typed'
  BY <1>2 DEF Typed, JobsFit, MapsAgree, Kept
<1>3. CASE InviteChecked(j)
  <2>1. CASE Runs(j, "clear") \/ Runs(j, "offline")
    <3>1. JobsFit'
      BY <1>1, <2>1, RunsFit DEF Steps
    <3>2. UNCHANGED <<room, store, guest>> /\ guest' \in GuestStates
      BY <1>3 DEF InviteChecked, Typed
    <3>3. sent' \in Nat
      BY <1>3 DEF InviteChecked, Typed
    <3> QED BY <3>1, <3>2, <3>3 DEF Typed, JobsFit, MapsAgree, Kept
  <2>2. CASE /\ sent' = sent + 1
             /\ jobs' = (jobs \ {j}) \cup {[j EXCEPT !.at = "store", !.id = sent']}
    <3>1. sent' \in Nat /\ sent' # 0
      BY <2>2 DEF Typed
    <3>2. JobsFit'
      BY <1>1, <2>2, <3>1, MovesFit DEF Steps
    <3> QED BY <1>3, <3>1, <3>2 DEF InviteChecked, Typed, JobsFit, MapsAgree, Kept
  <2> QED BY <1>3, <2>1, <2>2 DEF InviteChecked
<1>4. CASE InviteStored(j)
  <2>1. JobsFit'
    BY <1>1, <1>4, RunsFit DEF InviteStored, Steps
  <2>2. j.id \in Nat /\ j.id # 0
    BY <1>1, <1>4 DEF InviteStored, JobRecords, JobsFit
  <2>3. /\ store' \in [byRoom : Nat, byUser : SUBSET Nat, byInvitation : SUBSET Nat]
        /\ MapsAgree'
    BY <1>4, <2>2 DEF InviteStored, Upsert, Typed, MapsAgree, Kept
  <2> QED BY <1>4, <2>1, <2>3 DEF InviteStored, Typed, JobsFit
<1>5. CASE InvitePublished(j)
  <2>1. JobsFit'
    BY <1>1, <1>5, RunsFit DEF InvitePublished, Steps
  <2>2. j.id \in Nat
    BY <1>1 DEF JobRecords
  <2>3. guest' \in GuestStates
    BY <1>5, <2>2 DEF InvitePublished, OnInvite, GuestStates, Typed
  <2> QED BY <1>2, <1>5, <2>1, <2>3 DEF InvitePublished
<1>6. CASE InviteAnswered(j)
  BY <1>1, <1>2, <1>6, EndsFit DEF InviteAnswered, Typed
<1>7. CASE Clears(j)
  <2> DEFINE ids == IF j.op = "decline" THEN {j.id} \cap store.byInvitation ELSE {store.byRoom} \ {0}
  <2>1. ids \subseteq Kept /\ ids \subseteq Nat
    BY DEF Typed, MapsAgree, Kept
  <2>2. store' = Cleared(store, ids)
    BY <1>7 DEF Clears
  <2>3. JobsFit'
    <3>1. \/ \E id \in ids : jobs' = (jobs \ {j}) \cup {[j EXCEPT !.at = "tell", !.id = id]}
          \/ Ends(j) \/ Runs(j, "full")
      BY <1>7 DEF Clears
    <3>2. ASSUME NEW id \in ids, jobs' = (jobs \ {j}) \cup {[j EXCEPT !.at = "tell", !.id = id]}
          PROVE  JobsFit'
      BY <1>1, <2>1, <3>2, MovesFit DEF Steps
    <3> QED BY <1>1, <3>1, <3>2, RunsFit, EndsFit DEF Steps
  <2> HIDE DEF ids
  <2>4. /\ store' \in [byRoom : Nat, byUser : SUBSET Nat, byInvitation : SUBSET Nat]
        /\ MapsAgree'
    BY <2>1, <2>2 DEF Cleared, Typed, MapsAgree, Kept
  <2> QED BY <1>7, <2>3, <2>4 DEF Clears, Typed, JobsFit
<1>8. CASE Told(j)
  <2>1. JobsFit'
    BY <1>1, <1>8, RunsFit, EndsFit DEF Told, Steps
  <2>2. guest' \in GuestStates
    BY <1>8 DEF Told, OnCleared, GuestStates, Typed
  <2> QED BY <1>2, <1>8, <2>1, <2>2 DEF Told
<1> QED BY <1>3, <1>4, <1>5, <1>6, <1>7, <1>8 DEF Serves

LEMMA AnswersType ==
    ASSUME Typed, NEW id \in guest.invites, Answers(id)
    PROVE  /\ guest' \in GuestStates /\ guest'.link = guest.link /\ guest'.pending = guest.pending
           /\ guest'.invites = guest.invites \ {id} /\ guest'.answered = guest.answered \cup {id}
<1>1. id \in Nat
  BY DEF Typed, GuestStates
<1> QED BY <1>1 DEF Typed, GuestStates, Answers

LEMMA GuestType ==
    ASSUME Typed, AcceptInvite \/ DismissInvite
    PROVE  Typed'
<1>1. PICK id \in guest.invites :
         /\ Answers(id)
         /\ \/ Sits("guest") \/ UNCHANGED <<room, jobs>>
            \/ Begins(Job("decline", "clear", id)) /\ UNCHANGED room
         /\ UNCHANGED <<store, sent>>
  BY DEF AcceptInvite, Accept, DismissInvite, declineInvite
<1>2. guest' \in GuestStates /\ id \in Nat
  BY <1>1, AnswersType DEF Typed, GuestStates
<1>3. JobsFit'
  <2>1. JobsFit
    BY DEF Typed, JobsFit
  <2> QED BY <1>1, <1>2, <2>1, JobIs DEF JobsFit, Sits, Begins, Steps
<1>4. room' \in [status : {"waiting", "over"}, seat : {"nobody", "other", "guest"}, gone : BOOLEAN]
  BY <1>1 DEF Typed, Sits
<1> QED BY <1>1, <1>2, <1>3, <1>4 DEF Typed, JobsFit, MapsAgree, Kept

LEMMA RoomType ==
    ASSUME Typed,
           Invite \/ OwnerLink \/ OwnerGoes \/ RoomEnds \/ RoomExpires \/ OtherJoins \/ OpponentLeaves
    PROVE  Typed'
<1>1. UNCHANGED <<store, guest, sent>>
  BY DEF Invite, OwnerLink, OwnerGoes, RoomEnds, RoomExpires, OtherJoins, OpponentLeaves
<1>2. JobsFit'
  <2>1. JobsFit
    BY DEF Typed, JobsFit
  <2>2. jobs' \in {jobs, jobs \cup {Job("invite", "check", 0)}, jobs \cup {Job("room", "clear", 0)}}
    BY DEF Invite, OwnerLink, OwnerGoes, RoomEnds, RoomExpires, OtherJoins, OpponentLeaves, Sits,
           Begins, EndsAndClears
  <2>3. 0 \in Nat /\ {"check", "clear"} \subseteq Steps
    BY DEF Steps
  <2> QED BY <2>1, <2>2, <2>3, JobIs DEF JobsFit
<1>3. room' \in [status : {"waiting", "over"}, seat : {"nobody", "other", "guest"}, gone : BOOLEAN]
  BY DEF Typed, Invite, OwnerLink, OwnerGoes, RoomEnds, RoomExpires, OtherJoins, OpponentLeaves, Sits
<1> QED BY <1>1, <1>2, <1>3 DEF Typed, JobsFit, MapsAgree, Kept

LEMMA LinkType ==
    ASSUME Typed, Break \/ Subscribe \/ ListPending \/ SendPending
    PROVE  Typed'
<1>1. UNCHANGED <<room, store, jobs, sent>>
  BY DEF Break, Subscribe, ListPending, SendPending
<1>2. guest' \in GuestStates
  <2>1. CASE Break \/ Subscribe
    BY <2>1 DEF Break, Subscribe, Typed, GuestStates
  <2>2. CASE ListPending
    BY <2>2 DEF ListPending, ListForUser, Typed, GuestStates
  <2>3. CASE SendPending
    <3> DEFINE g == [guest EXCEPT !.link = "open", !.pending = {}]
    <3>1. g \in GuestStates
      BY DEF Typed, GuestStates
    <3>2. guest' = g \/ \E id \in guest.pending : guest' = OnInvite(g, id)
      BY <2>3 DEF SendPending
    <3> HIDE DEF g
    <3>3. \A id \in guest.pending : id \in Nat
      BY DEF Typed, GuestStates
    <3> QED BY <3>1, <3>2, <3>3 DEF OnInvite, GuestStates
  <2> QED BY <2>1, <2>2, <2>3
<1> QED BY <1>1, <1>2 DEF Typed, MapsAgree, Kept

LEMMA StepType == Typed /\ [Next]_vars => Typed'
<1> SUFFICES ASSUME Typed, [Next]_vars PROVE Typed'
  OBVIOUS
<1>1. CASE UNCHANGED vars
  BY <1>1 DEF vars, Typed, MapsAgree, Kept
<1> QED BY <1>1, ServesType, GuestType, RoomType, LinkType DEF Next

LEMMA InitHolds == Init => Typed /\ AgreeInv /\ FullInv
<1> SUFFICES ASSUME Init PROVE Typed /\ AgreeInv /\ FullInv
  OBVIOUS
<1>1. Typed
  BY DEF Init, Typed, MapsAgree, Kept, GuestStates
<1>2. AgreeInv /\ FullInv
  BY DEF Init, AgreeInv, NothingVoid, NothingMissing, FullInv, Kept
<1> QED BY <1>1, <1>2

-----------------------------------------------------------------------------
(***************************************************************************)
(* The guest's page and the store agree.                                   *)
(***************************************************************************)

\* Nothing that happens makes up for what was not heard.
Later == mishaps \subseteq mishaps'

LEMMA MishapIsLater ==
    ASSUME NEW what, NEW happens, Mishap(what, happens)
    PROVE  Later /\ (happens => what \in mishaps')
BY DEF Later, Mishap

LEMMA StillWithout ==
    ASSUME Later, NEW S, mishaps' \cap S = {}
    PROVE  Without(S)
BY DEF Later, Without

\* Who is on the way to publish or to tell still is, the store and the page are as they were.
LEMMA SameAgrees ==
    ASSUME AgreeInv, UNCHANGED <<store, guest>>, Later,
           \A j \in jobs : j.at \in {"publish", "tell"} => j \in jobs'
    PROVE  AgreeInv'
<1> SUFFICES ASSUME Without({"crossed", "guest deaf"})'
             PROVE  NothingVoid' /\ NothingMissing'
  BY DEF AgreeInv
<1>1. NothingVoid /\ NothingMissing
  BY StillWithout DEF AgreeInv, Without
<1>2. IsPublished => IsPublished'
  BY DEF IsPublished, Kept
<1> QED BY <1>1, <1>2 DEF NothingVoid, NothingMissing, Kept

LEMMA KeptIs ==
    ASSUME Typed
    PROVE  store.byUser = Kept /\ Kept = {store.byRoom} \ {0} /\ Kept \subseteq Nat
BY DEF Typed, MapsAgree

LEMMA StoredAgrees ==
    ASSUME Typed, AgreeInv, NEW j \in jobs, InviteStored(j)
    PROVE  AgreeInv'
<1> DEFINE k == [j EXCEPT !.at = "publish"]
<1>1. k.at = "publish" /\ k.id = j.id
  BY MovedIs DEF Typed, Steps
<1>2. k \in jobs' /\ j.id \in Kept'
  BY DEF InviteStored, Runs, Upsert, Kept
<1> HIDE DEF k
<1>3. IsPublished'
  BY <1>1, <1>2 DEF IsPublished
<1> QED BY <1>3 DEF AgreeInv, NothingVoid, NothingMissing

LEMMA PublishedAgrees ==
    ASSUME Typed, AgreeInv, NEW j \in jobs, InvitePublished(j)
    PROVE  AgreeInv'
<1> SUFFICES ASSUME Without({"crossed", "guest deaf"})'
             PROVE  NothingVoid' /\ NothingMissing'
  BY DEF AgreeInv
<1>1. Later /\ (Hears(guest) /\ j.id \notin Kept => "crossed" \in mishaps')
  BY MishapIsLater DEF InvitePublished, Kept
<1>2. NothingVoid /\ NothingMissing
  BY <1>1, StillWithout DEF AgreeInv, Without
<1>3. Kept' = Kept
  BY DEF InvitePublished, Kept
<1>4. CASE Hears(guest)
  <2>1. j.id \in Kept
    BY <1>1, <1>4 DEF Without
  <2>2. Kept = {j.id}
    BY <2>1, KeptIs
  <2>3. guest'.invites = {j.id}
    BY <1>4 DEF InvitePublished, OnInvite, Typed, GuestStates
  <2> QED BY <1>3, <2>2, <2>3 DEF NothingVoid, NothingMissing
<1>5. CASE ~Hears(guest)
  <2>1. guest' = guest /\ guest.link = "closed"
    BY <1>5 DEF InvitePublished, Hears
  <2>2. \A i \in jobs : i # j => i \in jobs'
    BY DEF InvitePublished, Runs
  <2>3. j.at = "publish"
    BY DEF InvitePublished
  <2>4. (\E i \in jobs : i.at = "tell") => \E i \in jobs' : i.at = "tell"
    BY <2>2, <2>3
  <2>5. IsPublished => Kept # {}
    BY DEF IsPublished
  <2> QED BY <1>2, <1>3, <2>1, <2>4, <2>5 DEF NothingVoid, NothingMissing
<1> QED BY <1>4, <1>5

LEMMA ClearsAgrees ==
    ASSUME Typed, AgreeInv, NEW j \in jobs, Clears(j)
    PROVE  AgreeInv'
<1> DEFINE ids == IF j.op = "decline" THEN {j.id} \cap store.byInvitation ELSE {store.byRoom} \ {0}
<1>1. ids \subseteq Kept /\ store' = Cleared(store, ids) /\ j.at = "clear"
  BY KeptIs DEF Clears, Kept
<1>2. UNCHANGED <<guest, mishaps>>
  BY DEF Clears
<1>3. CASE ids # {}
  <2>1. PICK id \in ids : jobs' = (jobs \ {j}) \cup {[j EXCEPT !.at = "tell", !.id = id]}
    BY <1>3 DEF Clears
  <2>2. [j EXCEPT !.at = "tell", !.id = id].at = "tell"
    BY DEF Typed, JobRecords
  <2>3. \E i \in jobs' : i.at = "tell"
    BY <2>1, <2>2
  <2>4. Kept' = {}
    <3> HIDE DEF ids
    <3> QED BY <1>1, <1>3, KeptIs DEF Cleared, Kept
  <2> QED BY <2>3, <2>4 DEF AgreeInv, NothingVoid, NothingMissing
<1>4. CASE ids = {}
  <2>1. Kept' = Kept
    <3> HIDE DEF ids
    <3> QED BY <1>1, <1>4 DEF Cleared, Kept
  <2>2. \A i \in jobs : i # j => i \in jobs'
    BY <1>4 DEF Clears, Ends, Runs
  <2>3. IsPublished => IsPublished'
    BY <1>1, <2>1, <2>2 DEF IsPublished
  <2>4. (\E i \in jobs : i.at = "tell") => \E i \in jobs' : i.at = "tell"
    BY <1>1, <2>2
  <2> QED BY <1>2, <2>1, <2>3, <2>4 DEF AgreeInv, Without, NothingVoid, NothingMissing
<1> QED BY <1>3, <1>4

LEMMA ToldAgrees ==
    ASSUME Typed, AgreeInv, NEW j \in jobs, Told(j)
    PROVE  AgreeInv'
<1> SUFFICES ASSUME Without({"crossed", "guest deaf"})'
             PROVE  NothingVoid' /\ NothingMissing'
  BY DEF AgreeInv
<1>1. /\ Later
      /\ ~Hears(guest) => "guest deaf" \in mishaps'
      /\ Hears(guest) /\ guest.invites \cap Kept # {} => "crossed" \in mishaps'
  BY DEF Told, Later, Kept
<1>2. NothingMissing
  BY <1>1, StillWithout DEF AgreeInv, Without
<1>3. Hears(guest) /\ guest.invites \cap Kept = {}
  BY <1>1 DEF Without
<1>4. /\ guest'.invites = {} /\ guest'.link = guest.link /\ guest'.answered = guest.answered
      /\ guest'.pending = guest.pending /\ Kept' = Kept
  BY <1>3 DEF Told, OnCleared, Typed, GuestStates, Kept
<1>5. IsPublished => IsPublished'
  <2>1. \A i \in jobs : i # j => i \in jobs'
    BY DEF Told, Ends, Runs
  <2> QED BY <1>4, <2>1 DEF Told, IsPublished
<1>6. NothingVoid'
  BY <1>4 DEF NothingVoid
<1>7. NothingMissing'
  BY <1>2, <1>3, <1>4, <1>5 DEF NothingMissing
<1> QED BY <1>6, <1>7

LEMMA AnswersAgrees ==
    ASSUME Typed, AgreeInv, AcceptInvite \/ DismissInvite
    PROVE  AgreeInv'
<1>1. PICK id \in guest.invites : Answers(id)
  BY DEF AcceptInvite, Accept, DismissInvite
<1>2. UNCHANGED <<store, mishaps>> /\ jobs \subseteq jobs'
  BY DEF AcceptInvite, Accept, DismissInvite, declineInvite, Sits, Begins
<1>3. /\ guest'.link = guest.link /\ guest'.pending = guest.pending
      /\ guest'.invites = guest.invites \ {id} /\ guest'.answered = guest.answered \cup {id}
  BY <1>1, AnswersType
<1>4. IsPublished => IsPublished'
  BY <1>2 DEF IsPublished, Kept
<1>5. NothingVoid => NothingVoid'
  BY <1>2, <1>3, <1>4 DEF NothingVoid, Kept
<1>6. NothingMissing => NothingMissing'
  BY <1>2, <1>3, <1>4 DEF NothingMissing, Kept
<1> QED BY <1>2, <1>5, <1>6 DEF AgreeInv, Without

LEMMA LinkAgrees ==
    ASSUME Typed, AgreeInv, Break \/ Subscribe \/ ListPending
    PROVE  AgreeInv'
<1>1. UNCHANGED <<store, jobs, mishaps>>
  BY DEF Break, Subscribe, ListPending
<1>2. guest'.invites = guest.invites /\ guest'.answered = guest.answered
  BY DEF Break, Subscribe, ListPending, Typed, GuestStates
<1>3. \/ guest'.link = "closed"
      \/ guest.link = "closed" /\ guest'.link = "subscribed"
      \/ guest.link = "subscribed" /\ guest'.link = "listed" /\ guest'.pending = Kept
  <2>1. Break => guest'.link = "closed"
    BY DEF Break, Typed, GuestStates
  <2>2. Subscribe => guest.link = "closed" /\ guest'.link = "subscribed"
    BY DEF Subscribe, Typed, GuestStates
  <2>3. ListPending => guest.link = "subscribed" /\ guest'.link = "listed" /\ guest'.pending = Kept
    BY KeptIs DEF ListPending, ListForUser, Typed, GuestStates
  <2> QED BY <2>1, <2>2, <2>3
<1>4. Kept' = Kept /\ (IsPublished => IsPublished')
  BY <1>1 DEF Kept, IsPublished
<1>5. NothingVoid => NothingVoid'
  BY <1>1, <1>2, <1>3, <1>4 DEF NothingVoid
<1>6. NothingMissing => NothingMissing'
  BY <1>2, <1>3, <1>4 DEF NothingMissing
<1> QED BY <1>1, <1>5, <1>6 DEF AgreeInv, Without

LEMMA SentAgrees ==
    ASSUME Typed, AgreeInv, SendPending
    PROVE  AgreeInv'
<1> SUFFICES ASSUME Without({"crossed", "guest deaf"})'
             PROVE  NothingVoid' /\ NothingMissing'
  BY DEF AgreeInv
<1>1. Later /\ (~(guest.pending \subseteq Kept) => "crossed" \in mishaps')
  BY MishapIsLater DEF SendPending, Kept
<1>2. NothingVoid /\ NothingMissing
  BY <1>1, StillWithout DEF AgreeInv, Without
<1>3. UNCHANGED <<store, jobs>> /\ guest.link = "listed"
  BY DEF SendPending
<1>4. Kept' = Kept /\ (IsPublished => IsPublished')
  BY <1>3 DEF Kept, IsPublished
<1>5. guest.pending \subseteq Kept
  BY <1>1 DEF Without
<1> DEFINE g == [guest EXCEPT !.link = "open", !.pending = {}]
<1>6. /\ g \in GuestStates /\ g.invites = guest.invites /\ g.answered = guest.answered
  BY DEF Typed, GuestStates
<1>7. \/ guest.pending = {} /\ guest' = g
      \/ \E id \in guest.pending : guest' = OnInvite(g, id)
  BY DEF SendPending
<1> HIDE DEF g
<1>8. CASE guest.pending = {} /\ guest' = g
  BY <1>2, <1>3, <1>4, <1>6, <1>8 DEF NothingVoid, NothingMissing
<1>9. ASSUME NEW id \in guest.pending, guest' = OnInvite(g, id)
      PROVE  NothingVoid' /\ NothingMissing'
  <2>1. guest'.invites = {id}
    BY <1>6, <1>9 DEF OnInvite, GuestStates
  <2>2. Kept = {id}
    BY <1>5, <1>9, KeptIs
  <2> QED BY <1>4, <2>1, <2>2 DEF NothingVoid, NothingMissing
<1> QED BY <1>7, <1>8, <1>9

LEMMA StepAgrees == Typed /\ AgreeInv /\ [Next]_vars => AgreeInv'
<1> SUFFICES ASSUME Typed, AgreeInv, [Next]_vars PROVE AgreeInv'
  OBVIOUS
<1>1. ASSUME NEW j \in jobs, InviteChecked(j) \/ InviteAnswered(j)
      PROVE  AgreeInv'
  <2>1. UNCHANGED <<store, guest>> /\ Later
    BY <1>1 DEF InviteChecked, InviteAnswered, Later, Mishap
  <2>2. j.at \notin {"publish", "tell"} /\ \A i \in jobs : i # j => i \in jobs'
    BY <1>1 DEF InviteChecked, InviteAnswered, Runs, Ends
  <2> QED BY <2>1, <2>2, SameAgrees
<1>2. CASE Invite \/ OwnerLink \/ OwnerGoes \/ RoomEnds \/ OtherJoins \/ OpponentLeaves
  <2>1. UNCHANGED <<store, guest, mishaps>> /\ jobs \subseteq jobs'
    BY <1>2 DEF Invite, OwnerLink, OwnerGoes, RoomEnds, OtherJoins, OpponentLeaves, Sits, Begins,
                EndsAndClears
  <2> QED BY <2>1, SameAgrees DEF Later
<1>3. CASE UNCHANGED vars
  BY <1>3, SameAgrees DEF vars, Later
<1>4. CASE RoomExpires
  BY <1>4, MishapIsLater, SameAgrees DEF RoomExpires
<1> QED BY <1>1, <1>2, <1>3, <1>4, StoredAgrees, PublishedAgrees, ClearsAgrees, ToldAgrees, AnswersAgrees,
           LinkAgrees, SentAgrees DEF Next, Serves

\* When no handler is under way, the invitation on a connected guest's screen is the one
\* that invitationStore keeps, unless the guest has answered it: for any number of
\* invitations and of links that break.
THEOREM PagesAndStoreAgree == Spec => []InvitesAgree
<1>1. Typed /\ AgreeInv => InvitesAgree
  <2> SUFFICES ASSUME AgreeInv, jobs = {}, guest.link = "open", Without({"crossed", "guest deaf"})
               PROVE  /\ guest.invites \subseteq store.byInvitation
                      /\ store.byInvitation \subseteq guest.invites \cup guest.answered
    BY DEF InvitesAgree
  <2>1. NothingVoid /\ NothingMissing /\ ~IsPublished
    BY DEF AgreeInv, IsPublished
  <2> QED BY <2>1 DEF NothingVoid, NothingMissing, Kept
<1>2. Typed /\ AgreeInv /\ [Next]_vars => (Typed /\ AgreeInv)'
  BY StepType, StepAgrees
<1> QED BY <1>1, <1>2, InitHolds, PTL DEF Spec

-----------------------------------------------------------------------------
(***************************************************************************)
(* A room that is full or over invites nobody.                             *)
(***************************************************************************)
LEMMA FullServed ==
    ASSUME Typed, FullInv, NEW j \in jobs, Serves(j)
    PROVE  FullInv'
<1> DEFINE c == Job("room", "clear", 0)
<1>1. c.op = "room" /\ c.at = "clear" /\ c.id = 0
  BY DEF Job
<1> HIDE DEF c
<1>2. UNCHANGED room /\ (Joinable' <=> Joinable)
  BY DEF Serves, InviteChecked, InviteStored, InvitePublished, InviteAnswered, Clears, Told, Joinable
<1>3. ASSUME Later, UNCHANGED store, j.at # "clear", \A i \in jobs : i # j => i \in jobs'
      PROVE  FullInv'
  BY <1>1, <1>2, <1>3, StillWithout DEF FullInv, Without, c
<1>4. CASE InviteChecked(j) \/ InvitePublished(j) \/ InviteAnswered(j) \/ Told(j)
  <2>1. Later
    BY <1>4, MishapIsLater DEF InviteChecked, InvitePublished, InviteAnswered, Told, Later
  <2>2. UNCHANGED store /\ j.at # "clear" /\ \A i \in jobs : i # j => i \in jobs'
    BY <1>4 DEF InviteChecked, InvitePublished, InviteAnswered, Told, Runs, Ends
  <2> QED BY <1>3, <2>1, <2>2
<1>5. CASE InviteStored(j)
  <2>1. ~Joinable => "stored late" \in mishaps'
    BY <1>5, MishapIsLater DEF InviteStored, Accepts, Joinable
  <2> QED BY <1>2, <2>1 DEF FullInv, Without
<1>6. CASE Clears(j) /\ j.op # "decline"
  <2>1. store'.byRoom = 0
    BY <1>6 DEF Clears, Cleared
  <2> QED BY <2>1 DEF FullInv
<1>7. CASE Clears(j) /\ j.op = "decline"
  <2>1. store'.byRoom \in {0, store.byRoom} /\ UNCHANGED mishaps
    BY <1>7 DEF Clears, Cleared
  <2>2. c \in jobs => c \in jobs'
    BY <1>1, <1>7 DEF Clears, Ends, Runs
  <2> QED BY <1>2, <2>1, <2>2 DEF FullInv, Without, c
<1> QED BY <1>4, <1>5, <1>6, <1>7 DEF Serves

LEMMA StepFull == Typed /\ FullInv /\ [Next]_vars => FullInv'
<1> SUFFICES ASSUME Typed, FullInv, [Next]_vars PROVE FullInv'
  OBVIOUS
<1>1. ASSUME UNCHANGED <<store, mishaps>>, jobs \subseteq jobs', ~Joinable' => ~Joinable
      PROVE  FullInv'
  BY <1>1 DEF FullInv, Without
<1>2. CASE RoomEnds \/ OtherJoins \/ AcceptInvite
  <2>1. CASE Job("room", "clear", 0) \in jobs'
    BY <2>1 DEF FullInv
  <2>2. CASE UNCHANGED <<room, jobs>>
    BY <1>1, <1>2, <2>2 DEF AcceptInvite, RoomEnds, OtherJoins, Joinable
  <2> QED BY <1>2, <2>1, <2>2 DEF RoomEnds, EndsAndClears, OtherJoins, AcceptInvite, Accept, Sits, Begins
<1>3. CASE Invite \/ OwnerLink \/ OwnerGoes \/ OpponentLeaves \/ DismissInvite \/ Break \/ Subscribe
           \/ ListPending
  <2>1. UNCHANGED <<store, mishaps>> /\ jobs \subseteq jobs'
    BY <1>3 DEF Invite, OwnerLink, OwnerGoes, OpponentLeaves, DismissInvite, declineInvite, Break,
                Subscribe, ListPending, Begins
  <2>2. CASE UNCHANGED room
    BY <1>1, <2>1, <2>2 DEF Joinable
  <2>3. CASE OwnerGoes
    BY <1>1, <2>1, <2>3 DEF OwnerGoes, Joinable, Typed
  <2>4. CASE OpponentLeaves
    BY <1>1, <2>1, <2>4 DEF OpponentLeaves, Joinable, Typed
  <2> QED BY <1>3, <2>2, <2>3, <2>4 DEF Invite, OwnerLink, DismissInvite, Break, Subscribe, ListPending
<1>4. CASE SendPending
  BY <1>4, MishapIsLater, StillWithout DEF SendPending, FullInv, Joinable, Without
<1>5. CASE UNCHANGED vars
  BY <1>1, <1>5 DEF vars, Joinable
<1>6. CASE RoomExpires
  <2>1. CASE store.byRoom = 0
    BY <1>6, <2>1 DEF RoomExpires, FullInv
  <2>2. CASE store.byRoom # 0
    BY <1>6, <2>2, MishapIsLater DEF RoomExpires, FullInv, Without
  <2> QED BY <2>1, <2>2
<1> QED BY <1>2, <1>3, <1>4, <1>5, <1>6, FullServed DEF Next

\* Nobody is left invited to a room that is full or over, unless an invitation was checked
\* before and stored after, or was kept when a reader of the room wrote that it had expired
\* (GetRoomByID clears nothing): whoever joins the room, leaves it or closes it clears its
\* invitations, however that interleaves with invitations being made, answered and told.
THEOREM FullRoomsInviteNobody == Spec => []FullRoomInvitesNobody
<1>1. FullInv => FullRoomInvitesNobody
  BY DEF FullInv, FullRoomInvitesNobody
<1>2. Typed /\ FullInv /\ [Next]_vars => (Typed /\ FullInv)'
  BY StepType, StepFull
<1> QED BY <1>1, <1>2, InitHolds, PTL DEF Spec
=============================================================================
