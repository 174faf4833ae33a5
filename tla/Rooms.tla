---------------------------------- MODULE Rooms ----------------------------------
(***************************************************************************)
(* Rooms and who may post in them: RoomService and MessageService over the *)
(* tables rooms, room_members and messages.  A room is created insert by   *)
(* insert, without a transaction, and any insert may be the last one.      *)
(***************************************************************************)
EXTENDS Naturals, Sequences, Maps

CONSTANTS
  RoomId,          \* the ids createRoom draws
  Person,          \* humans and agents, by id
  MaxRoomMembers   \* the limit on the members of a request

ASSUME RoomsAssumption == MaxRoomMembers \in Nat

VARIABLES
  roomRows,     \* room -> its row
  memberRows,   \* room -> its rows in room_members
  creations,    \* room -> how far its createRoom call is
  sending,      \* the sendMessage calls that have passed the membership check
  messages      \* the messages stored

roomsVars == <<roomRows, memberRows, creations, sending, messages>>

Kind == {"human", "agent"}

\* A request names its members by id and kind.
CreateRoomDto ==
  UNION {[1..n -> Person \X Kind] : n \in 0..MaxRoomMembers}

RoomRow == [createdBy : Person, creatorType : Kind, visibility : {"public", "private"}]

RoomMember == [id : Person, kind : Kind, role : {"owner", "member"}]

Message == [room : RoomId, sender : Person]

RoomsTypeOK ==
  /\ DOMAIN roomRows \subseteq RoomId /\ roomRows \in [DOMAIN roomRows -> RoomRow]
  /\ memberRows \in [RoomId -> SUBSET RoomMember]
  /\ DOMAIN creations = DOMAIN roomRows
  /\ \A r \in DOMAIN creations :
        /\ DOMAIN creations[r] = {"at", "dto", "left"}
        /\ creations[r].at \in {"owner", "members", "created", "failed"}
        /\ creations[r].dto \in CreateRoomDto /\ creations[r].left \subseteq DOMAIN creations[r].dto
  /\ sending \subseteq Message /\ messages \subseteq Message

RoomsInit ==
  /\ roomRows = emptyMap /\ creations = emptyMap
  /\ memberRows = [r \in RoomId |-> {}]
  /\ sending = {} /\ messages = {}
-----------------------------------------------------------------------------
isMember(r, p) == \E m \in memberRows[r] : m.id = p

\* Mutant of others: the creator is inserted again when the request names it.
others_CreatorKept(dto, creator) == IF creator \in Person THEN DOMAIN dto ELSE {}

\* The places in the request whose members are inserted after the creator.
others(dto, creator) == {i \in DOMAIN dto : dto[i][1] # creator}

createRoomRow(r, creator, kind, visibility) ==
  roomRows' = put(roomRows, r, [createdBy |-> creator, creatorType |-> kind,
                                visibility |-> visibility])

CreateRoom(r, creator, kind, visibility, dto) ==
  /\ r \notin DOMAIN roomRows
  /\ Len(dto) <= MaxRoomMembers
  /\ createRoomRow(r, creator, kind, visibility)
  /\ creations' = put(creations, r, [at |-> "owner", dto |-> dto,
                                     left |-> others(dto, creator)])
  /\ UNCHANGED <<memberRows, sending, messages>>

\* The unique index is on room, member and kind, whatever the role.
insertable(r, id, kind) == \A m \in memberRows[r] : <<m.id, m.kind>> # <<id, kind>>

addMember(r, id, kind, role) ==
  memberRows' = [memberRows EXCEPT ![r] = @ \cup {[id |-> id, kind |-> kind, role |-> role]}]

AddOwner(r) ==
  /\ creations[r].at = "owner"
  /\ addMember(r, roomRows[r].createdBy, roomRows[r].creatorType, "owner")
  /\ creations' = [creations EXCEPT ![r].at = "members"]
  /\ UNCHANGED <<roomRows, sending, messages>>

AddNextMember(r) ==
  /\ creations[r].at = "members"
  /\ \E i \in creations[r].left :
       /\ \A j \in creations[r].left : i <= j
       /\ LET m == creations[r].dto[i] IN
            IF insertable(r, m[1], m[2])
            THEN /\ addMember(r, m[1], m[2], "member")
                 /\ creations' = [creations EXCEPT ![r].left = @ \ {i}]
            ELSE /\ creations' = [creations EXCEPT ![r].at = "failed"]
                 /\ UNCHANGED memberRows
  /\ UNCHANGED <<roomRows, sending, messages>>

\* A table that cannot be written, or a server that stops, ends the call: what it
\* has inserted stays.
CreationFails(r) ==
  /\ creations[r].at \in {"owner", "members"}
  /\ creations' = [creations EXCEPT ![r].at = "failed"]
  /\ UNCHANGED <<roomRows, memberRows, sending, messages>>

AnswerCreated(r) ==
  /\ creations[r].at = "members" /\ creations[r].left = {}
  /\ creations' = [creations EXCEPT ![r].at = "created"]
  /\ UNCHANGED <<roomRows, memberRows, sending, messages>>
-----------------------------------------------------------------------------
\* sendMessage: the room is found, the membership checked; the legacy list of
\* members it falls back to is empty in every row repo.create makes.
CheckSender(r, p) ==
  /\ r \in DOMAIN roomRows
  /\ isMember(r, p)
  /\ sending' = sending \cup {[room |-> r, sender |-> p]}
  /\ UNCHANGED <<roomRows, memberRows, creations, messages>>

\* The message is stored, and the room's lastActivityAt with it.
StoreMessage(m) ==
  /\ messages' = messages \cup {m}
  /\ sending' = sending \ {m}
  /\ UNCHANGED <<roomRows, memberRows, creations>>

RoomsNext ==
  \/ \E r \in RoomId, p \in Person, k \in Kind, v \in {"public", "private"},
        dto \in CreateRoomDto : CreateRoom(r, p, k, v, dto)
  \/ \E r \in DOMAIN creations : \/ AddOwner(r) \/ AddNextMember(r)
                                 \/ CreationFails(r) \/ AnswerCreated(r)
  \/ \E r \in RoomId, p \in Person : CheckSender(r, p)
  \/ \E m \in sending : StoreMessage(m)

RoomsSpec == RoomsInit /\ [][RoomsNext]_roomsVars
-----------------------------------------------------------------------------
\* What the reading requests answer: listRooms, getRoom and listMessages.
findByMember(p) == {r \in DOMAIN roomRows : isMember(r, p)}

findByRoom(r) == {m \in messages : m.room = r}

listsRoom(r, p) == r \in findByMember(p)

showsRoom(r, p) ==
  r \in DOMAIN roomRows /\ (roomRows[r].visibility = "private" => isMember(r, p))

showsMessages(r, p) == r \in DOMAIN roomRows /\ isMember(r, p)

named(r) ==
  LET dto == creations[r].dto IN {roomRows[r].createdBy} \cup {dto[i][1] : i \in DOMAIN dto}

Filled(r) == creations[r].at = "created" => {m.id : m \in memberRows[r]} = named(r)

OwnerFirst(r) ==
  memberRows[r] # {} =>
    {m \in memberRows[r] : m.id = roomRows[r].createdBy \/ m.role = "owner"}
      = {[id |-> roomRows[r].createdBy, kind |-> roomRows[r].creatorType, role |-> "owner"]}

\* Wherever the creation of a room stops, the room has nobody in it or its creator
\* as its one owner, and nobody the request did not name; a room whose creation was
\* answered has everybody (a duplicate in the request, or a failing insert, ends in
\* an error instead); who is listed a room can open it and read it, and only
\* members have posted (createRoom inserts row by row, without a transaction).
RoomsHold ==
  \A r \in DOMAIN roomRows :
     /\ Filled(r) /\ OwnerFirst(r)
     /\ {m.id : m \in memberRows[r]} \subseteq named(r)
     /\ \A p \in Person : listsRoom(r, p) => showsRoom(r, p) /\ showsMessages(r, p)
     /\ \A m \in findByRoom(r) : showsMessages(r, m.sender)
=============================================================================
