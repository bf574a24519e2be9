---------------------------- MODULE ChatRoomProofs ----------------------------
(***************************************************************************)
(* Proofs about ChatRoom: who is in a room's list, that the messages of    *)
(* one sender arrive in their order, and that nothing falls between the    *)
(* history and the broadcasts.                                             *)
(***************************************************************************)
EXTENDS ChatRoom, ListsProofs, FiniteSetTheorems, SequenceTheorems, TLAPS

(***************************************************************************)
(* Seats: the lists, and where the handlers are.                           *)
(***************************************************************************)
Places == Casting \cup {"start", "history", "listening", "done", "failed"}
TaskState == [at : Places, msg : Nat, next : Nat \ {0}, dead : Seq(Conns)]
Joined == {"history", "joining", "listening", "chatting"}

(* In its room and connected: from its seat on, until its handler leaves.  *)
Inside(c) == task[c].at \in Joined /\ sock[c] = "open"
Listed(c) == \E i \in DOMAIN clients[room[c]] : clients[room[c]][i] = c

Unique(list) == \A i, j \in DOMAIN list : list[i] = list[j] => i = j
AllClosed(dead) == \A i \in DOMAIN dead : sock[dead[i]] = "closed"

SeatTypes ==
    /\ registered \in 0 .. created
    /\ created \in Nat /\ created <= Cardinality({c \in Conns : sock[c] # "new"})
    /\ clients \in [Rooms -> Seq(Conns)]
    /\ sock \in [Conns -> {"new", "open", "closed"}]
    /\ room \in [Conns -> {0} \cup Rooms]
    /\ task \in [Conns -> TaskState]

SeatLinks ==
    /\ \A r \in Rooms : Unique(clients[r])
    /\ \A r \in Rooms : \A i \in DOMAIN clients[r] : room[clients[r][i]] = r
    /\ \A c \in Conns :
          /\ task[c].at = "start" <=> sock[c] = "new"
          /\ IF sock[c] = "new" THEN room[c] = 0 ELSE room[c] \in 1 .. created
          /\ AllClosed(task[c].dead)

SeatsHeld ==
    \A c \in Conns :
        /\ Inside(c) => Listed(c) /\ (created = 1 => registered = 1)
        /\ task[c].at \in {"leaving", "done"} => ~ Listed(c)

SeatInv == SeatTypes /\ SeatLinks /\ SeatsHeld

(* What the steps of c's handler, after the first, do to the seats.        *)
Unseats(c, gone, at) ==
    /\ clients' = [clients EXCEPT ![room[c]] = Keep(@, Conns \ gone)]
    /\ \A d \in gone : sock[d] = "closed" \/ (d = c /\ at \in {"leaving", "done"})

Handles(c) ==
    /\ task[c].at \notin {"start", "done", "failed"}
    /\ UNCHANGED <<created, room>>
    /\ sock' = sock \/ sock' = [sock EXCEPT ![c] = "closed"]
    /\ registered' = registered \/ (registered' = 0 /\ clients'[room[c]] = <<>>)
    /\ \E t \in TaskState :
          /\ task' = [task EXCEPT ![c] = t]
          /\ t.at \notin {"start", "history"}
          /\ t.at \in Joined => task[c].at \in Joined
          /\ AllClosed(t.dead)
          /\ \/ clients' = clients /\ (t.at \in {"leaving", "done"} => ~ Listed(c))
             \/ \E gone \in SUBSET Conns :
                   /\ Unseats(c, gone, t.at)
                   /\ t.at \in {"leaving", "done"} => c \in gone \/ ~ Listed(c)

-----------------------------------------------------------------------------
(* A handler that is not broadcasting.                                     *)
LEMMA Places0 ==
    ASSUME NEW at \in Places
    PROVE  /\ At(at) \in TaskState /\ At(at).at = at /\ At(at).msg = 0
           /\ At(at).next = 1 /\ At(at).dead = <<>> /\ AllClosed(At(at).dead)
<1> DEFINE none == <<>>
<1>1. none \in Seq(Conns) /\ DOMAIN none = {}
  OBVIOUS
<1>2. At(at) = [at |-> at, msg |-> 0, next |-> 1, dead |-> none]
  BY DEF At
<1> HIDE DEF none
<1>3. /\ At(at) \in TaskState /\ At(at).at = at /\ At(at).msg = 0
      /\ At(at).next = 1 /\ At(at).dead = none
  BY <1>1, <1>2 DEF TaskState
<1>4. AllClosed(At(at).dead)
  BY <1>1, <1>3 DEF AllClosed
<1> QED
  BY <1>3, <1>4 DEF none

LEMMA SeatStart == ASSUME ChatAssumption, Init PROVE SeatInv
<1> DEFINE none == <<>>
           new == At("start")
           known == {c \in Conns : sock[c] # "new"}
<1>1. none \in Seq(Conns) /\ DOMAIN none = {}
  OBVIOUS
<1>2. new \in TaskState /\ new.at = "start" /\ new.dead = none
  BY Places0 DEF Places
<1>3. /\ registered = 0 /\ created = 0
      /\ clients = [r \in Rooms |-> none]
      /\ sock = [c \in Conns |-> "new"]
      /\ room = [c \in Conns |-> 0]
      /\ task = [c \in Conns |-> new]
  BY DEF Init
<1>4. known = {}
  BY <1>3
<1>5. Cardinality(known) = 0
  BY <1>4, FS_EmptySet
<1> HIDE DEF none, new, known
<1>6. SeatTypes
  BY <1>1, <1>2, <1>3, <1>5 DEF SeatTypes, known
<1>7. SeatLinks
  BY <1>1, <1>2, <1>3 DEF SeatLinks, Unique, AllClosed
<1>8. SeatsHeld
  BY <1>2, <1>3 DEF SeatsHeld, Inside, Joined
<1> QED
  BY <1>6, <1>7, <1>8 DEF SeatInv

(* Everybody in a list has been connected.                                 *)
LEMMA MembersKnown ==
    ASSUME SeatInv, NEW r \in Rooms, NEW i \in DOMAIN clients[r]
    PROVE  /\ clients[r] \in Seq(Conns) /\ clients[r][i] \in Conns
           /\ sock[clients[r][i]] \in {"open", "closed"}
<1>1. clients[r] \in Seq(Conns) /\ room[clients[r][i]] = r /\ 0 \notin Rooms
  BY DEF SeatInv, SeatTypes, SeatLinks, Rooms
<1>2. clients[r][i] \in Conns
  BY <1>1
<1> QED
  BY <1>1, <1>2 DEF SeatInv, SeatTypes, SeatLinks

LEMMA RoomKnown ==
    ASSUME SeatInv, NEW c \in Conns, task[c].at # "start"
    PROVE  /\ room[c] \in Rooms /\ room[c] \in 1 .. created
           /\ clients[room[c]] \in Seq(Conns)
           /\ task[c] \in TaskState /\ AllClosed(task[c].dead)
           /\ task[c].dead \in Seq(Conns)
<1>1. sock[c] # "new" /\ room[c] \in 1 .. created /\ AllClosed(task[c].dead)
      /\ task[c] \in TaskState
  BY DEF SeatInv, SeatTypes, SeatLinks
<1>2. room[c] \in Rooms
  BY <1>1 DEF SeatInv, SeatTypes
<1>3. clients[room[c]] \in Seq(Conns) /\ task[c].dead \in Seq(Conns)
  BY <1>1, <1>2 DEF SeatInv, SeatTypes, TaskState
<1> QED
  BY <1>1, <1>2, <1>3

-----------------------------------------------------------------------------
(* The pieces the handlers' steps are made of.                             *)
(* A send leaves its handler suspended behind the client it went to, and   *)
(* marks none dead that is not closed.                                     *)
LEMMA SendMoves ==
    ASSUME NEW c \in Conns, NEW kind \in Casting, NEW m \in Nat, NEW list \in Seq(Conns),
           NEW i \in Nat \ {0}, NEW dead \in Seq(Conns), AllClosed(dead),
           \A k \in DOMAIN list : sock[list[k]] \in {"open", "closed"},
           Send(c, kind, m, list, i, dead)
    PROVE  \E t \in TaskState :
              /\ task' = [task EXCEPT ![c] = t]
              /\ t.at = kind /\ t.msg = m /\ AllClosed(t.dead)
              /\ t.next = Target(c, kind, list, i) + 1
<1> DEFINE j == Target(c, kind, list, i)
           d == list[j]
           up == sock[d] = "open"
           now == IF up THEN dead ELSE Append(dead, d)
           t == [at |-> kind, msg |-> m, next |-> j + 1, dead |-> now]
<1>1. j \in Nat \ {0}
  BY DEF Target
<1>2. j <= Len(list) /\ task' = [task EXCEPT ![c] = t]
  BY DEF Send
<1>3. j \in DOMAIN list /\ d \in Conns /\ sock[d] \in {"open", "closed"}
  BY <1>1, <1>2
<1> HIDE DEF j, d
<1>4. now \in Seq(Conns) /\ AllClosed(now)
  <2>1. CASE up
    BY <2>1
  <2>2. CASE ~ up
    <3>1. sock[d] = "closed" /\ now = Append(dead, d)
      BY <1>3, <2>2
    <3>2. Append(dead, d) \in Seq(Conns)
      BY <1>3
    <3>3. \A k \in DOMAIN Append(dead, d) :
             Append(dead, d)[k] = d \/ (k \in DOMAIN dead /\ Append(dead, d)[k] = dead[k])
      BY <1>3
    <3> QED
      BY <3>1, <3>2, <3>3 DEF AllClosed
  <2> QED
    BY <2>1, <2>2
<1> HIDE DEF now
<1>5. t \in TaskState
  BY <1>1, <1>4 DEF TaskState, Places
<1>6. t.at = kind /\ t.msg = m /\ t.dead = now /\ t.next = j + 1
  OBVIOUS
<1> HIDE DEF t
<1> QED
  BY <1>2, <1>4, <1>5, <1>6 DEF j

(* Cleaning up takes only clients that are closed off a list.              *)
LEMMA Cleans ==
    ASSUME NEW list \in Seq(Conns), NEW dead \in Seq(Conns), AllClosed(dead)
    PROVE  \E gone \in SUBSET Conns :
              /\ Clean(list, dead) = Keep(list, Conns \ gone)
              /\ \A d \in gone : sock[d] = "closed"
<1> DEFINE missing == {i \in DOMAIN dead : dead[i] \notin ToSet(list)}
           first == CHOOSE i \in missing : \A j \in missing : i <= j
           last == IF missing = {} THEN Len(dead) ELSE first - 1
           removed == {dead[i] : i \in 1 .. last}
<1>1. Clean(list, dead) = Keep(list, Conns \ removed)
  BY DEF Clean
<1>2. DOMAIN dead = 1 .. Len(dead) /\ Len(dead) \in Nat
  OBVIOUS
<1>3. 1 .. last \subseteq DOMAIN dead
  <2>1. CASE missing = {}
    BY <1>2, <2>1
  <2>2. CASE missing # {}
    <3>1. missing \subseteq Nat
      BY <1>2
    <3>2. \E i \in missing : \A j \in missing : i <= j
      <4> HIDE DEF missing
      <4> QED
        BY <2>2, <3>1, LeastNat
    <3>3. first \in missing
      BY <3>2
    <3>4. first \in DOMAIN dead
      BY <3>3
    <3> HIDE DEF first, missing
    <3> QED
      BY <1>2, <2>2, <3>4
  <2> QED
    BY <2>1, <2>2
<1> HIDE DEF last
<1>4. removed \in SUBSET Conns /\ \A d \in removed : sock[d] = "closed"
  BY <1>2, <1>3 DEF AllClosed
<1> QED
  BY <1>1, <1>4

-----------------------------------------------------------------------------
(* Handles: every step of a handler but its first.                         *)
LEMMA LeaveHandles ==
    ASSUME SeatInv, NEW c \in Conns, task[c].at \in {"listening", "chatting"},
           NEW before, NEW gone \in SUBSET Conns, \A d \in gone : sock[d] = "closed",
           before = Keep(clients[room[c]], Conns \ gone) \/ before = clients[room[c]],
           Leave(c, before), UNCHANGED <<created, room>>
    PROVE  Handles(c)
<1> DEFINE r == room[c]
           list == Keep(before, Conns \ {c})
<1>1. /\ r \in Rooms /\ clients[r] \in Seq(Conns) /\ task[c] \in TaskState
  BY RoomKnown
<1>2. PICK out \in SUBSET Conns :
         /\ list = Keep(clients[r], Conns \ out) /\ c \in out
         /\ \A d \in out : sock[d] = "closed" \/ d = c
  <2>1. CASE before = clients[r]
    <3>1. list = Keep(clients[r], Conns \ {c}) /\ {c} \in SUBSET Conns
      BY <2>1
    <3> HIDE DEF list, r
    <3> QED
      BY <3>1
  <2>2. CASE before = Keep(clients[r], Conns \ gone)
    <3>1. (Conns \ gone) \cap (Conns \ {c}) = Conns \ (gone \cup {c})
      OBVIOUS
    <3>2. list = Keep(clients[r], Conns \ (gone \cup {c}))
      BY <1>1, <2>2, <3>1, KeepBoth
    <3>3. gone \cup {c} \in SUBSET Conns
      OBVIOUS
    <3> QED
      BY <3>2, <3>3
  <2> QED
    BY <2>1, <2>2
<1>3. list \in Seq(Conns) /\ clients' = [clients EXCEPT ![r] = list]
  <2>1. list \in Seq(Conns \cap (Conns \ out))
    BY <1>1, <1>2, KeepType
  <2>2. clients' = [clients EXCEPT ![r] = list]
    BY DEF Leave, SetClients
  <2> HIDE DEF list
  <2> QED
    BY <2>1, <2>2
<1>4. \A k \in DOMAIN list : sock[list[k]] \in {"open", "closed"}
  <2>1. \A k \in DOMAIN list : \E n \in DOMAIN clients[r] : clients[r][n] = list[k]
    <3> DEFINE l == clients[r]
               k2 == Keep(l, Conns \ out)
    <3>1. l \in Seq(Conns)
      BY <1>1
    <3> HIDE DEF l
    <3>2. \A k \in DOMAIN k2 : \E n \in DOMAIN l : l[n] = k2[k]
      BY <3>1, KeepHolds
    <3> HIDE DEF list
    <3> QED
      BY <1>2, <3>2 DEF l
  <2> QED
    BY <1>1, <2>1, MembersKnown
<1>5. \/ Send(c, "leaving", 0, list, 1, <<>>) /\ UNCHANGED <<registered, sock>>
      \/ list = <<>> /\ DropRoom(list) /\ Finish(c, "done")
  BY DEF Leave
<1>6. clients'[r] = list /\ clients' = [clients EXCEPT ![r] = Keep(@, Conns \ out)]
  BY <1>1, <1>2, <1>3 DEF SeatInv, SeatTypes
<1> HIDE DEF list
<1>7. \A at \in {"leaving", "done"} : Unseats(c, out, at)
  BY <1>2, <1>6 DEF Unseats
<1>8. CASE Send(c, "leaving", 0, list, 1, <<>>) /\ UNCHANGED <<registered, sock>>
  <2> DEFINE none == <<>>
  <2>1. none \in Seq(Conns) /\ AllClosed(none)
    BY DEF AllClosed
  <2>2. "leaving" \in Casting /\ 1 \in Nat \ {0} /\ 0 \in Nat
    BY DEF Casting
  <2>3. Send(c, "leaving", 0, list, 1, none)
    BY <1>8
  <2> HIDE DEF none
  <2>4. PICK t \in TaskState :
           task' = [task EXCEPT ![c] = t] /\ t.at = "leaving" /\ AllClosed(t.dead)
    BY <1>3, <1>4, <2>1, <2>2, <2>3, SendMoves
  <2> QED
    BY <1>2, <1>7, <1>8, <2>4 DEF Handles, Joined
<1>9. CASE list = <<>> /\ DropRoom(list) /\ Finish(c, "done")
  <2>1. At("done") \in TaskState /\ At("done").at = "done" /\ AllClosed(At("done").dead)
    BY Places0 DEF Places
  <2>2. task' = [task EXCEPT ![c] = At("done")] /\ sock' = [sock EXCEPT ![c] = "closed"]
        /\ registered' = 0
    BY <1>9 DEF Finish, DropRoom
  <2> QED
    BY <1>2, <1>6, <1>7, <1>9, <2>1, <2>2 DEF Handles, Joined
<1> QED
  BY <1>5, <1>8, <1>9

(* The seats after a step of c's handler that cleans up, and no more.      *)
LEMMA CleanUnseats ==
    ASSUME SeatInv, NEW c \in Conns, task[c].at # "start",
           NEW dead \in Seq(Conns), AllClosed(dead),
           SetClients(room[c], Clean(clients[room[c]], dead))
    PROVE  /\ \E gone \in SUBSET Conns : \A at \in Places : Unseats(c, gone, at)
           /\ clients'[room[c]] = Clean(clients[room[c]], dead)
<1> DEFINE r == room[c]
           list == Clean(clients[r], dead)
<1>1. r \in Rooms /\ clients[r] \in Seq(Conns)
  BY RoomKnown
<1>2. PICK gone \in SUBSET Conns :
         list = Keep(clients[r], Conns \ gone) /\ \A d \in gone : sock[d] = "closed"
  BY <1>1, Cleans
<1>3. clients' = [clients EXCEPT ![r] = list]
  BY DEF SetClients
<1> HIDE DEF list
<1>4. clients' = [clients EXCEPT ![r] = Keep(@, Conns \ gone)] /\ clients'[r] = list
  BY <1>1, <1>2, <1>3 DEF SeatInv, SeatTypes
<1>5. \A at \in Places : Unseats(c, gone, at)
  BY <1>2, <1>4 DEF Unseats
<1> QED
  BY <1>4, <1>5 DEF list

LEMMA JoinEndHandles ==
    ASSUME SeatInv, NEW c \in Conns, task[c].at \in {"history", "joining"},
           NEW dead \in Seq(Conns), AllClosed(dead), JoinEnds(c, dead),
           UNCHANGED <<registered, created, room>>
    PROVE  Handles(c)
<1>1. SetClients(room[c], Clean(clients[room[c]], dead))
  BY DEF JoinEnds
<1>2. PICK gone \in SUBSET Conns : \A at \in Places : Unseats(c, gone, at)
  BY <1>1, CleanUnseats
<1>3. PICK at \in {"listening", "failed"} :
         /\ task' = [task EXCEPT ![c] = At(at)]
         /\ sock' = sock \/ sock' = [sock EXCEPT ![c] = "closed"]
  BY DEF JoinEnds, Finish
<1>4. At(at) \in TaskState /\ At(at).at = at /\ AllClosed(At(at).dead) /\ at \in Places
  BY Places0 DEF Places
<1> QED
  BY <1>2, <1>3, <1>4 DEF Handles, Joined

LEMMA JoinHandles ==
    ASSUME SeatInv, NEW c \in Conns, Join(c) PROVE Handles(c)
<1> DEFINE list == clients[room[c]]
           none == <<>>
<1>1. /\ task[c].at = "history" /\ UNCHANGED <<registered, created, room>>
      /\ \/ Send(c, "joining", 0, list, 1, <<>>) /\ UNCHANGED <<clients, shrunk, sock>>
         \/ JoinEnds(c, <<>>)
  BY DEF Join
<1>2. room[c] \in Rooms /\ list \in Seq(Conns)
  BY <1>1, RoomKnown
<1>3. \A k \in DOMAIN list : sock[list[k]] \in {"open", "closed"}
  BY <1>2, MembersKnown
<1>4. none \in Seq(Conns) /\ AllClosed(none)
  BY DEF AllClosed
<1>5. CASE Send(c, "joining", 0, list, 1, none) /\ UNCHANGED <<clients, shrunk, sock>>
  <2>1. "joining" \in Casting /\ 1 \in Nat \ {0} /\ 0 \in Nat
    BY DEF Casting
  <2>3. Send(c, "joining", 0, list, 1, none)
    BY <1>5
  <2>4. list \in Seq(Conns) /\ none \in Seq(Conns) /\ AllClosed(none)
        /\ \A k \in DOMAIN list : sock[list[k]] \in {"open", "closed"}
    BY <1>2, <1>3, <1>4
  <2> HIDE DEF none, list
  <2>2. PICK t \in TaskState :
           task' = [task EXCEPT ![c] = t] /\ t.at = "joining" /\ AllClosed(t.dead)
    BY <2>1, <2>3, <2>4, SendMoves
  <2> QED
    BY <1>1, <1>5, <2>2 DEF Handles, Joined
<1>6. CASE JoinEnds(c, none)
  BY <1>1, <1>4, <1>6, JoinEndHandles
<1> QED
  BY <1>1, <1>5, <1>6

LEMMA JoinFailsHandles ==
    ASSUME SeatInv, NEW c \in Conns, JoinFails(c) PROVE Handles(c)
<1>1. At("failed") \in TaskState /\ At("failed").at = "failed" /\ AllClosed(At("failed").dead)
  BY Places0 DEF Places
<1>2. /\ task[c].at = "history" /\ UNCHANGED <<registered, created, clients, room>>
      /\ task' = [task EXCEPT ![c] = At("failed")] /\ sock' = [sock EXCEPT ![c] = "closed"]
  BY DEF JoinFails, Finish
<1> QED
  BY <1>1, <1>2 DEF Handles, Joined

LEMMA ChatHandles ==
    ASSUME SeatInv, NEW c \in Conns, Chat(c) PROVE Handles(c)
<1> DEFINE list == clients[room[c]]
           m == Len(sender) + 1
           none == <<>>
<1>1. /\ task[c].at = "listening" /\ UNCHANGED <<registered, created, clients, sock, room>>
      /\ \/ Send(c, "chatting", m, list, 1, <<>>)
         \/ UNCHANGED task
  BY DEF Chat
<1>2. room[c] \in Rooms /\ list \in Seq(Conns) /\ task[c] \in TaskState /\ AllClosed(task[c].dead)
  BY <1>1, RoomKnown
<1>3. \A k \in DOMAIN list : sock[list[k]] \in {"open", "closed"}
  BY <1>2, MembersKnown
<1>4. none \in Seq(Conns) /\ AllClosed(none)
  BY DEF AllClosed
<1>5. CASE Send(c, "chatting", m, list, 1, none)
  <2> DEFINE one == 1
             kind == "chatting"
  <2>1. kind \in Casting /\ one \in Nat \ {0} /\ m \in Nat
    BY DEF Casting
  <2>3. Send(c, kind, m, list, one, none)
    BY <1>5
  <2>4. list \in Seq(Conns) /\ none \in Seq(Conns) /\ AllClosed(none)
        /\ \A k \in DOMAIN list : sock[list[k]] \in {"open", "closed"}
    BY <1>2, <1>3, <1>4
  <2> HIDE DEF none, list, m, one, kind
  <2>2. PICK t \in TaskState :
           task' = [task EXCEPT ![c] = t] /\ t.at = kind /\ AllClosed(t.dead)
    <3>1. ASSUME NEW k1 \in Casting, NEW m1 \in Nat, NEW i1 \in Nat \ {0},
                 Send(c, k1, m1, list, i1, none)
          PROVE  \E t \in TaskState :
                    /\ task' = [task EXCEPT ![c] = t]
                    /\ t.at = k1 /\ t.msg = m1 /\ AllClosed(t.dead)
                    /\ t.next = Target(c, k1, list, i1) + 1
      BY <2>4, <3>1, SendMoves
    <3> QED
      BY <2>1, <2>3, <3>1
  <2> QED
    BY <1>1, <2>2 DEF Handles, Joined, kind
<1>6. CASE UNCHANGED task
  <2>1. task' = [task EXCEPT ![c] = task[c]]
    BY <1>6 DEF SeatInv, SeatTypes
  <2> QED
    BY <1>1, <1>2, <2>1 DEF Handles, Joined
<1> QED
  BY <1>1, <1>5, <1>6

LEMMA HangUpHandles ==
    ASSUME SeatInv, NEW c \in Conns, HangUp(c) PROVE Handles(c)
<1>1. /\ task[c].at = "listening" /\ Leave(c, clients[room[c]]) /\ UNCHANGED <<created, room>>
  BY DEF HangUp
<1>2. {} \in SUBSET Conns /\ \A d \in {} : sock[d] = "closed"
  OBVIOUS
<1> QED
  BY <1>1, <1>2, LeaveHandles

LEMMA ResumeHandles ==
    ASSUME SeatInv, NEW c \in Conns, Resume(c) PROVE Handles(c)
<1> DEFINE list == clients[room[c]]
           t == task[c]
<1>1. /\ t.at \in Casting /\ UNCHANGED <<created, room>>
      /\ \/ Send(c, t.at, t.msg, list, t.next, t.dead)
            /\ UNCHANGED <<registered, clients, history, sock, shrunk>>
         \/ t.at = "joining" /\ JoinEnds(c, t.dead) /\ UNCHANGED <<registered, history>>
         \/ t.at = "chatting" /\ ChatEnds(c, t.dead)
         \/ t.at = "leaving" /\ LeaveEnds(c, t.dead)
  BY DEF Resume
<1>2. /\ room[c] \in Rooms /\ list \in Seq(Conns) /\ t \in TaskState /\ AllClosed(t.dead)
      /\ t.dead \in Seq(Conns)
  BY <1>1, RoomKnown DEF Casting
<1>3. \A k \in DOMAIN list : sock[list[k]] \in {"open", "closed"}
  BY <1>2, MembersKnown
<1>4. CASE Send(c, t.at, t.msg, list, t.next, t.dead)
           /\ UNCHANGED <<registered, clients, history, sock, shrunk>>
  <2>1. t.next \in Nat \ {0} /\ t.msg \in Nat
    BY <1>2 DEF TaskState
  <2>2. \A d \in Conns : t.at = "leaving" /\ d = c => ~ Listed(d)
    BY DEF SeatInv, SeatsHeld
  <2> HIDE DEF list, t
  <2>3. PICK u \in TaskState :
           task' = [task EXCEPT ![c] = u] /\ u.at = t.at /\ AllClosed(u.dead)
    BY <1>1, <1>2, <1>3, <1>4, <2>1, SendMoves
  <2> QED
    BY <1>1, <1>4, <2>2, <2>3 DEF Handles, Joined, Casting, t
<1>5. CASE t.at = "joining" /\ JoinEnds(c, t.dead) /\ UNCHANGED <<registered, history>>
  BY <1>1, <1>2, <1>5, JoinEndHandles
<1>6. CASE t.at = "chatting" /\ ChatEnds(c, t.dead)
  <2> DEFINE kept == Clean(list, t.dead)
  <2>1. CASE Leave(c, kept)
    <3>1. PICK gone \in SUBSET Conns :
             kept = Keep(list, Conns \ gone) /\ \A d \in gone : sock[d] = "closed"
      BY <1>2, Cleans
    <3> HIDE DEF kept
    <3> QED
      BY <1>1, <1>6, <2>1, <3>1, LeaveHandles
  <2>2. CASE /\ SetClients(room[c], kept)
             /\ task' = [task EXCEPT ![c] = At("listening")]
             /\ UNCHANGED <<history, registered, sock, got>>
    <3>1. PICK gone \in SUBSET Conns : \A at \in Places : Unseats(c, gone, at)
      BY <1>2, <1>6, <2>2, CleanUnseats
    <3>2. /\ At("listening") \in TaskState /\ At("listening").at = "listening"
          /\ AllClosed(At("listening").dead)
      BY Places0 DEF Places
    <3> QED
      BY <1>1, <1>6, <2>2, <3>1, <3>2 DEF Handles, Joined, Places
  <2> QED
    BY <1>6, <2>1, <2>2 DEF ChatEnds
<1>7. CASE t.at = "leaving" /\ LeaveEnds(c, t.dead)
  <2> DEFINE kept == Clean(list, t.dead)
  <2>1. /\ SetClients(room[c], kept)
        /\ registered' = registered \/ (registered' = 0 /\ kept = <<>>)
        /\ task' = [task EXCEPT ![c] = At("done")] /\ sock' = [sock EXCEPT ![c] = "closed"]
    BY <1>7 DEF LeaveEnds, Finish, DropRoom
  <2>2. PICK gone \in SUBSET Conns : \A at \in Places : Unseats(c, gone, at)
    BY <1>2, <1>7, <2>1, CleanUnseats
  <2>3. clients'[room[c]] = kept
    BY <1>2, <1>7, <2>1, CleanUnseats
  <2>4. At("done") \in TaskState /\ At("done").at = "done" /\ AllClosed(At("done").dead)
    BY Places0 DEF Places
  <2>5. ~ Listed(c)
    BY <1>7 DEF SeatInv, SeatsHeld
  <2> HIDE DEF kept
  <2> QED
    BY <1>1, <1>7, <2>1, <2>2, <2>3, <2>4, <2>5 DEF Handles, Joined, Places
<1> QED
  BY <1>1, <1>4, <1>5, <1>6, <1>7

-----------------------------------------------------------------------------
(* A list that lost some clients has the others, each once.                *)
LEMMA KeepSeats ==
    ASSUME NEW list \in Seq(Conns), Unique(list), NEW S, NEW k, k = Keep(list, S)
    PROVE  /\ k \in Seq(Conns) /\ Unique(k)
           /\ \A i \in DOMAIN k : k[i] \in S /\ \E j \in DOMAIN list : i <= j /\ list[j] = k[i]
           /\ \A j \in DOMAIN list : list[j] \in S => \E i \in DOMAIN k : k[i] = list[j]
<1>1. PICK f : KeepsAt(f, list, S)
  BY KeepPositions
<1>2. k \in Seq(Conns \cap S)
  BY KeepType
<1>3. KeepsAt(f, list, S) <=>
         /\ DOMAIN f = 1 .. Len(k)
         /\ \A i \in DOMAIN f : /\ f[i] \in 1 .. Len(list) /\ i <= f[i]
                                /\ k[i] = list[f[i]] /\ list[f[i]] \in S
         /\ \A i, j \in DOMAIN f : i < j => f[i] < f[j]
         /\ \A n \in 1 .. Len(list) : list[n] \in S => \E i \in DOMAIN f : f[i] = n
  BY DEF KeepsAt
<1>4. k \in Seq(Conns) /\ DOMAIN k = 1 .. Len(k) /\ DOMAIN list = 1 .. Len(list)
      /\ Len(k) \in Nat
  BY <1>2
<1>5. ASSUME NEW i \in DOMAIN k, NEW j \in DOMAIN k, k[i] = k[j] PROVE i = j
  <2>1. f[i] \in DOMAIN list /\ f[j] \in DOMAIN list /\ list[f[i]] = list[f[j]]
    BY <1>1, <1>3, <1>4, <1>5
  <2>2. f[i] = f[j] /\ f[i] \in Nat /\ f[j] \in Nat
    BY <1>4, <2>1 DEF Unique
  <2>3. ~ (i < j) /\ ~ (j < i) /\ i \in Nat /\ j \in Nat
    BY <1>1, <1>3, <1>4, <2>2
  <2> QED
    BY <2>3
<1>6. Unique(k)
  BY <1>5 DEF Unique
<1>7. \A i \in DOMAIN k : k[i] \in S /\ \E j \in DOMAIN list : i <= j /\ list[j] = k[i]
  BY <1>1, <1>3, <1>4
<1>8. \A j \in DOMAIN list : list[j] \in S => \E i \in DOMAIN k : k[i] = list[j]
  BY <1>1, <1>3, <1>4
<1> QED
  BY <1>4, <1>6, <1>7, <1>8

LEMMA HandlesKeeps ==
    ASSUME ChatAssumption, SeatInv, NEW c \in Conns, Handles(c) PROVE SeatInv'
<1>0. PICK t \in TaskState :
         /\ task' = [task EXCEPT ![c] = t]
         /\ t.at \notin {"start", "history"}
         /\ t.at \in Joined => task[c].at \in Joined
         /\ AllClosed(t.dead)
         /\ \/ clients' = clients /\ (t.at \in {"leaving", "done"} => ~ Listed(c))
            \/ \E gone \in SUBSET Conns :
                  /\ Unseats(c, gone, t.at)
                  /\ t.at \in {"leaving", "done"} => c \in gone \/ ~ Listed(c)
  BY DEF Handles
<1>1. /\ task[c].at \notin {"start", "done", "failed"}
      /\ UNCHANGED <<created, room>>
      /\ sock' = sock \/ sock' = [sock EXCEPT ![c] = "closed"]
      /\ registered' = registered \/ (registered' = 0 /\ clients'[room[c]] = <<>>)
  BY DEF Handles
<1> DEFINE r == room[c]
<1>2. r \in Rooms /\ r \in 1 .. created /\ clients[r] \in Seq(Conns) /\ Unique(clients[r])
  BY <1>1, RoomKnown DEF SeatInv, SeatLinks
<1>3. /\ SeatTypes
      /\ \A d \in Conns :
            /\ sock'[d] \in {"new", "open", "closed"}
            /\ sock'[d] = sock[d] \/ (d = c /\ sock'[d] = "closed")
            /\ sock[d] = "closed" => sock'[d] = "closed"
            /\ sock'[d] = "new" <=> sock[d] = "new"
      /\ sock[c] # "new"
  BY <1>1 DEF SeatInv, SeatTypes, SeatLinks
<1>4. /\ task'[c] = t /\ \A d \in Conns \ {c} : task'[d] = task[d]
      /\ task' \in [Conns -> TaskState]
  BY <1>0, <1>3 DEF SeatTypes
(* What becomes of the lists. *)
<1>5. PICK gone \in SUBSET Conns :
         /\ \A d \in gone : sock[d] = "closed" \/ (d = c /\ t.at \in {"leaving", "done"})
         /\ t.at \in {"leaving", "done"} => c \in gone \/ ~ Listed(c)
         /\ clients' \in [Rooms -> Seq(Conns)]
         /\ \A q \in Rooms : Unique(clients'[q])
         /\ \A q \in Rooms : \A i \in DOMAIN clients'[q] :
               /\ \E j \in DOMAIN clients[q] : clients[q][j] = clients'[q][i]
               /\ q = r => clients'[q][i] \notin gone
         /\ \A q \in Rooms : \A j \in DOMAIN clients[q] :
               clients[q][j] \in gone \/ \E i \in DOMAIN clients'[q] : clients'[q][i] = clients[q][j]
  <2>1. CASE clients' = clients /\ (t.at \in {"leaving", "done"} => ~ Listed(c))
    <3>1. {} \in SUBSET Conns
      OBVIOUS
    <3> QED
      BY <2>1, <3>1 DEF SeatInv, SeatTypes, SeatLinks
  <2>2. ASSUME NEW gone \in SUBSET Conns, Unseats(c, gone, t.at),
               t.at \in {"leaving", "done"} => c \in gone \/ ~ Listed(c)
        PROVE  /\ \A d \in gone : sock[d] = "closed" \/ (d = c /\ t.at \in {"leaving", "done"})
               /\ clients' \in [Rooms -> Seq(Conns)]
               /\ \A q \in Rooms : Unique(clients'[q])
               /\ \A q \in Rooms : \A i \in DOMAIN clients'[q] :
                     /\ \E j \in DOMAIN clients[q] : clients[q][j] = clients'[q][i]
                     /\ q = r => clients'[q][i] \notin gone
               /\ \A q \in Rooms : \A j \in DOMAIN clients[q] :
                     \/ clients[q][j] \in gone
                     \/ \E i \in DOMAIN clients'[q] : clients'[q][i] = clients[q][j]
    <3> DEFINE list == clients[r]
               kept == Keep(list, Conns \ gone)
    <3>1. clients' = [clients EXCEPT ![r] = kept]
      BY <2>2 DEF Unseats
    <3>2. /\ kept \in Seq(Conns) /\ Unique(kept)
          /\ \A i \in DOMAIN kept :
                kept[i] \in Conns \ gone /\ \E j \in DOMAIN list : i <= j /\ list[j] = kept[i]
          /\ \A j \in DOMAIN list :
                list[j] \in Conns \ gone => \E i \in DOMAIN kept : kept[i] = list[j]
      <4>1. list \in Seq(Conns) /\ Unique(list)
        BY <1>2
      <4>2. kept = Keep(list, Conns \ gone)
        OBVIOUS
      <4> HIDE DEF list, kept
      <4>3. ASSUME NEW S, kept = Keep(list, S)
            PROVE  /\ kept \in Seq(Conns) /\ Unique(kept)
                   /\ \A i \in DOMAIN kept :
                         kept[i] \in S /\ \E j \in DOMAIN list : i <= j /\ list[j] = kept[i]
                   /\ \A j \in DOMAIN list :
                         list[j] \in S => \E i \in DOMAIN kept : kept[i] = list[j]
        BY <4>1, <4>3, KeepSeats
      <4> QED
        BY <4>2, <4>3
    <3>3. \A j \in DOMAIN list : list[j] \in Conns
      BY <1>2
    <3> HIDE DEF kept
    <3>4. clients'[r] = kept /\ \A q \in Rooms \ {r} : clients'[q] = clients[q]
      BY <1>2, <1>3, <3>1 DEF SeatTypes
    <3>5. clients' \in [Rooms -> Seq(Conns)]
      BY <1>2, <1>3, <3>1, <3>2 DEF SeatTypes
    <3>6. \A d \in gone : sock[d] = "closed" \/ (d = c /\ t.at \in {"leaving", "done"})
      BY <2>2 DEF Unseats
    <3>7. \A q \in Rooms : Unique(clients'[q])
      BY <3>2, <3>4 DEF SeatInv, SeatLinks
    <3>8. \A q \in Rooms : \A i \in DOMAIN clients'[q] :
             /\ \E j \in DOMAIN clients[q] : clients[q][j] = clients'[q][i]
             /\ q = r => clients'[q][i] \notin gone
      BY <3>2, <3>4
    <3>9. \A q \in Rooms : \A j \in DOMAIN clients[q] :
             \/ clients[q][j] \in gone
             \/ \E i \in DOMAIN clients'[q] : clients'[q][i] = clients[q][j]
      BY <3>2, <3>3, <3>4
    <3> QED
      BY <3>5, <3>6, <3>7, <3>8, <3>9
  <2> QED
    BY <1>0, <2>1, <2>2
<1>6. SeatTypes'
  <2>1. {d \in Conns : sock[d] # "new"} = {d \in Conns : sock'[d] # "new"}
    BY <1>3
  <2>2. registered' \in 0 .. created'
    BY <1>1, <1>3 DEF SeatTypes
  <2>3. sock' \in [Conns -> {"new", "open", "closed"}]
    BY <1>1, <1>3 DEF SeatTypes
  <2> QED
    BY <1>1, <1>3, <1>4, <1>5, <2>1, <2>2, <2>3 DEF SeatTypes
<1>7. SeatLinks'
  <2>1. \A q \in Rooms : \A i \in DOMAIN clients'[q] : room[clients'[q][i]] = q
    BY <1>5 DEF SeatInv, SeatLinks
  <2>2. ASSUME NEW d \in Conns
        PROVE  /\ task'[d].at = "start" <=> sock'[d] = "new"
               /\ IF sock'[d] = "new" THEN room[d] = 0 ELSE room[d] \in 1 .. created
    BY <1>0, <1>3, <1>4 DEF SeatInv, SeatLinks
  <2>3. ASSUME NEW d \in Conns, NEW i \in DOMAIN task'[d].dead
        PROVE  sock'[task'[d].dead[i]] = "closed"
    <3> DEFINE dead == task'[d].dead
    <3>1. dead \in Seq(Conns) /\ AllClosed(dead)
      BY <1>0, <1>3, <1>4 DEF SeatInv, SeatLinks, TaskState
    <3>2. dead[i] \in Conns /\ sock[dead[i]] = "closed"
      BY <2>3, <3>1 DEF AllClosed
    <3> QED
      BY <1>3, <3>2
  <2> QED
    BY <1>1, <1>5, <2>1, <2>2, <2>3 DEF SeatLinks, AllClosed
<1>8. SeatsHeld'
  <2>1. ASSUME NEW d \in Conns, Inside(d)' PROVE Listed(d)' /\ (created' = 1 => registered' = 1)
    <3>1. /\ task'[d].at \in Joined /\ sock'[d] = "open" /\ sock[d] = "open"
          /\ task[d].at \in Joined
      BY <1>0, <1>3, <1>4, <2>1 DEF Inside
    <3>2. Listed(d) /\ (created = 1 => registered = 1)
      BY <3>1 DEF SeatInv, SeatsHeld, Inside
    <3>3. d \notin gone
      BY <1>4, <1>5, <3>1 DEF Joined
    <3>4. room[d] \in Rooms /\ room[d] \in 1 .. created
      BY <3>1 DEF SeatInv, SeatTypes, SeatLinks
    <3>5. \E i \in DOMAIN clients'[room[d]] : clients'[room[d]][i] = d
      BY <1>5, <3>2, <3>3, <3>4 DEF Listed
    <3>6. created = 1 => registered' = registered
      <4>1. SUFFICES ASSUME created = 1, clients'[r] = <<>> PROVE FALSE
        BY <1>1
      <4>2. r = room[d]
        BY <1>2, <3>4, <4>1
      <4> QED
        BY <3>5, <4>1, <4>2
    <3> QED
      BY <1>1, <3>2, <3>5, <3>6 DEF Listed
  <2>2. ASSUME NEW d \in Conns, task'[d].at \in {"leaving", "done"}, Listed(d)' PROVE FALSE
    <3>1. room[d] \in Rooms
      BY <1>2, <1>3, <1>4, <2>2 DEF SeatInv, SeatTypes, SeatLinks
    <3>2. PICK i \in DOMAIN clients'[room[d]] : clients'[room[d]][i] = d
      BY <1>1, <2>2 DEF Listed
    <3>3. Listed(d) /\ (room[d] = r => d \notin gone)
      <4> DEFINE q == room[d]
                 k == clients'[q]
      <4>1. q \in Rooms /\ i \in DOMAIN k /\ k[i] = d
        BY <3>1, <3>2
      <4>2. \E j \in DOMAIN clients[q] : clients[q][j] = k[i]
        BY <1>5, <4>1
      <4>3. q = r => k[i] \notin gone
        BY <1>5, <4>1
      <4> HIDE DEF q, k
      <4> QED
        BY <4>1, <4>2, <4>3 DEF Listed, q
    <3>4. CASE d = c
      BY <1>4, <1>5, <2>2, <3>3, <3>4
    <3>5. CASE d # c
      BY <1>4, <2>2, <3>3, <3>5 DEF SeatInv, SeatsHeld
    <3> QED
      BY <3>4, <3>5
  <2> QED
    BY <2>1, <2>2 DEF SeatsHeld
<1> QED
  BY <1>6, <1>7, <1>8 DEF SeatInv

LEMMA ConnectKeeps ==
    ASSUME ChatAssumption, SeatInv, NEW c \in Conns, Connect(c) PROVE SeatInv'
<1> DEFINE r == IF registered = 0 THEN created + 1 ELSE registered
           more == IF r > created THEN r ELSE created
           at == IF history[r] = <<>> THEN "listening" ELSE "history"
           t == At(at)
           known == {d \in Conns : sock[d] # "new"}
           list == clients[r]
           longer == Append(list, c)
<1>1. /\ sock[c] = "new" /\ sock' = [sock EXCEPT ![c] = "open"]
      /\ room' = [room EXCEPT ![c] = r] /\ registered' = r /\ created' = more
      /\ clients' = [clients EXCEPT ![r] = longer]
      /\ task' = [task EXCEPT ![c] = t]
  <2>1. clients' = [clients EXCEPT ![r] = Append(@, c)]
    BY DEF Connect, Seat
  <2>2. clients' = [clients EXCEPT ![r] = longer]
    BY <2>1
  <2> QED
    BY <2>2 DEF Connect
<1>2. SeatTypes /\ SeatLinks /\ SeatsHeld
  BY DEF SeatInv
<1>3. created + 1 <= Cardinality(Conns) /\ Cardinality(Conns) \in Nat
  <2>1. IsFiniteSet(Conns) /\ known \subseteq Conns \ {c}
    BY <1>1 DEF ChatAssumption
  <2>2. IsFiniteSet(Conns \ {c}) /\ Cardinality(Conns \ {c}) = Cardinality(Conns) - 1
    BY <2>1, FS_RemoveElement
  <2>3. Cardinality(known) <= Cardinality(Conns \ {c}) /\ IsFiniteSet(known)
    BY <2>1, <2>2, FS_Subset
  <2>4. Cardinality(known) \in Nat /\ Cardinality(Conns) \in Nat
    BY <2>1, <2>3, FS_CardinalityType
  <2>5. created \in Nat /\ created <= Cardinality(known)
    BY <1>2 DEF SeatTypes
  <2> HIDE DEF known
  <2> QED
    BY <2>2, <2>3, <2>4, <2>5
<1>4. r \in Rooms /\ r \in 1 .. more /\ more \in Nat /\ created <= more /\ more <= created + 1
      /\ (more = created + 1 => registered = 0)
  BY <1>2, <1>3 DEF SeatTypes, Rooms
<1>5. /\ t \in TaskState /\ t.at = at /\ AllClosed(t.dead) /\ t.dead = <<>>
      /\ at \in {"listening", "history"}
  BY Places0 DEF Places
<1> HIDE DEF t, at, more
<1>6. /\ list \in Seq(Conns) /\ Unique(list)
      /\ \A i \in DOMAIN list : room[list[i]] = r
      /\ room[c] = 0 /\ 0 \notin Rooms
  BY <1>1, <1>2, <1>4 DEF SeatTypes, SeatLinks, Rooms
<1>7. \A i \in DOMAIN list : list[i] # c
  BY <1>4, <1>6
<1> HIDE DEF r
<1>8. /\ longer \in Seq(Conns) /\ DOMAIN longer = 1 .. Len(list) + 1
      /\ longer[Len(list) + 1] = c /\ Len(list) \in Nat /\ DOMAIN list = 1 .. Len(list)
      /\ \A i \in DOMAIN list : longer[i] = list[i]
  <2> HIDE DEF list
  <2> QED
    BY <1>6
<1> HIDE DEF longer
<1>9. /\ clients' \in [Rooms -> Seq(Conns)] /\ clients'[r] = longer
      /\ \A q \in Rooms \ {r} : clients'[q] = clients[q]
  BY <1>1, <1>2, <1>4, <1>8 DEF SeatTypes
<1>10. /\ sock' \in [Conns -> {"new", "open", "closed"}] /\ sock'[c] = "open"
       /\ \A d \in Conns \ {c} : sock'[d] = sock[d]
       /\ room' \in [Conns -> {0} \cup Rooms] /\ room'[c] = r
       /\ \A d \in Conns \ {c} : room'[d] = room[d]
       /\ task' \in [Conns -> TaskState] /\ task'[c] = t
       /\ \A d \in Conns \ {c} : task'[d] = task[d]
  BY <1>1, <1>2, <1>4, <1>5 DEF SeatTypes
<1>11. SeatTypes'
  <2>1. {d \in Conns : sock'[d] # "new"} = known \cup {c} /\ c \notin known
    BY <1>1, <1>10
  <2>2. IsFiniteSet(known)
    <3>1. IsFiniteSet(Conns) /\ known \subseteq Conns
      BY DEF ChatAssumption
    <3> QED
      BY <3>1, FS_Subset
  <2>3. Cardinality(known \cup {c}) = Cardinality(known) + 1
    BY <2>1, <2>2, FS_AddElement
  <2>4. created <= Cardinality(known) /\ Cardinality(known) \in Nat /\ created \in Nat
    BY <1>2, <2>2, FS_CardinalityType DEF SeatTypes
  <2> HIDE DEF known
  <2> DEFINE after == {d \in Conns : sock'[d] # "new"}
             n == Cardinality(after)
             k == Cardinality(known)
  <2>5. more <= n
    <3>1. n = k + 1 /\ created <= k /\ k \in Nat /\ created \in Nat
      BY <2>1, <2>3, <2>4
    <3> HIDE DEF n, k
    <3> QED
      BY <1>4, <3>1
  <2>6. r \in 0 .. more
    BY <1>4
  <2> QED
    BY <1>1, <1>4, <1>9, <1>10, <2>5, <2>6 DEF SeatTypes
<1>12. SeatLinks'
  <2>1. Unique(longer)
    <3> SUFFICES ASSUME NEW i \in DOMAIN longer, NEW j \in DOMAIN longer, longer[i] = longer[j]
                 PROVE  i = j
      BY DEF Unique
    <3>1. \A k \in DOMAIN list : longer[k] = list[k] /\ longer[k] # c
      BY <1>7, <1>8
    <3>2. longer[Len(list) + 1] = c
      BY <1>8
    <3>3. \A k \in DOMAIN longer : k \in DOMAIN list \/ k = Len(list) + 1
      BY <1>8
    <3>4. CASE i \in DOMAIN list /\ j \in DOMAIN list
      BY <1>6, <3>1, <3>4 DEF Unique
    <3> QED
      BY <3>1, <3>2, <3>3, <3>4
  <2>2. \A q \in Rooms : Unique(clients'[q])
    BY <1>2, <1>9, <2>1 DEF SeatLinks
  <2>3. ASSUME NEW q \in Rooms, NEW i \in DOMAIN clients'[q] PROVE room'[clients'[q][i]] = q
    <3>1. CASE q = r
      <4>1. i \in 1 .. Len(list) + 1 /\ clients'[q][i] = longer[i]
        BY <1>8, <1>9, <2>3, <3>1
      <4>2. CASE i = Len(list) + 1
        BY <1>8, <1>10, <3>1, <4>1, <4>2
      <4>3. CASE i \in DOMAIN list
        <5>1. longer[i] = list[i] /\ list[i] \in Conns /\ list[i] # c /\ room[list[i]] = r
          BY <1>6, <1>7, <1>8, <4>3
        <5> QED
          BY <1>10, <3>1, <4>1, <5>1
      <4> QED
        BY <1>8, <4>1, <4>2, <4>3
    <3>2. CASE q # r
      <4>1. clients'[q] = clients[q] /\ clients[q][i] \in Conns /\ room[clients[q][i]] = q
        BY <1>2, <1>9, <2>3, <3>2 DEF SeatTypes, SeatLinks
      <4>2. clients[q][i] # c
        BY <1>6, <4>1
      <4> QED
        BY <1>10, <4>1, <4>2
    <3> QED
      BY <3>1, <3>2
  <2>4. ASSUME NEW d \in Conns
        PROVE  /\ task'[d].at = "start" <=> sock'[d] = "new"
               /\ IF sock'[d] = "new" THEN room'[d] = 0 ELSE room'[d] \in 1 .. created'
    <3>1. CASE d = c
      BY <1>1, <1>4, <1>5, <1>10, <3>1
    <3>2. CASE d # c
      <4>1. /\ task[d].at = "start" <=> sock[d] = "new"
            /\ IF sock[d] = "new" THEN room[d] = 0 ELSE room[d] \in 1 .. created
        BY <1>2 DEF SeatLinks
      <4>2. 1 .. created \subseteq 1 .. created'
        BY <1>1, <1>2, <1>4 DEF SeatTypes
      <4> QED
        BY <1>10, <3>2, <4>1, <4>2
    <3> QED
      BY <3>1, <3>2
  <2>5. ASSUME NEW d \in Conns, NEW i \in DOMAIN task'[d].dead
        PROVE  sock'[task'[d].dead[i]] = "closed"
    <3>1. CASE d = c
      BY <1>5, <1>10, <2>5, <3>1
    <3>2. CASE d # c
      <4>1. task[d].dead \in Seq(Conns) /\ AllClosed(task[d].dead) /\ i \in DOMAIN task[d].dead
        BY <1>2, <1>10, <2>5, <3>2 DEF SeatTypes, SeatLinks, TaskState
      <4>2. task[d].dead[i] \in Conns /\ sock[task[d].dead[i]] = "closed"
        BY <4>1 DEF AllClosed
      <4> QED
        BY <1>1, <1>10, <3>2, <4>2
    <3> QED
      BY <3>1, <3>2
  <2> QED
    BY <2>2, <2>3, <2>4, <2>5 DEF SeatLinks, AllClosed
<1>13. SeatsHeld'
  <2>1. ASSUME NEW d \in Conns
        PROVE  /\ Inside(d)' => Listed(d)' /\ (created' = 1 => registered' = 1)
               /\ task'[d].at \in {"leaving", "done"} => ~ Listed(d)'
    <3>1. created' = 1 => registered' = 1
      BY <1>1, <1>4
    <3>2. CASE d = c
      <4>1. Len(list) + 1 \in DOMAIN clients'[room'[c]]
            /\ clients'[room'[c]][Len(list) + 1] = c
        BY <1>8, <1>9, <1>10
      <4>2. Listed(c)'
        BY <4>1 DEF Listed
      <4> QED
        BY <1>5, <1>10, <3>1, <3>2, <4>2
    <3>3. CASE d # c
      <4>1. /\ Inside(d)' <=> Inside(d)
            /\ room'[d] = room[d] /\ task'[d] = task[d] /\ room[d] \in {0} \cup Rooms
        BY <1>2, <1>10, <3>3 DEF Inside, SeatTypes
      <4>2. task[d].at # "start" => room[d] \in Rooms
        BY <1>2 DEF SeatLinks, SeatTypes
      <4>3. CASE room[d] = r
        <5>1. Listed(d) => Listed(d)'
          <6>1. ASSUME NEW i \in DOMAIN list, list[i] = d
                PROVE  i \in DOMAIN clients'[room'[d]] /\ clients'[room'[d]][i] = d
            BY <1>8, <1>9, <4>1, <4>3, <6>1
          <6> QED
            BY <4>3, <6>1 DEF Listed
        <5>2. Listed(d)' => Listed(d)
          <6>1. ASSUME NEW i \in DOMAIN longer, longer[i] = d
                PROVE  i \in DOMAIN list /\ list[i] = d
            BY <1>8, <3>3, <6>1
          <6> QED
            BY <1>9, <4>1, <4>3, <6>1 DEF Listed
        <5> QED
          BY <1>2, <3>1, <4>1, <5>1, <5>2 DEF SeatsHeld
      <4>4. CASE room[d] # r /\ room[d] \in Rooms
        <5>1. Listed(d)' <=> Listed(d)
          BY <1>9, <4>1, <4>4 DEF Listed
        <5> QED
          BY <1>2, <3>1, <4>1, <5>1 DEF SeatsHeld
      <4>5. CASE room[d] \notin Rooms
        BY <4>1, <4>2, <4>5 DEF Inside, Joined
      <4> QED
        BY <4>3, <4>4, <4>5
    <3> QED
      BY <3>2, <3>3
  <2> QED
    BY <2>1 DEF SeatsHeld
<1> QED
  BY <1>11, <1>12, <1>13 DEF SeatInv

LEMMA DisconnectKeeps ==
    ASSUME SeatInv, NEW c \in Conns, Disconnect(c) PROVE SeatInv'
<1>1. /\ sock[c] = "open" /\ sock' = [sock EXCEPT ![c] = "closed"]
      /\ UNCHANGED <<registered, created, clients, room, task>>
  BY DEF Disconnect
<1>2. /\ sock' \in [Conns -> {"new", "open", "closed"}]
      /\ \A d \in Conns : /\ sock'[d] = "new" <=> sock[d] = "new"
                          /\ sock[d] = "closed" => sock'[d] = "closed"
                          /\ sock'[d] = "open" => sock[d] = "open"
  BY <1>1 DEF SeatInv, SeatTypes
<1>3. SeatTypes'
  <2>1. {d \in Conns : sock'[d] # "new"} = {d \in Conns : sock[d] # "new"}
    BY <1>2
  <2> QED
    BY <1>1, <1>2, <2>1 DEF SeatInv, SeatTypes
<1>4. \A d \in Conns : task[d].dead \in Seq(Conns)
  BY DEF SeatInv, SeatTypes, TaskState
<1>5. \A d \in Conns : AllClosed(task[d].dead) => AllClosed(task[d].dead)'
  <2>1. ASSUME NEW d \in Conns, AllClosed(task[d].dead), NEW i \in DOMAIN task[d].dead
        PROVE  sock'[task[d].dead[i]] = "closed"
    <3>1. task[d].dead[i] \in Conns /\ sock[task[d].dead[i]] = "closed"
      BY <1>4, <2>1 DEF AllClosed
    <3> QED
      BY <1>2, <3>1
  <2> QED
    BY <1>1, <2>1 DEF AllClosed
<1>6. SeatLinks'
  BY <1>1, <1>2, <1>5 DEF SeatInv, SeatLinks, AllClosed
<1>7. SeatsHeld'
  BY <1>1, <1>2 DEF SeatInv, SeatsHeld, Inside, Listed
<1> QED
  BY <1>3, <1>6, <1>7 DEF SeatInv

LEMMA SeatStep ==
    ASSUME ChatAssumption, SeatInv, [Next]_vars PROVE SeatInv'
<1>1. ASSUME NEW c \in Conns, Connect(c) PROVE SeatInv'
  BY <1>1, ConnectKeeps
<1>2. ASSUME NEW c \in Conns, Join(c) \/ JoinFails(c) \/ Chat(c) \/ Resume(c) \/ HangUp(c)
      PROVE  SeatInv'
  <2>1. Handles(c)
    BY <1>2, JoinHandles, JoinFailsHandles, ChatHandles, ResumeHandles, HangUpHandles
  <2> QED
    BY <2>1, HandlesKeeps
<1>3. ASSUME NEW c \in Conns, Disconnect(c) PROVE SeatInv'
  BY <1>3, DisconnectKeeps
<1>4. CASE UNCHANGED vars
  <2>1. UNCHANGED <<registered, created, clients, sock, room, task>>
    BY <1>4 DEF vars
  <2> QED
    BY <2>1 DEF SeatInv, SeatTypes, SeatLinks, SeatsHeld, Inside, Listed, AllClosed
<1> QED
  BY <1>1, <1>2, <1>3, <1>4 DEF Next

LEMMA SeatsHold == ASSUME ChatAssumption, SeatInv PROVE RosterTrue
<1>1. PresentAreListed
  <2>1. SUFFICES ASSUME NEW c \in Conns, Present(c)
                 PROVE  Cardinality({i \in DOMAIN clients[room[c]] :
                                        clients[room[c]][i] = c}) = 1
    BY DEF PresentAreListed
  <2> DEFINE list == clients[room[c]]
             at == {i \in DOMAIN list : list[i] = c}
  <2>2. Listed(c) /\ room[c] \in Rooms
    <3>1. Inside(c) /\ task[c].at # "start"
      BY <2>1 DEF Present, Inside, Joined
    <3> QED
      BY <3>1, RoomKnown DEF SeatInv, SeatsHeld
  <2>3. PICK i \in DOMAIN list : list[i] = c
    BY <2>2 DEF Listed
  <2>4. Unique(list)
    BY <2>2 DEF SeatInv, SeatLinks
  <2>5. at = {i}
    <3> HIDE DEF list
    <3> QED
      BY <2>3, <2>4 DEF Unique
  <2>6. Cardinality(at) = 1
    BY <2>5, FS_Singleton
  <2> QED
    BY <2>6
<1>2. InRegistry
  <2>1. SUFFICES ASSUME NEW c \in Conns, Present(c), created = 1 PROVE registered = room[c]
    BY DEF InRegistry
  <2>2. Inside(c) /\ task[c].at # "start"
    BY <2>1 DEF Present, Inside, Joined
  <2>3. registered = 1 /\ room[c] \in 1 .. 1
    BY <2>1, <2>2, RoomKnown DEF SeatInv, SeatsHeld
  <2> QED
    BY <2>3
<1>3. NobodyLingers
  <2>1. SUFFICES ASSUME NEW c \in Conns, task[c].at = "done", c \in Members(room[c]) PROVE FALSE
    BY DEF NobodyLingers
  <2>2. Listed(c)
    BY <2>1 DEF Members, ToSet, Listed
  <2> QED
    BY <2>1, <2>2 DEF SeatInv, SeatsHeld
<1> QED
  BY <1>1, <1>2, <1>3 DEF RosterTrue

(* Whatever handlers do to the list while others walk it, a live           *)
(* participant is in it once, one that left is not, and the only room is   *)
(* in the registry while somebody is there (add_client, _broadcast and     *)
(* remove_client of chat_room.py, websocket_chat of server.py).            *)
THEOREM RostersTell == Spec => []RosterTrue
<1>1. Init => SeatInv
  BY ChatAssumption, SeatStart
<1>2. SeatInv /\ [Next]_vars => SeatInv'
  BY ChatAssumption, SeatStep
<1>3. SeatInv => RosterTrue
  BY ChatAssumption, SeatsHold
<1> QED
  BY <1>1, <1>2, <1>3, PTL DEF Spec

-----------------------------------------------------------------------------
(***************************************************************************)
(* Mail: what has been broadcast to whom.  A message is on its way to the  *)
(* clients from a place in the list on, and none of them has it yet.       *)
(***************************************************************************)
Has(d, m) == \E n \in DOMAIN got[d] : got[d][n] = m

MailTypes ==
    /\ sender \in Seq(Conns)
    /\ got \in [Conns -> Seq(Chats)]

MailSent ==
    \A c \in Conns :
        /\ task[c].at = "chatting" =>
              /\ task[c].msg \in Chats /\ sender[task[c].msg] = c
              /\ \A k \in Chats : sender[k] = c => k <= task[c].msg
        /\ task[c].at # "chatting" => task[c].msg = 0
        /\ task[c].at = "start" => got[c] = <<>>

MailAhead ==
    \A c \in Conns : task[c].at = "chatting" =>
        \A i \in DOMAIN clients[room[c]] :
            i >= task[c].next => ~ Has(clients[room[c]][i], task[c].msg)

MailInv == MailTypes /\ MailSent /\ MailAhead /\ SenderOrder

LEMMA MailStart == ASSUME Init PROVE MailInv
<1> DEFINE none == <<>>
<1>1. \A S : none \in Seq(S) /\ DOMAIN none = {} /\ Len(none) = 0
  OBVIOUS
<1>2. /\ sender = none /\ got = [c \in Conns |-> none]
      /\ task = [c \in Conns |-> At("start")]
  BY DEF Init
<1>3. At("start").at = "start" /\ At("start").msg = 0
  BY Places0 DEF Places
<1> HIDE DEF none
<1>4. MailTypes
  BY <1>1, <1>2 DEF MailTypes
<1>5. MailSent
  BY <1>2, <1>3 DEF MailSent, none
<1>6. MailAhead
  BY <1>2, <1>3 DEF MailAhead
<1>7. SenderOrder
  BY <1>1, <1>2 DEF SenderOrder
<1> QED
  BY <1>4, <1>5, <1>6, <1>7 DEF MailInv

(* A chat message goes to the next client: to one that does not have it.   *)
LEMMA DeliverKeeps ==
    ASSUME SeatInv, MailInv, NEW c \in Conns, task[c].at # "start",
           NEW m \in Nat \ {0}, NEW i \in Nat \ {0}, NEW dead,
           Send(c, "chatting", m, clients[room[c]], i, dead), UNCHANGED <<clients, room>>,
           sender' \in Seq(Conns), Len(sender) <= Len(sender'),
           \A k \in Chats : sender'[k] = sender[k],
           \A k \in 1 .. Len(sender') : k \in Chats \/ sender'[k] = c,
           m \in 1 .. Len(sender'), sender'[m] = c,
           \A k \in 1 .. Len(sender') : sender'[k] = c => k <= m,
           \A k \in DOMAIN clients[room[c]] : k >= i => ~ Has(clients[room[c]][k], m)
    PROVE  MailInv'
<1> DEFINE list == clients[room[c]]
           j == Target(c, "chatting", list, i)
           d == list[j]
           t == [at |-> "chatting", msg |-> m, next |-> j + 1,
                 dead |-> IF sock[d] = "open" THEN dead ELSE Append(dead, d)]
<1>1. room[c] \in Rooms /\ list \in Seq(Conns) /\ Unique(list)
  BY RoomKnown DEF SeatInv, SeatLinks
<1>2. /\ j \in DOMAIN list /\ j >= i /\ d \in Conns
      /\ task' = [task EXCEPT ![c] = t]
      /\ got' = got \/ got' = [got EXCEPT ![d] = Append(@, m)]
  <2>1. j \in Nat \ {0} /\ j >= i
    BY DEF Target
  <2>2. /\ j <= Len(list) /\ task' = [task EXCEPT ![c] = t]
        /\ got' = got \/ got' = [got EXCEPT ![d] = Append(@, m)]
    BY DEF Send
  <2>3. j \in DOMAIN list
    BY <1>1, <2>1, <2>2
  <2> HIDE DEF j, t, list
  <2>4. d \in Conns
    BY <1>1, <2>3
  <2> QED
    BY <2>1, <2>2, <2>3, <2>4
<1>3. t.at = "chatting" /\ t.msg = m /\ t.next = j + 1 /\ j \in Nat
  BY <1>1, <1>2
<1> HIDE DEF t, j, d
<1>4. /\ MailTypes /\ MailSent /\ MailAhead /\ SenderOrder
      /\ DOMAIN task = Conns /\ Chats = 1 .. Len(sender) /\ Len(sender) \in Nat
      /\ Len(sender') \in Nat
  BY DEF MailInv, SeatInv, SeatTypes, MailTypes, Chats
<1>5. task'[c] = t /\ \A e \in Conns \ {c} : task'[e] = task[e]
  BY <1>2, <1>4
<1>6. /\ \A k \in Chats : k \in 1 .. Len(sender') /\ k \in Nat
      /\ Chats \subseteq 1 .. Len(sender')
  BY <1>4
<1>7. ~ Has(d, m) /\ got[d] \in Seq(Chats)
  BY <1>1, <1>2, <1>4 DEF d, MailTypes
<1> DEFINE g == got[d]
<1>8. /\ Append(g, m) \in Seq(1 .. Len(sender'))
      /\ DOMAIN Append(g, m) = 1 .. Len(g) + 1 /\ DOMAIN g = 1 .. Len(g) /\ Len(g) \in Nat
      /\ Append(g, m)[Len(g) + 1] = m
      /\ \A n \in DOMAIN g : Append(g, m)[n] = g[n] /\ g[n] \in Chats
  <2>1. g \in Seq(Chats)
    BY <1>7
  <2> HIDE DEF g
  <2>2. g \in Seq(1 .. Len(sender'))
    BY <1>6, <2>1, SeqMonotonic
  <2>3. Append(g, m) \in Seq(1 .. Len(sender'))
    BY <2>2
  <2> QED
    BY <2>1, <2>2, <2>3
<1>9. /\ \A e \in Conns \ {d} : got'[e] = got[e]
      /\ got'[d] = g \/ got'[d] = Append(g, m)
      /\ DOMAIN got' = Conns
  BY <1>2, <1>4 DEF MailTypes
<1>10. MailTypes'
  <2>1. ASSUME NEW e \in Conns PROVE got'[e] \in Seq(1 .. Len(sender'))
    <3>1. CASE got'[e] = got[e]
      <4>1. got[e] \in Seq(Chats)
        BY <1>4 DEF MailTypes
      <4> QED
        BY <1>6, <3>1, <4>1, SeqMonotonic
    <3>2. CASE got'[e] # got[e]
      BY <1>8, <1>9, <3>2
    <3> QED
      BY <3>1, <3>2
  <2>2. got' \in [Conns -> Seq(1 .. Len(sender'))]
    BY <1>2, <1>4, <2>1 DEF MailTypes
  <2> QED
    BY <2>2 DEF MailTypes, Chats
<1>11. \A e \in Conns, n \in Nat :
          (\E y \in DOMAIN got'[e] : got'[e][y] = n) => Has(e, n) \/ (e = d /\ n = m)
  <2>1. ASSUME NEW e \in Conns, NEW n \in Nat, NEW x \in DOMAIN got'[e], got'[e][x] = n,
               got'[e] # got[e]
        PROVE  Has(e, n) \/ (e = d /\ n = m)
    <3>1. e = d /\ got'[e] = Append(g, m)
      BY <1>9, <2>1
    <3>2. x = Len(g) + 1 \/ x \in DOMAIN g
      BY <1>8, <2>1, <3>1
    <3>3. CASE x = Len(g) + 1
      BY <1>8, <2>1, <3>1, <3>3
    <3>4. CASE x \in DOMAIN g
      <4>1. g[x] = n
        BY <1>8, <2>1, <3>1, <3>4
      <4> QED
        BY <3>1, <3>4, <4>1 DEF Has
    <3> QED
      BY <3>2, <3>3, <3>4
  <2> QED
    BY <2>1 DEF Has
<1>12. MailSent'
  <2>1. ASSUME NEW e \in Conns \ {c}, task[e].at = "chatting"
        PROVE  /\ task[e].msg \in 1 .. Len(sender') /\ sender'[task[e].msg] = e
               /\ \A k \in 1 .. Len(sender') : sender'[k] = e => k <= task[e].msg
    BY <1>4, <1>6, <2>1 DEF MailSent
  <2>2. ASSUME NEW e \in Conns, task'[e].at = "start" PROVE got'[e] = <<>>
    <3>1. e # c /\ task[e].at = "start" /\ got[e] = <<>>
      BY <1>3, <1>4, <1>5, <2>2 DEF MailSent
    <3>2. sock[e] = "new" /\ sock[d] \in {"open", "closed"}
      BY <1>1, <1>2, <3>1, MembersKnown DEF SeatInv, SeatLinks, d
    <3> QED
      BY <1>9, <3>1, <3>2
  <2> QED
    BY <1>3, <1>4, <1>5, <2>1, <2>2 DEF MailSent, Chats
<1>13. MailAhead'
  <2>1. ASSUME NEW e \in Conns, task'[e].at = "chatting",
               NEW n \in DOMAIN clients[room[e]], n >= task'[e].next
        PROVE  ~ Has(clients[room[e]][n], task[e].msg)'
    <3> DEFINE x == clients[room[e]][n]
    <3>1. CASE e = c
      <4>1. task'[e].msg = m /\ n \in DOMAIN list /\ n >= j + 1 /\ x = list[n]
        BY <1>3, <1>5, <2>1, <3>1
      <4>2. n \in Nat /\ x \in Conns /\ n >= i
        BY <1>1, <1>2, <1>3, <4>1
      <4>3. ~ Has(x, m)
        BY <4>1, <4>2
      <4>4. x # d
        <5>1. j \in DOMAIN list /\ n # j
          BY <1>2, <1>3, <4>1, <4>2
        <5>2. list[n] # list[j]
          BY <1>1, <4>1, <5>1 DEF Unique
        <5> HIDE DEF x, list
        <5> QED
          BY <4>1, <5>2 DEF d
      <4>5. ~ (\E y \in DOMAIN got'[x] : got'[x][y] = m)
        <5> HIDE DEF x, list
        <5> QED
          BY <1>11, <4>2, <4>3, <4>4
      <4> QED
        BY <3>1, <4>1, <4>5 DEF Has
    <3>2. CASE e # c
      <4>1. task'[e] = task[e] /\ task[e].at = "chatting"
        BY <1>5, <2>1, <3>2
      <4>2. /\ task[e].msg \in Chats /\ sender[task[e].msg] = e /\ ~ Has(x, task[e].msg)
        BY <1>4, <2>1, <4>1 DEF MailSent, MailAhead
      <4>3. task[e].msg # m /\ task[e].msg \in Nat
        BY <1>6, <3>2, <4>2
      <4>4. x \in Conns
        <5>1. clients[room[e]] \in Seq(Conns)
          BY <4>1, RoomKnown
        <5> QED
          BY <2>1, <5>1
      <4>5. ~ (\E y \in DOMAIN got'[x] : got'[x][y] = task[e].msg)
        <5> HIDE DEF x
        <5> QED
          BY <1>11, <4>1, <4>2, <4>3, <4>4
      <4> QED
        BY <4>1, <4>5 DEF Has
    <3> QED
      BY <3>1, <3>2
  <2> QED
    BY <2>1 DEF MailAhead
<1>14. SenderOrder'
  <2>1. ASSUME NEW e \in Conns, NEW a \in DOMAIN got'[e], NEW b \in DOMAIN got'[e],
               a < b, sender'[got'[e][a]] = sender'[got'[e][b]]
        PROVE  got'[e][a] < got'[e][b]
    <3>1. CASE got'[e] = got[e]
      <4>1. got[e] \in Seq(Chats) /\ a \in DOMAIN got[e] /\ b \in DOMAIN got[e]
        BY <1>4, <2>1, <3>1 DEF MailTypes
      <4>2. got[e][a] \in Chats /\ got[e][b] \in Chats
        BY <4>1
      <4>3. sender[got[e][a]] = sender[got[e][b]]
        BY <2>1, <3>1, <4>2
      <4> QED
        BY <1>4, <2>1, <3>1, <4>1, <4>3 DEF SenderOrder
    <3>2. CASE got'[e] # got[e]
      <4>1. e = d /\ got'[e] = Append(g, m)
        BY <1>9, <3>2
      <4>2. a \in 1 .. Len(g) + 1 /\ b \in 1 .. Len(g) + 1 /\ a \in DOMAIN g
        BY <1>8, <2>1, <4>1
      <4>3. got'[e][a] = g[a] /\ g[a] \in Chats /\ g[a] \in Nat
        BY <1>6, <1>8, <4>1, <4>2
      <4>4. CASE b = Len(g) + 1
        <5>1. got'[e][b] = m
          BY <1>8, <4>1, <4>4
        <5>2. sender'[g[a]] = c
          BY <2>1, <4>3, <5>1
        <5>3. g[a] <= m
          BY <1>6, <4>3, <5>2
        <5>4. g[a] # m
          BY <1>7, <4>2 DEF Has
        <5> QED
          BY <4>3, <5>1, <5>3, <5>4
      <4>5. CASE b # Len(g) + 1
        <5>1. b \in DOMAIN g
          BY <1>8, <4>2, <4>5
        <5>2. got'[e][b] = g[b] /\ g[b] \in Chats
          BY <1>8, <4>1, <5>1
        <5>3. sender[g[a]] = sender[g[b]]
          BY <2>1, <4>3, <5>2
        <5> QED
          BY <1>2, <1>4, <2>1, <4>2, <4>3, <5>1, <5>2, <5>3 DEF SenderOrder
      <4> QED
        BY <4>4, <4>5
    <3> QED
      BY <3>1, <3>2
  <2> QED
    BY <2>1 DEF SenderOrder
<1> QED
  BY <1>10, <1>12, <1>13, <1>14 DEF MailInv

(* A step of c's handler that delivers no chat message.                    *)
Quiet(c) ==
    /\ sender' = sender
    /\ got' = got \/ got' = [got EXCEPT ![c] = <<>>]
    /\ \E t \in TaskState : /\ task' = [task EXCEPT ![c] = t]
                            /\ t.at \notin {"start", "chatting"} /\ t.msg = 0

LEMMA QuietKeeps ==
    ASSUME SeatInv, MailInv, NEW c \in Conns, Quiet(c),
           \A e \in Conns \ {c} : room'[e] = room[e],
           \A e \in Conns \ {c} : task[e].at = "chatting" =>
              \A i \in DOMAIN clients'[room[e]] :
                 LET d == clients'[room[e]][i] IN
                 /\ i \in Nat /\ d \in Conns
                 /\ \/ got[d] = <<>>
                    \/ \E j \in DOMAIN clients[room[e]] :
                          j \in Nat /\ i <= j /\ clients[room[e]][j] = d
    PROVE  MailInv'
<1>1. PICK t \in TaskState :
         task' = [task EXCEPT ![c] = t] /\ t.at \notin {"start", "chatting"} /\ t.msg = 0
  BY DEF Quiet
<1>2. sender' = sender /\ (got' = got \/ got' = [got EXCEPT ![c] = <<>>])
  BY DEF Quiet
<1>3. MailTypes /\ MailSent /\ MailAhead /\ SenderOrder /\ task \in [Conns -> TaskState]
  BY DEF MailInv, SeatInv, SeatTypes
<1>4. task'[c] = t /\ \A e \in Conns \ {c} : task'[e] = task[e]
  BY <1>1, <1>3
<1> DEFINE none == <<>>
<1>5. none \in Seq(Chats) /\ DOMAIN none = {}
  OBVIOUS
<1>6. got' \in [Conns -> Seq(Chats)] /\ \A e \in Conns : got'[e] = got[e] \/ got'[e] = none
  <2>1. got' = got \/ got' = [got EXCEPT ![c] = none]
    BY <1>2
  <2>2. got \in [Conns -> Seq(Chats)]
    BY <1>3 DEF MailTypes
  <2> HIDE DEF none
  <2>3. CASE got' = got
    BY <2>2, <2>3
  <2>4. CASE got' = [got EXCEPT ![c] = none]
    BY <1>5, <2>2, <2>4
  <2> QED
    BY <2>1, <2>3, <2>4
<1>7. MailTypes'
  BY <1>2, <1>3, <1>6 DEF MailTypes, Chats
<1>8. MailSent'
  <2>1. ASSUME NEW e \in Conns, task'[e].at = "start" PROVE got'[e] = <<>>
    BY <1>1, <1>3, <1>4, <1>6, <2>1 DEF MailSent
  <2> QED
    BY <1>1, <1>2, <1>3, <1>4, <2>1 DEF MailSent, Chats
<1>9. MailAhead'
  <2>1. ASSUME NEW e \in Conns, task'[e].at = "chatting",
               NEW i \in DOMAIN clients'[room'[e]], i >= task'[e].next,
               NEW n \in DOMAIN got'[clients'[room'[e]][i]],
               got'[clients'[room'[e]][i]][n] = task'[e].msg
        PROVE  FALSE
    <3>1. e # c /\ task'[e] = task[e] /\ room'[e] = room[e]
      BY <1>1, <1>4, <2>1
    <3> DEFINE d == clients'[room[e]][i]
    <3>2. /\ i \in Nat /\ d \in Conns
          /\ \/ got[d] = <<>>
             \/ \E j \in DOMAIN clients[room[e]] :
                   j \in Nat /\ i <= j /\ clients[room[e]][j] = d
      BY <2>1, <3>1
    <3>3. got'[d] = got[d] /\ got[d] # <<>> /\ Has(d, task[e].msg)
      <4>1. n \in DOMAIN got'[d] /\ got'[d][n] = task[e].msg
        BY <2>1, <3>1
      <4> HIDE DEF d, none
      <4>2. got'[d] # none
        BY <1>5, <4>1
      <4>3. got'[d] = got[d]
        BY <1>6, <3>2, <4>2
      <4> QED
        BY <4>1, <4>2, <4>3 DEF Has, none
    <3>4. PICK j \in DOMAIN clients[room[e]] :
             j \in Nat /\ i <= j /\ clients[room[e]][j] = d
      BY <3>2, <3>3
    <3>5. j >= task[e].next /\ task[e].at = "chatting"
      BY <1>3, <2>1, <3>1, <3>2, <3>4 DEF TaskState
    <3>6. ~ Has(clients[room[e]][j], task[e].msg)
      BY <1>3, <3>4, <3>5 DEF MailAhead
    <3> QED
      BY <3>3, <3>4, <3>6
  <2> QED
    BY <2>1 DEF MailAhead, Has
<1>10. SenderOrder'
  <2>1. ASSUME NEW e \in Conns
        PROVE  \A i, j \in DOMAIN got'[e] :
                  i < j /\ sender[got'[e][i]] = sender[got'[e][j]] => got'[e][i] < got'[e][j]
    <3> HIDE DEF none
    <3>1. CASE got'[e] = got[e]
      BY <1>3, <3>1 DEF SenderOrder
    <3>2. CASE got'[e] = none
      BY <1>5, <3>2
    <3> QED
      BY <1>6, <3>1, <3>2
  <2> QED
    BY <1>2, <2>1 DEF SenderOrder
<1> QED
  BY <1>7, <1>8, <1>9, <1>10 DEF MailInv

(* Lists only get shorter while handlers run, and nobody moves back.       *)
LEMMA ListsThin ==
    ASSUME SeatInv, NEW c \in Conns, Handles(c), NEW q \in Rooms, NEW i \in DOMAIN clients'[q]
    PROVE  /\ i \in Nat /\ clients'[q][i] \in Conns
           /\ \E j \in DOMAIN clients[q] : j \in Nat /\ i <= j /\ clients[q][j] = clients'[q][i]
<1> DEFINE list == clients[q]
<1>1. list \in Seq(Conns) /\ Unique(list) /\ DOMAIN clients = Rooms
  BY DEF SeatInv, SeatTypes, SeatLinks
<1>2. \A j \in DOMAIN list : j \in Nat /\ list[j] \in Conns
  BY <1>1
<1>3. PICK gone : clients' = clients
                  \/ clients' = [clients EXCEPT ![room[c]] = Keep(@, Conns \ gone)]
  BY DEF Handles, Unseats
<1>4. CASE clients'[q] = list
  BY <1>2, <1>4
<1>5. CASE clients'[q] = Keep(list, Conns \ gone)
  <2> DEFINE k == Keep(list, Conns \ gone)
  <2>1. ASSUME NEW S, NEW l, l = Keep(list, S)
        PROVE  /\ l \in Seq(Conns)
               /\ \A n \in DOMAIN l : \E j \in DOMAIN list : n <= j /\ list[j] = l[n]
    <3> HIDE DEF list
    <3> QED
      BY <1>1, <2>1, KeepSeats
  <2>2. k \in Seq(Conns) /\ \A n \in DOMAIN k : \E j \in DOMAIN list : n <= j /\ list[j] = k[n]
    BY <2>1
  <2> HIDE DEF k, list
  <2>3. i \in DOMAIN k /\ clients'[q] = k
    BY <1>5 DEF k
  <2>4. i \in Nat /\ k[i] \in Conns
    BY <2>2, <2>3
  <2> QED
    BY <1>2, <2>2, <2>3, <2>4 DEF list
<1> QED
  BY <1>1, <1>3, <1>4, <1>5

LEMMA QuietHandles ==
    ASSUME SeatInv, MailInv, NEW c \in Conns, Handles(c), Quiet(c) PROVE MailInv'
<1>1. room' = room
  BY DEF Handles
<1>2. ASSUME NEW e \in Conns \ {c}, task[e].at = "chatting",
             NEW i \in DOMAIN clients'[room[e]]
      PROVE  /\ i \in Nat /\ clients'[room[e]][i] \in Conns
             /\ \E j \in DOMAIN clients[room[e]] :
                   j \in Nat /\ i <= j /\ clients[room[e]][j] = clients'[room[e]][i]
  <2>1. room[e] \in Rooms
    BY <1>2, RoomKnown
  <2> QED
    BY <2>1, ListsThin
<1> QED
  BY <1>1, <1>2, QuietKeeps

(* Which steps are quiet.                                                  *)
LEMMA SaysQuiet ==
    ASSUME SeatInv, NEW c \in Conns, Handles(c), sender' = sender,
           NEW kind \in {"joining", "leaving"}, NEW list, NEW i, NEW dead,
           Send(c, kind, 0, list, i, dead)
    PROVE  Quiet(c)
<1>1. PICK t \in TaskState : task' = [task EXCEPT ![c] = t]
  BY DEF Handles
<1>2. DOMAIN task = Conns
  BY DEF SeatInv, SeatTypes
<1>3. got' = got /\ \E now, nxt :
         task' = [task EXCEPT ![c] = [at |-> kind, msg |-> 0, next |-> nxt, dead |-> now]]
  BY DEF Send
<1>4. t.at = kind /\ t.msg = 0
  BY <1>1, <1>2, <1>3
<1> QED
  BY <1>1, <1>3, <1>4 DEF Quiet

LEMMA RestsQuiet ==
    ASSUME NEW c \in Conns, sender' = sender,
           got' = got \/ got' = [got EXCEPT ![c] = <<>>],
           NEW at \in {"listening", "done", "failed"}, task' = [task EXCEPT ![c] = At(at)]
    PROVE  Quiet(c)
<1>1. At(at) \in TaskState /\ At(at).at = at /\ At(at).msg = 0
  BY Places0 DEF Places
<1> QED
  BY <1>1 DEF Quiet

LEMMA LeaveQuiet ==
    ASSUME SeatInv, NEW c \in Conns, Handles(c), sender' = sender,
           NEW before, Leave(c, before)
    PROVE  Quiet(c)
<1> DEFINE list == Keep(before, Conns \ {c})
<1>1. Send(c, "leaving", 0, list, 1, <<>>) \/ Finish(c, "done")
  BY DEF Leave
<1>2. CASE Send(c, "leaving", 0, list, 1, <<>>)
  BY <1>2, SaysQuiet
<1>3. CASE Finish(c, "done")
  BY <1>3, RestsQuiet DEF Finish
<1> QED
  BY <1>1, <1>2, <1>3

LEMMA JoinEndsQuiet ==
    ASSUME NEW c \in Conns, sender' = sender, NEW dead, JoinEnds(c, dead)
    PROVE  Quiet(c)
<1>1. CASE Finish(c, "failed")
  BY <1>1, RestsQuiet DEF Finish
<1>2. CASE task' = [task EXCEPT ![c] = At("listening")] /\ UNCHANGED <<sock, got>>
  BY <1>2, RestsQuiet
<1> QED
  BY <1>1, <1>2 DEF JoinEnds

(* A chat message that is for nobody.                                      *)
LEMMA ChatAlone ==
    ASSUME SeatInv, MailInv, NEW c \in Conns, task[c].at = "listening",
           sender' = Append(sender, c), UNCHANGED <<clients, room, task, got>>
    PROVE  MailInv'
<1>1. /\ sender \in Seq(Conns) /\ Len(sender') = Len(sender) + 1 /\ Len(sender) \in Nat
      /\ sender' \in Seq(Conns) /\ sender'[Len(sender) + 1] = c
      /\ \A k \in 1 .. Len(sender) : sender'[k] = sender[k]
  BY DEF MailInv, MailTypes
<1>2. Chats \subseteq 1 .. Len(sender') /\ Chats = 1 .. Len(sender)
  BY <1>1 DEF Chats
<1>3. MailTypes'
  <2>1. \A e \in Conns : got[e] \in Seq(1 .. Len(sender'))
    BY <1>2, SeqMonotonic DEF MailInv, MailTypes
  <2> QED
    BY <1>1, <2>1 DEF MailInv, MailTypes, Chats
<1>4. MailSent'
  <2>1. ASSUME NEW e \in Conns, task[e].at = "chatting"
        PROVE  /\ task[e].msg \in 1 .. Len(sender') /\ sender'[task[e].msg] = e
               /\ \A k \in 1 .. Len(sender') : sender'[k] = e => k <= task[e].msg
    <3>1. /\ task[e].msg \in Chats /\ sender[task[e].msg] = e
          /\ \A k \in Chats : sender[k] = e => k <= task[e].msg
      BY <2>1 DEF MailInv, MailSent
    <3>2. e # c
      BY <2>1
    <3> QED
      BY <1>1, <1>2, <3>1, <3>2
  <2> QED
    BY <2>1 DEF MailInv, MailSent, Chats
<1>5. MailAhead'
  BY DEF MailInv, MailAhead, Has
<1>6. SenderOrder'
  <2>1. ASSUME NEW e \in Conns, NEW i \in DOMAIN got[e], NEW j \in DOMAIN got[e],
               i < j, sender'[got[e][i]] = sender'[got[e][j]]
        PROVE  got[e][i] < got[e][j]
    <3>1. got[e] \in Seq(Chats)
      BY DEF MailInv, MailTypes
    <3>2. got[e][i] \in Chats /\ got[e][j] \in Chats
      BY <3>1
    <3>3. sender[got[e][i]] = sender[got[e][j]]
      BY <1>1, <1>2, <2>1, <3>2
    <3> QED
      BY <2>1, <3>3 DEF MailInv, SenderOrder
  <2> QED
    BY <2>1 DEF SenderOrder
<1> QED
  BY <1>3, <1>4, <1>5, <1>6 DEF MailInv

LEMMA ChatMails ==
    ASSUME SeatInv, MailInv, NEW c \in Conns, Chat(c) PROVE MailInv'
<1> DEFINE m == Len(sender) + 1
           list == clients[room[c]]
<1>1. /\ task[c].at = "listening" /\ sender' = Append(sender, c)
      /\ UNCHANGED <<clients, room>>
      /\ Send(c, "chatting", m, list, 1, <<>>) \/ UNCHANGED <<task, got>>
  BY DEF Chat
<1>2. CASE UNCHANGED <<task, got>>
  BY <1>1, <1>2, ChatAlone
<1>3. CASE Send(c, "chatting", m, list, 1, <<>>)
  <2>1. /\ sender \in Seq(Conns) /\ Len(sender') = Len(sender) + 1 /\ Len(sender) \in Nat
        /\ sender' \in Seq(Conns) /\ sender'[Len(sender) + 1] = c
        /\ \A k \in 1 .. Len(sender) : sender'[k] = sender[k]
    BY <1>1 DEF MailInv, MailTypes
  <2>2. Chats = 1 .. Len(sender)
    BY DEF Chats
  <2>3. \A d \in Conns : ~ Has(d, m)
    <3>1. ASSUME NEW d \in Conns, NEW n \in DOMAIN got[d], got[d][n] = m PROVE FALSE
      <4>1. got[d] \in Seq(Chats)
        BY DEF MailInv, MailTypes
      <4>2. got[d][n] \in Chats
        BY <4>1
      <4> QED
        BY <2>1, <2>2, <3>1, <4>2
    <3> QED
      BY <3>1 DEF Has
  <2>4. \A k \in DOMAIN list : list[k] \in Conns
    <3>1. list \in Seq(Conns)
      BY <1>1, RoomKnown
    <3> HIDE DEF list
    <3> QED
      BY <3>1
  <2>5. /\ m \in Nat \ {0} /\ 1 \in Nat \ {0} /\ m \in 1 .. Len(sender') /\ sender'[m] = c
        /\ \A k \in 1 .. Len(sender') : k \in Chats \/ sender'[k] = c
        /\ \A k \in 1 .. Len(sender') : sender'[k] = c => k <= m
        /\ \A k \in Chats : sender'[k] = sender[k]
        /\ Len(sender) <= Len(sender') /\ task[c].at # "start"
    BY <1>1, <2>1, <2>2
  <2>6. \A k \in DOMAIN list : k >= 1 => ~ Has(list[k], m)
    BY <2>3, <2>4
  <2> HIDE DEF m
  <2> QED
    BY <1>1, <1>3, <2>1, <2>5, <2>6, DeliverKeeps
<1> QED
  BY <1>1, <1>2, <1>3

LEMMA ResumeMails ==
    ASSUME SeatInv, MailInv, NEW c \in Conns, Resume(c) PROVE MailInv'
<1> DEFINE t == task[c]
           list == clients[room[c]]
<1>1. /\ t.at \in Casting /\ UNCHANGED <<room, sender>>
      /\ \/ Send(c, t.at, t.msg, list, t.next, t.dead) /\ UNCHANGED clients
         \/ t.at = "joining" /\ JoinEnds(c, t.dead)
         \/ t.at = "chatting" /\ ChatEnds(c, t.dead)
         \/ t.at = "leaving" /\ LeaveEnds(c, t.dead)
  BY DEF Resume
<1>2. Handles(c)
  BY ResumeHandles
<1>3. CASE t.at = "chatting" /\ Send(c, t.at, t.msg, list, t.next, t.dead) /\ UNCHANGED clients
  <2> DEFINE m == t.msg
  <2>1. /\ m \in Chats /\ sender[m] = c /\ \A k \in Chats : sender[k] = c => k <= m
        /\ sender \in Seq(Conns) /\ Chats = 1 .. Len(sender) /\ t.next \in Nat \ {0}
        /\ \A k \in DOMAIN list : k >= t.next => ~ Has(list[k], m)
        /\ t.at # "start" /\ sender' = sender
    BY <1>1, <1>3 DEF MailInv, MailTypes, MailSent, MailAhead, Chats, SeatInv, SeatTypes, TaskState
  <2>2. m \in Nat \ {0} /\ m \in 1 .. Len(sender') /\ Len(sender) <= Len(sender')
    BY <2>1
  <2>3. Send(c, "chatting", m, list, t.next, t.dead)
    BY <1>3
  <2> QED
    BY <1>1, <1>3, <2>1, <2>2, <2>3, DeliverKeeps
<1>4. CASE t.at # "chatting" /\ Send(c, t.at, t.msg, list, t.next, t.dead)
  <2>1. t.msg = 0 /\ t.at \in {"joining", "leaving"}
    BY <1>1, <1>4 DEF MailInv, MailSent, Casting
  <2>2. Send(c, t.at, 0, list, t.next, t.dead)
    BY <1>4, <2>1
  <2>3. Quiet(c)
    BY <1>1, <1>2, <2>1, <2>2, SaysQuiet
  <2> QED
    BY <1>2, <2>3, QuietHandles
<1>5. CASE JoinEnds(c, t.dead)
  BY <1>1, <1>2, <1>5, JoinEndsQuiet, QuietHandles
<1>6. CASE ChatEnds(c, t.dead)
  <2>1. \/ Leave(c, Clean(list, t.dead))
        \/ task' = [task EXCEPT ![c] = At("listening")] /\ got' = got
    BY <1>6 DEF ChatEnds
  <2>2. Quiet(c)
    BY <1>1, <1>2, <2>1, LeaveQuiet, RestsQuiet
  <2> QED
    BY <1>2, <2>2, QuietHandles
<1>7. CASE LeaveEnds(c, t.dead)
  <2>1. task' = [task EXCEPT ![c] = At("done")] /\ got' = [got EXCEPT ![c] = <<>>]
    BY <1>7 DEF LeaveEnds, Finish
  <2>2. Quiet(c)
    BY <1>1, <2>1, RestsQuiet
  <2> QED
    BY <1>2, <2>2, QuietHandles
<1> QED
  BY <1>1, <1>3, <1>4, <1>5, <1>6, <1>7

LEMMA ConnectMails ==
    ASSUME SeatInv, MailInv, NEW c \in Conns, Connect(c) PROVE MailInv'
<1> DEFINE r == IF registered = 0 THEN created + 1 ELSE registered
           at == IF history[r] = <<>> THEN "listening" ELSE "history"
<1>1. /\ sock[c] = "new" /\ room' = [room EXCEPT ![c] = r]
      /\ clients' = [clients EXCEPT ![r] = Append(@, c)]
      /\ task' = [task EXCEPT ![c] = At(at)] /\ sender' = sender /\ got' = got
  BY DEF Connect, Seat
<1>2. at \in Places /\ at \notin {"start", "chatting"}
  BY DEF Places
<1> HIDE DEF r, at
<1>3. Quiet(c)
  <2>1. At(at) \in TaskState /\ At(at).at = at /\ At(at).msg = 0
    BY <1>2, Places0
  <2> QED
    BY <1>1, <1>2, <2>1 DEF Quiet
<1>4. got[c] = <<>> /\ DOMAIN room = Conns /\ DOMAIN clients = Rooms
  BY <1>1 DEF SeatInv, SeatTypes, SeatLinks, MailInv, MailSent
<1>5. ASSUME NEW e \in Conns, task[e].at = "chatting", NEW i \in DOMAIN clients'[room[e]]
      PROVE  /\ i \in Nat /\ clients'[room[e]][i] \in Conns
             /\ \/ got[clients'[room[e]][i]] = <<>>
                \/ \E j \in DOMAIN clients[room[e]] :
                      j \in Nat /\ i <= j /\ clients[room[e]][j] = clients'[room[e]][i]
  <2> DEFINE list == clients[room[e]]
             more == Append(list, c)
  <2>1. list \in Seq(Conns) /\ room[e] \in Rooms
    BY <1>5, RoomKnown
  <2>2. clients'[room[e]] = list \/ clients'[room[e]] = more
    BY <1>1, <1>4, <2>1
  <2> HIDE DEF list
  <2>3. /\ \A n \in DOMAIN list : n \in Nat /\ list[n] \in Conns
        /\ \A n \in DOMAIN more : /\ n \in Nat
                                  /\ more[n] = c \/ (n \in DOMAIN list /\ more[n] = list[n])
    BY <2>1
  <2> HIDE DEF more
  <2>4. CASE clients'[room[e]] = list
    BY <1>5, <2>3, <2>4 DEF list
  <2>5. CASE clients'[room[e]] = more
    <3>1. i \in DOMAIN more
      BY <1>5, <2>5
    <3>2. CASE more[i] = c
      BY <1>4, <2>3, <2>5, <3>1, <3>2
    <3>3. CASE i \in DOMAIN list /\ more[i] = list[i]
      <4>1. i \in Nat /\ list[i] \in Conns /\ i <= i
        BY <2>3, <3>3
      <4> QED
        BY <2>5, <3>3, <4>1 DEF list
    <3> QED
      BY <2>3, <3>1, <3>2, <3>3
  <2> QED
    BY <2>2, <2>4, <2>5
<1>6. \A e \in Conns \ {c} : room'[e] = room[e]
  BY <1>1, <1>4
<1> QED
  BY <1>3, <1>5, <1>6, QuietKeeps

LEMMA MailStep ==
    ASSUME SeatInv, MailInv, [Next]_vars PROVE MailInv'
<1>1. ASSUME NEW c \in Conns, Connect(c) PROVE MailInv'
  BY <1>1, ConnectMails
<1>2. ASSUME NEW c \in Conns, Join(c) PROVE MailInv'
  <2>1. Handles(c) /\ sender' = sender
    BY <1>2, JoinHandles DEF Join
  <2>2. Send(c, "joining", 0, clients[room[c]], 1, <<>>) \/ JoinEnds(c, <<>>)
    BY <1>2 DEF Join
  <2>3. Quiet(c)
    BY <2>1, <2>2, SaysQuiet, JoinEndsQuiet
  <2> QED
    BY <2>1, <2>3, QuietHandles
<1>3. ASSUME NEW c \in Conns, JoinFails(c) PROVE MailInv'
  <2>1. Handles(c)
    BY <1>3, JoinFailsHandles
  <2>2. Quiet(c)
    BY <1>3, RestsQuiet DEF JoinFails, Finish
  <2> QED
    BY <2>1, <2>2, QuietHandles
<1>4. ASSUME NEW c \in Conns, Chat(c) PROVE MailInv'
  BY <1>4, ChatMails
<1>5. ASSUME NEW c \in Conns, Resume(c) PROVE MailInv'
  BY <1>5, ResumeMails
<1>6. ASSUME NEW c \in Conns, HangUp(c) PROVE MailInv'
  <2>1. Handles(c) /\ sender' = sender
    BY <1>6, HangUpHandles DEF HangUp
  <2>2. Quiet(c)
    BY <1>6, <2>1, LeaveQuiet DEF HangUp
  <2> QED
    BY <2>1, <2>2, QuietHandles
<1>7. CASE UNCHANGED <<sender, got, task, clients, room>>
  BY <1>7 DEF MailInv, MailTypes, MailSent, MailAhead, SenderOrder, Has, Chats
<1>8. ASSUME NEW c \in Conns, Disconnect(c) PROVE MailInv'
  BY <1>7, <1>8 DEF Disconnect, ghosts
<1> QED
  BY <1>1, <1>2, <1>3, <1>4, <1>5, <1>6, <1>7, <1>8 DEF Next, vars, ghosts

(* The messages of one sender reach everyone in the order it sent them,    *)
(* and at most once, while others join, leave and are cleaned out of the   *)
(* list that its broadcast walks (_broadcast of chat_room.py).             *)
THEOREM SendersInOrder == Spec => []SenderOrder
<1>1. Init => SeatInv /\ MailInv
  BY ChatAssumption, SeatStart, MailStart
<1>2. (SeatInv /\ MailInv) /\ [Next]_vars => (SeatInv /\ MailInv)'
  BY ChatAssumption, SeatStep, MailStep
<1>3. SeatInv /\ MailInv => SenderOrder
  BY DEF MailInv
<1> QED
  BY <1>1, <1>2, <1>3, PTL DEF Spec

-----------------------------------------------------------------------------
(***************************************************************************)
(* Gaps: whatever a room's history holds, everybody inside the room found  *)
(* it there, has it, or is going to get it, unless somebody left the list  *)
(* in its broadcast.                                                       *)
(***************************************************************************)
Recorded(r, m) == \E n \in DOMAIN history[r] : history[r][n] = m
Due(s, d) == \E i \in DOMAIN clients[room[d]] :
                i >= task[s].next /\ clients[room[d]][i] = d
Coming(d, m) == \E s \in Conns : task[s].at = "chatting" /\ task[s].msg = m /\ Due(s, d)

GapTypes ==
    /\ history \in [Rooms -> Seq({0} \cup Chats)]
    /\ \A r \in Rooms : Len(history[r]) <= MaxHistory
    /\ caught \in [Conns -> SUBSET Chats]
    /\ shrunk \in SUBSET ({0} \cup Chats)

OwnRoom ==
    \A r \in Rooms, m \in Chats : Recorded(r, m) => room[sender[m]] = r

Covered ==
    \A d \in Conns, m \in Chats :
        Inside(d) /\ Recorded(room[d], m) /\ sender[m] # d =>
           m \in caught[d] \/ Has(d, m) \/ Coming(d, m) \/ m \in shrunk

GapInv == GapTypes /\ OwnRoom /\ Covered

LEMMA GapStart == ASSUME ChatAssumption, Init PROVE GapInv
<1> DEFINE none == <<>>
<1>1. \A S : none \in Seq(S) /\ DOMAIN none = {} /\ Len(none) = 0
  OBVIOUS
<1>2. /\ history = [r \in Rooms |-> none] /\ caught = [c \in Conns |-> {}] /\ shrunk = {}
      /\ task = [c \in Conns |-> At("start")]
  BY DEF Init
<1>3. At("start").at = "start"
  BY Places0 DEF Places
<1> HIDE DEF none
<1>4. GapTypes
  BY <1>1, <1>2 DEF GapTypes, ChatAssumption
<1>5. OwnRoom
  BY <1>1, <1>2 DEF OwnRoom, Recorded
<1>6. Covered
  BY <1>2, <1>3 DEF Covered, Inside, Joined
<1> QED
  BY <1>4, <1>5, <1>6 DEF GapInv

(* The history after one more entry: the entry, and nothing that was not   *)
(* there.                                                                  *)
LEMMA Records ==
    ASSUME ChatAssumption, NEW T, history \in [Rooms -> Seq(T)],
           \A q \in Rooms : Len(history[q]) <= MaxHistory,
           NEW r \in Rooms, NEW m \in T, Record(r, m)
    PROVE  /\ history' \in [Rooms -> Seq(T)]
           /\ \A q \in Rooms : Len(history'[q]) <= MaxHistory
           /\ \A q \in Rooms : \A n \in DOMAIN history'[q] :
                 \/ \E k \in DOMAIN history[q] : history[q][k] = history'[q][n]
                 \/ q = r /\ history'[q][n] = m
<1> DEFINE old == history[r]
           h == Append(old, m)
           over == IF Len(h) > MaxHistory THEN Len(h) - MaxHistory ELSE 0
           new == SubSeq(h, over + 1, Len(h))
<1>1. old \in Seq(T) /\ Len(old) \in Nat /\ MaxHistory \in Nat \ {0}
  BY DEF ChatAssumption
<1>2. history' = [history EXCEPT ![r] = new]
  BY DEF Record
<1> HIDE DEF old
<1>3. /\ h \in Seq(T) /\ Len(h) = Len(old) + 1 /\ h[Len(old) + 1] = m
      /\ \A k \in 1 .. Len(old) : h[k] = old[k]
      /\ DOMAIN old = 1 .. Len(old)
  BY <1>1
<1> HIDE DEF h
<1>4. over \in Nat /\ over < Len(h) /\ Len(h) - over <= MaxHistory /\ Len(h) \in Nat
  BY <1>1, <1>3
<1> HIDE DEF over
<1>5. \A i \in over + 1 .. Len(h) : h[i] \in T
  BY <1>3, <1>4
<1>6. new \in Seq(T)
  BY <1>4, <1>5, SubSeqProperties
<1>7. Len(new) = Len(h) - over
  <2>1. Len(new) = IF over + 1 <= Len(h) THEN Len(h) - (over + 1) + 1 ELSE 0
    BY <1>4, <1>5, SubSeqProperties
  <2> HIDE DEF new
  <2> QED
    BY <1>4, <2>1
<1>8. \A i \in 1 .. Len(h) - (over + 1) + 1 : new[i] = h[over + 1 + i - 1]
  BY <1>4, <1>5, SubSeqProperties
<1> HIDE DEF new
<1>9. \A n \in DOMAIN new : (\E k \in DOMAIN old : old[k] = new[n]) \/ new[n] = m
  <2> SUFFICES ASSUME NEW n \in DOMAIN new
               PROVE  (\E k \in DOMAIN old : old[k] = new[n]) \/ new[n] = m
    OBVIOUS
  <2>1. n \in 1 .. Len(h) - over
    BY <1>6, <1>7
  <2>2. n \in 1 .. Len(h) - (over + 1) + 1 /\ over + 1 + n - 1 = over + n
        /\ over + n \in 1 .. Len(old) + 1
    BY <1>3, <1>4, <2>1
  <2>3. new[n] = h[over + n]
    BY <1>8, <2>2
  <2> QED
    BY <1>1, <1>3, <2>2, <2>3
<1>10. history'[r] = new /\ \A q \in Rooms \ {r} : history'[q] = history[q]
  BY <1>2
<1>11. history' \in [Rooms -> Seq(T)]
  BY <1>2, <1>6
<1>12. Len(new) <= MaxHistory
  BY <1>4, <1>7
<1> QED
  BY <1>9, <1>10, <1>11, <1>12 DEF old

(* No broadcast ends while somebody else is behind the place it has come   *)
(* to, ...                                                                 *)
LEMMA NotOver ==
    ASSUME SeatInv, NEW c \in Conns, task[c].at # "start", NEW i \in Nat \ {0},
           NEW k \in DOMAIN clients[room[c]], k >= i, clients[room[c]][k] # c
    PROVE  ~ NoneLeft(c, "chatting", clients[room[c]], i)
<1> DEFINE list == clients[room[c]]
           j == Target(c, "chatting", list, i)
<1>1. list \in Seq(Conns) /\ DOMAIN list = 1 .. Len(list) /\ Len(list) \in Nat
  BY RoomKnown
<1>2. j \in Nat /\ j <= k /\ k \in Nat /\ k <= Len(list)
  BY <1>1 DEF Target
<1>3. ~ (j > Len(list))
  <2> HIDE DEF j, list
  <2> QED
    BY <1>1, <1>2
<1> QED
  BY <1>3 DEF NoneLeft

(* ... and its next send reaches him, or leaves him behind its new place.  *)
LEMMA Reaches ==
    ASSUME SeatInv, NEW c \in Conns, task[c].at # "start",
           NEW m \in Nat \ {0}, NEW i \in Nat \ {0}, NEW dead,
           NEW d \in Conns, d # c, sock[d] = "open", got[d] \in Seq(Nat), DOMAIN got = Conns,
           NEW k \in DOMAIN clients[room[c]], k >= i, clients[room[c]][k] = d
    PROVE  Send(c, "chatting", m, clients[room[c]], i, dead) =>
              \/ Has(d, m)'
              \/ /\ task'[c].at = "chatting" /\ task'[c].msg = m
                 /\ k >= task'[c].next
<1> DEFINE list == clients[room[c]]
           j == Target(c, "chatting", list, i)
<1>1. list \in Seq(Conns) /\ DOMAIN list = 1 .. Len(list) /\ Len(list) \in Nat
      /\ DOMAIN task = Conns
  BY RoomKnown DEF SeatInv, SeatTypes
<1>2. j \in Nat /\ j <= k /\ k \in Nat /\ k <= Len(list)
  BY <1>1 DEF Target
<1>3. ASSUME Send(c, "chatting", m, list, i, dead)
      PROVE  \/ Has(d, m)'
             \/ /\ task'[c].at = "chatting" /\ task'[c].msg = m
                /\ k >= task'[c].next
  <2>1. task'[c].at = "chatting" /\ task'[c].msg = m /\ task'[c].next = j + 1
    BY <1>1, <1>3 DEF Send
  <2>2. CASE j < k
    BY <1>2, <2>1, <2>2
  <2>3. CASE j = k
    <3>1. list[j] = d
      BY <2>3
    <3>2. got' = [got EXCEPT ![d] = Append(@, m)]
      <4> HIDE DEF j, list
      <4> QED
        BY <1>3, <3>1 DEF Send, j, list
    <3>3. got'[d] = Append(got[d], m)
      BY <3>2
    <3>4. Len(got[d]) + 1 \in DOMAIN Append(got[d], m)
          /\ Append(got[d], m)[Len(got[d]) + 1] = m
      OBVIOUS
    <3> QED
      BY <3>3, <3>4 DEF Has
  <2> QED
    BY <1>2, <2>2, <2>3
<1> QED
  BY <1>3

(* What the steps of c's handler do to the lists, as the broadcasts of the *)
(* others see it.                                                          *)
Frame(c) ==
    /\ UNCHANGED <<room, caught>>
    /\ \/ UNCHANGED <<clients, shrunk>>
       \/ \E S : SetClients(room[c], Keep(clients[room[c]], S))

LEMMA ShrunkGrows ==
    ASSUME SeatInv, MailInv, GapInv, NEW c \in Conns, Frame(c)
    PROVE  shrunk \subseteq shrunk' /\ shrunk' \in SUBSET ({0} \cup Chats)
<1>1. shrunk \in SUBSET ({0} \cup Chats)
  BY DEF GapInv, GapTypes
<1>2. \A s \in Conns : task[s].at = "chatting" => task[s].msg \in Chats
  BY DEF MailInv, MailSent
<1>3. CASE shrunk' = shrunk
  BY <1>1, <1>3
<1>4. CASE shrunk' = shrunk \cup {task[s].msg : s \in
                        {s \in Conns : task[s].at = "chatting" /\ room[s] = room[c]}}
  BY <1>1, <1>2, <1>4
<1> QED
  BY <1>3, <1>4 DEF Frame, SetClients

LEMMA StaysDue ==
    ASSUME SeatInv, MailInv, GapInv, NEW c \in Conns, Frame(c),
           task[c].at # "start",
           NEW s \in Conns, task[s].at = "chatting", task'[s] = task[s],
           NEW d \in Conns, Recorded(room[d], task[s].msg), room[d] \in Rooms, Due(s, d)
    PROVE  Due(s, d)' \/ task[s].msg \in shrunk'
<1> DEFINE m == task[s].msg
<1>1. m \in Chats /\ sender[m] = s /\ room[s] = room[d]
  BY DEF MailInv, MailSent, GapInv, OwnRoom
<1>2. room' = room
  BY DEF Frame
<1>3. CASE clients'[room[d]] = clients[room[d]]
  BY <1>2, <1>3 DEF Due
<1>4. CASE clients'[room[d]] # clients[room[d]]
  <2> DEFINE list == clients[room[c]]
  <2>1. PICK S : SetClients(room[c], Keep(list, S))
    BY <1>4 DEF Frame
  <2> DEFINE k == Keep(list, S)
  <2>2. /\ clients' = [clients EXCEPT ![room[c]] = k]
        /\ shrunk' = IF Len(k) >= Len(list) THEN shrunk
                     ELSE shrunk \cup {task[x].msg : x \in
                            {x \in Conns : task[x].at = "chatting" /\ room[x] = room[c]}}
    BY <2>1 DEF SetClients
  <2>3. room[d] = room[c] /\ k # list
    BY <1>4, <2>2 DEF SeatInv, SeatTypes
  <2>4. list \in Seq(Conns)
    BY RoomKnown
  <2>5. ~ (Len(k) >= Len(list))
    <3> HIDE DEF list
    <3> QED
      BY <2>3, <2>4, KeepSame
  <2> HIDE DEF k, list
  <2>6. m \in {task[x].msg : x \in {x \in Conns : task[x].at = "chatting" /\ room[x] = room[c]}}
    BY <1>1, <2>3
  <2> QED
    BY <2>2, <2>5, <2>6
<1> QED
  BY <1>3, <1>4

(* A step of c's handler that keeps what everybody has, and sees to it     *)
(* that those have the message of c, or get it, who are to get it.         *)
LEMMA GapKeeps ==
    ASSUME ChatAssumption, SeatInv, MailInv, GapInv, NEW c \in Conns, Handles(c), Frame(c),
           sender' \in Seq(Conns), Len(sender) <= Len(sender'),
           \A k \in Chats : sender'[k] = sender[k],
           \A k \in 1 .. Len(sender') : k \in Chats \/ sender'[k] = c,
           history' = history \/ \E m \in {0} \cup 1 .. Len(sender') :
                                    m \notin Chats /\ Record(room[c], m),
           \A d \in Conns, m \in Nat : Has(d, m) /\ sock'[d] = "open" => Has(d, m)',
           \A d \in Conns \ {c}, m \in Nat :
              /\ sock[d] = "open" /\ Listed(d) /\ room[d] = room[c]
              /\ IF m \in Chats THEN task[c].at = "chatting" /\ task[c].msg = m /\ Due(c, d)
                 ELSE m \in 1 .. Len(sender')
              => Has(d, m)' \/ Coming(d, m)'
    PROVE  GapInv'
<1> DEFINE all == 1 .. Len(sender')
<1>1. Chats \subseteq all /\ Chats = 1 .. Len(sender) /\ Len(sender) \in Nat
      /\ Len(sender') \in Nat
  BY DEF Chats, MailInv, MailTypes
<1>2. /\ history \in [Rooms -> Seq({0} \cup Chats)]
      /\ \A q \in Rooms : Len(history[q]) <= MaxHistory
  BY DEF GapInv, GapTypes
<1>3. room' = room /\ caught' = caught /\ room[c] \in Rooms /\ task[c].at # "start"
  BY RoomKnown DEF Frame, Handles
<1>4. history \in [Rooms -> Seq({0} \cup all)]
  <2>1. \A q \in Rooms : history[q] \in Seq({0} \cup all)
    <3>1. {0} \cup Chats \subseteq {0} \cup all
      BY <1>1
    <3> QED
      BY <1>2, <3>1, SeqMonotonic
  <2> QED
    BY <1>2, <2>1
<1>5. /\ history' \in [Rooms -> Seq({0} \cup all)]
      /\ \A q \in Rooms : Len(history'[q]) <= MaxHistory
      /\ \A q \in Rooms : \A n \in DOMAIN history'[q] :
            \/ \E k \in DOMAIN history[q] : history[q][k] = history'[q][n]
            \/ q = room[c] /\ history'[q][n] \notin Chats
  <2>1. CASE history' = history
    BY <1>2, <1>4, <2>1
  <2>2. ASSUME NEW m \in {0} \cup all, m \notin Chats, Record(room[c], m)
        PROVE  /\ history' \in [Rooms -> Seq({0} \cup all)]
               /\ \A q \in Rooms : Len(history'[q]) <= MaxHistory
               /\ \A q \in Rooms : \A n \in DOMAIN history'[q] :
                     \/ \E k \in DOMAIN history[q] : history[q][k] = history'[q][n]
                     \/ q = room[c] /\ history'[q][n] \notin Chats
    <3> DEFINE T == {0} \cup all
    <3>1. m \in T /\ history \in [Rooms -> Seq(T)]
      BY <1>4, <2>2
    <3> HIDE DEF T
    <3>2. /\ history' \in [Rooms -> Seq(T)]
          /\ \A q \in Rooms : Len(history'[q]) <= MaxHistory
          /\ \A q \in Rooms : \A n \in DOMAIN history'[q] :
                \/ \E k \in DOMAIN history[q] : history[q][k] = history'[q][n]
                \/ q = room[c] /\ history'[q][n] = m
      <4>1. \A q \in Rooms : Len(history[q]) <= MaxHistory
        BY <1>2
      <4> QED
        <5>1. room[c] \in Rooms /\ Record(room[c], m)
          BY <1>3, <2>2
        <5>2. history' \in [Rooms -> Seq(T)]
          BY <3>1, <4>1, <5>1, Records
        <5>3. \A q \in Rooms : Len(history'[q]) <= MaxHistory
          BY <3>1, <4>1, <5>1, Records
        <5>4. \A q \in Rooms : \A n \in DOMAIN history'[q] :
                 \/ \E k \in DOMAIN history[q] : history[q][k] = history'[q][n]
                 \/ q = room[c] /\ history'[q][n] = m
          BY <3>1, <4>1, <5>1, Records
        <5> QED
          BY <5>2, <5>3, <5>4
    <3> QED
      BY <2>2, <3>2 DEF T
  <2> QED
    BY <2>1, <2>2
<1>6. ASSUME NEW q \in Rooms, NEW m \in all, NEW n \in DOMAIN history'[q], history'[q][n] = m
      PROVE  Recorded(q, m) \/ (m \notin Chats /\ q = room[c])
  BY <1>5, <1>6 DEF Recorded
<1>7. GapTypes'
  <2>1. shrunk' \in SUBSET ({0} \cup all)
    BY <1>1, ShrunkGrows
  <2>2. caught' \in [Conns -> SUBSET all]
    BY <1>1, <1>3 DEF GapInv, GapTypes
  <2> QED
    BY <1>5, <2>1, <2>2 DEF GapTypes, Chats
<1>8. OwnRoom'
  <2>1. ASSUME NEW q \in Rooms, NEW m \in all, NEW n \in DOMAIN history'[q], history'[q][n] = m
        PROVE  room[sender'[m]] = q
    <3>1. CASE m \in Chats
      <4>1. Recorded(q, m)
        BY <1>6, <2>1, <3>1
      <4> QED
        BY <3>1, <4>1 DEF GapInv, OwnRoom
    <3>2. CASE m \notin Chats
      <4>1. q = room[c]
        BY <1>5, <2>1, <3>2, <1>2, <1>6
      <4> QED
        BY <2>1, <3>2, <4>1
    <3> QED
      BY <3>1, <3>2
  <2> QED
    BY <1>3, <2>1 DEF OwnRoom, Recorded, Chats
<1>9. Covered'
  <2>1. ASSUME NEW d \in Conns, NEW m \in all, NEW n \in DOMAIN history'[room[d]],
               history'[room[d]][n] = m, sender'[m] # d,
               task'[d].at \in Joined, sock'[d] = "open"
        PROVE  m \in caught[d] \/ Has(d, m)' \/ Coming(d, m)' \/ m \in shrunk'
    <3>1. PICK t \in TaskState :
             task' = [task EXCEPT ![c] = t] /\ (t.at \in Joined => task[c].at \in Joined)
      BY DEF Handles
    <3>2. /\ DOMAIN task = Conns /\ DOMAIN sock = Conns
          /\ sock' = sock \/ sock' = [sock EXCEPT ![c] = "closed"]
      BY DEF SeatInv, SeatTypes, Handles
    <3>3. \A s \in Conns \ {c} : task'[s] = task[s]
      BY <3>1, <3>2
    <3>4. task[d].at \in Joined /\ sock[d] = "open"
      BY <2>1, <3>1, <3>2
    <3>5. task[d].at # "start" /\ Inside(d)
      BY <3>4 DEF Joined, Inside
    <3>6. room[d] \in Rooms /\ Listed(d)
      BY <3>5, RoomKnown DEF SeatInv, SeatsHeld
    <3>7. m \in Nat /\ (Recorded(room[d], m) \/ (m \notin Chats /\ room[d] = room[c]))
      BY <1>1, <1>6, <2>1, <3>6
    <3>8. CASE m \notin Chats
      <4>1. Recorded(room[d], m) => FALSE
        <5>1. \A k \in DOMAIN history[room[d]] :
                 history[room[d]][k] = 0 \/ history[room[d]][k] \in Chats
          BY <1>2, <3>6
        <5>2. m # 0
          BY <1>1, <2>1
        <5> QED
          BY <3>8, <5>1, <5>2 DEF Recorded
      <4>2. room[d] = room[c] /\ sender'[m] = c /\ d \in Conns \ {c}
        BY <2>1, <3>7, <3>8, <4>1
      <4> QED
        BY <2>1, <3>4, <3>6, <3>7, <3>8, <4>2
    <3>9. CASE m \in Chats
      <4>1. Recorded(room[d], m) /\ sender[m] # d /\ room[sender[m]] = room[d]
        BY <2>1, <3>6, <3>7, <3>9 DEF GapInv, OwnRoom
      <4>2. m \in caught[d] \/ Has(d, m) \/ Coming(d, m) \/ m \in shrunk
        BY <3>5, <3>9, <4>1 DEF GapInv, Covered
      <4>3. CASE Coming(d, m)
        <5>1. PICK s \in Conns : task[s].at = "chatting" /\ task[s].msg = m /\ Due(s, d)
          BY <4>3 DEF Coming
        <5>2. sender[m] = s
          BY <5>1 DEF MailInv, MailSent
        <5>3. CASE s = c
          <6>1. d \in Conns \ {c} /\ room[d] = room[c]
            BY <4>1, <5>2, <5>3
          <6> QED
            BY <3>4, <3>6, <3>7, <3>9, <5>1, <5>3, <6>1
        <5>4. CASE s # c
          <6>1. task'[s] = task[s]
            BY <3>3, <5>4
          <6>2. Due(s, d)' \/ m \in shrunk'
            BY <1>3, <3>6, <4>1, <5>1, <6>1, StaysDue
          <6> QED
            BY <5>1, <6>1, <6>2 DEF Coming
        <5> QED
          BY <5>3, <5>4
      <4>4. Has(d, m) => Has(d, m)'
        BY <2>1, <3>7
      <4>5. m \in shrunk => m \in shrunk'
        BY ShrunkGrows
      <4> QED
        BY <4>2, <4>3, <4>4, <4>5
    <3> QED
      BY <3>8, <3>9
  <2> QED
    BY <1>3, <2>1 DEF Covered, Inside, Recorded, Chats
<1> QED
  BY <1>7, <1>8, <1>9 DEF GapInv

(* A step that brings no chat message: c is not broadcasting one, or has   *)
(* come to the end of it.                                                  *)
LEMMA GapQuiet ==
    ASSUME ChatAssumption, SeatInv, MailInv, GapInv, NEW c \in Conns, Handles(c), Frame(c),
           sender' = sender, history' = history \/ Record(room[c], 0),
           got' = got \/ (got' = [got EXCEPT ![c] = <<>>] /\ sock'[c] = "closed"),
           task[c].at = "chatting" =>
              NoneLeft(c, "chatting", clients[room[c]], task[c].next)
    PROVE  GapInv'
<1>1. /\ sender \in Seq(Conns) /\ Len(sender) \in Nat /\ Chats = 1 .. Len(sender)
      /\ got \in [Conns -> Seq(Chats)]
  BY DEF MailInv, MailTypes, Chats
<1>2. sender' \in Seq(Conns) /\ Len(sender) <= Len(sender')
  BY <1>1
<1>3. (\A k \in Chats : sender'[k] = sender[k])
      /\ (\A k \in 1 .. Len(sender') : k \in Chats \/ sender'[k] = c)
  BY <1>1
<1>4. history' = history \/ \E m \in {0} \cup 1 .. Len(sender') :
                               m \notin Chats /\ Record(room[c], m)
  <2>1. 0 \notin Chats
    BY <1>1
  <2> QED
    BY <2>1
<1>5. ASSUME NEW d \in Conns, NEW m \in Nat, Has(d, m), sock'[d] = "open" PROVE Has(d, m)'
  <2>1. got'[d] = got[d]
    BY <1>1, <1>5
  <2> QED
    BY <1>5, <2>1 DEF Has
<1>6. ASSUME NEW d \in Conns \ {c}, NEW m \in Nat, sock[d] = "open", room[d] = room[c],
             IF m \in Chats THEN task[c].at = "chatting" /\ task[c].msg = m /\ Due(c, d)
             ELSE m \in 1 .. Len(sender')
      PROVE  FALSE
  <2>1. task[c].at = "chatting" /\ Due(c, d)
    BY <1>1, <1>6
  <2>2. PICK k \in DOMAIN clients[room[c]] :
           k >= task[c].next /\ clients[room[c]][k] = d
    BY <1>6, <2>1 DEF Due
  <2>3. task[c].next \in Nat \ {0}
    BY DEF SeatInv, SeatTypes, TaskState
  <2>4. d # c /\ task[c].at # "start"
    BY <2>1
  <2>5. ~ NoneLeft(c, "chatting", clients[room[c]], task[c].next)
    BY <2>2, <2>3, <2>4, NotOver
  <2> QED
    BY <2>1, <2>5
<1> QED
  BY <1>2, <1>3, <1>4, <1>5, <1>6, GapKeeps

(* The pieces of the quiet steps.                                          *)
LEMMA CleanKeeps ==
    ASSUME NEW list, NEW dead PROVE \E S : Clean(list, dead) = Keep(list, S)
BY DEF Clean

LEMMA FinishGot ==
    ASSUME SeatInv, NEW c \in Conns, NEW how, Finish(c, how)
    PROVE  got' = [got EXCEPT ![c] = <<>>] /\ sock'[c] = "closed"
BY DEF Finish, SeatInv, SeatTypes

LEMMA LeaveGap ==
    ASSUME ChatAssumption, SeatInv, MailInv, GapInv, NEW c \in Conns, Handles(c),
           NEW before, NEW R, before = clients[room[c]] \/ before = Keep(clients[room[c]], R),
           Leave(c, before), UNCHANGED <<sender, room, caught>>,
           task[c].at = "chatting" =>
              NoneLeft(c, "chatting", clients[room[c]], task[c].next)
    PROVE  GapInv'
<1> DEFINE list == clients[room[c]]
           after == Keep(before, Conns \ {c})
<1>1. list \in Seq(Conns)
  BY RoomKnown DEF Handles
<1>2. \E S : after = Keep(list, S)
  <2>1. CASE before = list
    BY <2>1
  <2>2. CASE before = Keep(list, R)
    <3> DEFINE rest == Conns \ {c}
    <3>1. Keep(Keep(list, R), rest) = Keep(list, R \cap rest)
      <4> HIDE DEF list, rest
      <4> QED
        BY <1>1, KeepBoth
    <3> QED
      BY <2>2, <3>1
  <2> QED
    BY <2>1, <2>2
<1>3. Frame(c)
  <2>1. SetClients(room[c], after)
    BY DEF Leave
  <2> HIDE DEF after
  <2> QED
    BY <1>2, <2>1 DEF Frame
<1>4. Record(room[c], 0)
  BY DEF Leave
<1>5. got' = got \/ (got' = [got EXCEPT ![c] = <<>>] /\ sock'[c] = "closed")
  <2>1. CASE Send(c, "leaving", 0, after, 1, <<>>)
    BY <2>1 DEF Send
  <2>2. CASE Finish(c, "done")
    BY <2>2, FinishGot
  <2> QED
    BY <2>1, <2>2 DEF Leave
<1> QED
  BY <1>3, <1>4, <1>5, GapQuiet

LEMMA JoinEndsGap ==
    ASSUME ChatAssumption, SeatInv, MailInv, GapInv, NEW c \in Conns, Handles(c),
           NEW dead, JoinEnds(c, dead), UNCHANGED <<sender, room, caught>>,
           history' = history \/ Record(room[c], 0), task[c].at # "chatting"
    PROVE  GapInv'
<1>1. Frame(c)
  <2>1. SetClients(room[c], Clean(clients[room[c]], dead))
    BY DEF JoinEnds
  <2> QED
    BY <2>1, CleanKeeps DEF Frame
<1>2. got' = got \/ (got' = [got EXCEPT ![c] = <<>>] /\ sock'[c] = "closed")
  BY FinishGot DEF JoinEnds
<1> QED
  BY <1>1, <1>2, GapQuiet

(* A send takes nothing away from anybody.                                 *)
LEMMA SendKeepsHas ==
    ASSUME MailInv, NEW c, NEW kind, NEW m, NEW list, NEW i, NEW dead,
           Send(c, kind, m, list, i, dead),
           NEW d \in Conns, NEW n, Has(d, n)
    PROVE  Has(d, n)'
<1> DEFINE x == list[Target(c, kind, list, i)]
<1>1. got' = got \/ got' = [got EXCEPT ![x] = Append(@, m)]
  BY DEF Send
<1>2. got \in [Conns -> Seq(Chats)]
  BY DEF MailInv, MailTypes
<1> HIDE DEF x
<1>3. got'[d] = got[d] \/ got'[d] = Append(got[d], m)
  BY <1>1, <1>2
<1>4. got[d] \in Seq(Chats)
  BY <1>2
<1>5. \A k \in DOMAIN got[d] : k \in DOMAIN Append(got[d], m) /\ Append(got[d], m)[k] = got[d][k]
  BY <1>4
<1> QED
  BY <1>3, <1>5 DEF Has

(* The broadcast of a chat message, at its first send or at a later one.   *)
LEMMA SpreadGap ==
    ASSUME ChatAssumption, SeatInv, MailInv, GapInv, NEW c \in Conns, Handles(c),
           NEW m \in Nat \ {0}, NEW i \in Nat \ {0}, NEW dead,
           \/ Send(c, "chatting", m, clients[room[c]], i, dead)
           \/ UNCHANGED got /\ NoneLeft(c, "chatting", clients[room[c]], i),
           UNCHANGED <<clients, room, caught, shrunk>>,
           sender' \in Seq(Conns), Len(sender) <= Len(sender'),
           \A k \in Chats : sender'[k] = sender[k],
           \A k \in 1 .. Len(sender') : k \in Chats \/ sender'[k] = c,
           history' = history \/ \E n \in {0} \cup 1 .. Len(sender') :
                                    n \notin Chats /\ Record(room[c], n),
           task[c].at = "chatting" => m = task[c].msg /\ i = task[c].next,
           \A n \in 1 .. Len(sender') : n \notin Chats => n = m /\ i = 1
    PROVE  GapInv'
<1>1. ASSUME NEW d \in Conns, NEW n \in Nat, Has(d, n) PROVE Has(d, n)'
  <2>1. CASE got' = got
    BY <1>1, <2>1 DEF Has
  <2>2. CASE Send(c, "chatting", m, clients[room[c]], i, dead)
    BY <1>1, <2>2, SendKeepsHas
  <2> QED
    BY <2>1, <2>2
<1>2. Frame(c)
  BY DEF Frame
<1>3. ASSUME NEW d \in Conns \ {c}, NEW n \in Nat, sock[d] = "open", Listed(d), room[d] = room[c],
             IF n \in Chats THEN task[c].at = "chatting" /\ task[c].msg = n /\ Due(c, d)
             ELSE n \in 1 .. Len(sender')
      PROVE  Has(d, n)' \/ Coming(d, n)'
  <2>1. n = m /\ task[c].at # "start" /\ clients[room[c]] \in Seq(Conns)
        /\ (n \in Chats => i = task[c].next) /\ (n \notin Chats => i = 1)
    BY <1>3, RoomKnown DEF Handles
  <2>2. PICK k \in DOMAIN clients[room[c]] : k >= i /\ clients[room[c]][k] = d
    <3>1. CASE n \in Chats
      BY <1>3, <2>1, <3>1 DEF Due
    <3>2. CASE n \notin Chats
      <4>1. \A k \in DOMAIN clients[room[c]] : k >= 1
        BY <2>1
      <4> QED
        BY <1>3, <2>1, <3>2, <4>1 DEF Listed
    <3> QED
      BY <3>1, <3>2
  <2>3. ~ NoneLeft(c, "chatting", clients[room[c]], i)
    BY <2>1, <2>2, NotOver
  <2>4. Send(c, "chatting", m, clients[room[c]], i, dead)
    BY <2>3
  <2>5. got[d] \in Seq(Nat) /\ DOMAIN got = Conns
    <3>1. got[d] \in Seq(Chats) /\ Chats \subseteq Nat /\ DOMAIN got = Conns
      BY DEF MailInv, MailTypes, Chats
    <3> QED
      BY <3>1, SeqMonotonic
  <2>6. Has(d, m)' \/ (task'[c].at = "chatting" /\ task'[c].msg = m /\ k >= task'[c].next)
    BY <1>3, <2>1, <2>2, <2>4, <2>5, Reaches
  <2>7. CASE task'[c].at = "chatting" /\ task'[c].msg = m /\ k >= task'[c].next
    <3>1. Due(c, d)'
      BY <1>3, <2>2, <2>7 DEF Due
    <3> QED
      BY <2>1, <2>7, <3>1 DEF Coming
  <2> QED
    BY <2>1, <2>6, <2>7
<1> QED
  BY <1>1, <1>2, <1>3, GapKeeps

LEMMA ChatGap ==
    ASSUME ChatAssumption, SeatInv, MailInv, GapInv, NEW c \in Conns, Chat(c) PROVE GapInv'
<1> DEFINE m == Len(sender) + 1
           list == clients[room[c]]
<1>1. /\ task[c].at = "listening" /\ sender' = Append(sender, c) /\ Record(room[c], m)
      /\ Send(c, "chatting", m, list, 1, <<>>) \/ (NoneLeft(c, "chatting", list, 1) /\ UNCHANGED got)
      /\ UNCHANGED <<clients, room, caught, shrunk>>
  BY DEF Chat
<1>2. Handles(c)
  BY ChatHandles
<1>3. /\ sender \in Seq(Conns) /\ Len(sender') = Len(sender) + 1 /\ Len(sender) \in Nat
      /\ sender' \in Seq(Conns) /\ sender'[Len(sender) + 1] = c
      /\ \A k \in 1 .. Len(sender) : sender'[k] = sender[k]
      /\ Chats = 1 .. Len(sender)
  BY <1>1 DEF MailInv, MailTypes, Chats
<1>4. /\ m \in Nat \ {0} /\ 1 \in Nat \ {0} /\ m \in {0} \cup 1 .. Len(sender') /\ m \notin Chats
      /\ Len(sender) <= Len(sender')
      /\ \A k \in Chats : sender'[k] = sender[k]
      /\ \A k \in 1 .. Len(sender') : k \in Chats \/ sender'[k] = c
      /\ \A k \in 1 .. Len(sender') : k \notin Chats => k = m /\ 1 = 1
  BY <1>3
<1>5. task[c].at # "chatting"
  BY <1>1
<1>6. \E n \in {0} \cup 1 .. Len(sender') : n \notin Chats /\ Record(room[c], n)
  BY <1>1, <1>4
<1> DEFINE none == <<>>
<1>7. \/ Send(c, "chatting", m, clients[room[c]], 1, none)
      \/ UNCHANGED got /\ NoneLeft(c, "chatting", clients[room[c]], 1)
  BY <1>1
<1>8. UNCHANGED <<clients, room, caught, shrunk>> /\ sender' \in Seq(Conns)
  BY <1>1, <1>3
<1> DEFINE one == 1
<1>9. /\ one \in Nat \ {0}
      /\ \A k \in 1 .. Len(sender') : k \notin Chats => k = m /\ one = 1
      /\ \/ Send(c, "chatting", m, clients[room[c]], one, none)
         \/ UNCHANGED got /\ NoneLeft(c, "chatting", clients[room[c]], one)
  BY <1>4, <1>7
<1>10. /\ m \in Nat \ {0} /\ Len(sender) <= Len(sender')
       /\ \A k \in Chats : sender'[k] = sender[k]
       /\ \A k \in 1 .. Len(sender') : k \in Chats \/ sender'[k] = c
       /\ task[c].at = "chatting" => m = task[c].msg /\ one = task[c].next
       /\ history' = history \/ \E n \in {0} \cup 1 .. Len(sender') :
                                     n \notin Chats /\ Record(room[c], n)
  BY <1>4, <1>5, <1>6
<1> HIDE DEF m, none, one
<1> QED
  BY <1>2, <1>8, <1>9, <1>10, SpreadGap

LEMMA ResumeGap ==
    ASSUME ChatAssumption, SeatInv, MailInv, GapInv, NEW c \in Conns, Resume(c) PROVE GapInv'
<1> DEFINE t == task[c]
           list == clients[room[c]]
<1>1. /\ t.at \in Casting /\ UNCHANGED <<room, sender, caught>>
      /\ \/ Send(c, t.at, t.msg, list, t.next, t.dead) /\ UNCHANGED <<clients, history, shrunk>>
         \/ /\ NoneLeft(c, t.at, list, t.next)
            /\ \/ t.at = "joining" /\ JoinEnds(c, t.dead) /\ history' = history
               \/ t.at = "chatting" /\ ChatEnds(c, t.dead)
               \/ t.at = "leaving" /\ LeaveEnds(c, t.dead) /\ history' = history
  BY DEF Resume
<1>2. Handles(c)
  BY ResumeHandles
<1>3. CASE t.at = "chatting" /\ Send(c, t.at, t.msg, list, t.next, t.dead)
           /\ UNCHANGED <<clients, history, shrunk>>
  <2> DEFINE m == t.msg
             i == t.next
             dead == t.dead
  <2>1. /\ m \in Chats /\ Chats = 1 .. Len(sender) /\ sender \in Seq(Conns)
        /\ i \in Nat \ {0} /\ Len(sender) \in Nat
    BY <1>3 DEF MailInv, MailTypes, MailSent, SeatInv, SeatTypes, TaskState, Chats
  <2>2. m \in Nat \ {0} /\ m = task[c].msg /\ i = task[c].next
    BY <2>1
  <2>3. Send(c, "chatting", m, clients[room[c]], i, dead)
    BY <1>3
  <2>4. /\ sender' \in Seq(Conns) /\ Len(sender) <= Len(sender')
        /\ \A k \in Chats : sender'[k] = sender[k]
        /\ \A k \in 1 .. Len(sender') : k \in Chats \/ sender'[k] = c
        /\ \A k \in 1 .. Len(sender') : k \notin Chats => k = m /\ i = 1
    BY <1>1, <2>1
  <2> HIDE DEF m, i, dead
  <2> QED
    BY <1>1, <1>2, <1>3, <2>1, <2>2, <2>3, <2>4, SpreadGap
<1>4. CASE t.at # "chatting" /\ Send(c, t.at, t.msg, list, t.next, t.dead)
           /\ UNCHANGED <<clients, history, shrunk>>
  <2>1. t.msg = 0
    BY <1>4 DEF MailInv, MailSent
  <2>2. got' = got
    BY <1>4, <2>1 DEF Send
  <2>3. Frame(c)
    BY <1>1, <1>4 DEF Frame
  <2> QED
    BY <1>1, <1>2, <1>4, <2>2, <2>3, GapQuiet
<1>5. CASE t.at = "joining" /\ JoinEnds(c, t.dead) /\ history' = history
  BY <1>1, <1>2, <1>5, JoinEndsGap
<1>6. CASE NoneLeft(c, t.at, list, t.next) /\ t.at = "chatting" /\ ChatEnds(c, t.dead)
  <2> DEFINE k == Clean(list, t.dead)
  <2>1. PICK S : k = Keep(list, S)
    BY CleanKeeps
  <2>2. \/ Leave(c, k)
        \/ SetClients(room[c], k) /\ UNCHANGED <<history, got>>
    BY <1>6 DEF ChatEnds
  <2> HIDE DEF k
  <2>3. CASE Leave(c, k)
    BY <1>1, <1>2, <1>6, <2>1, <2>3, LeaveGap
  <2>4. CASE SetClients(room[c], k) /\ UNCHANGED <<history, got>>
    <3>1. Frame(c)
      BY <1>1, <2>1, <2>4 DEF Frame
    <3> QED
      BY <1>1, <1>2, <1>6, <2>4, <3>1, GapQuiet
  <2> QED
    BY <2>2, <2>3, <2>4
<1>7. CASE t.at = "leaving" /\ LeaveEnds(c, t.dead) /\ history' = history
  <2>1. SetClients(room[c], Clean(list, t.dead)) /\ Finish(c, "done")
    BY <1>7 DEF LeaveEnds
  <2>2. Frame(c)
    BY <1>1, <2>1, CleanKeeps DEF Frame
  <2>3. got' = [got EXCEPT ![c] = <<>>] /\ sock'[c] = "closed"
    BY <2>1, FinishGot
  <2> QED
    BY <1>1, <1>2, <1>7, <2>2, <2>3, GapQuiet
<1> QED
  BY <1>1, <1>3, <1>4, <1>5, <1>6, <1>7

(* A new client finds what is recorded in the history it is sent.          *)
LEMMA ConnectGap ==
    ASSUME ChatAssumption, SeatInv, MailInv, GapInv, NEW c \in Conns, Connect(c) PROVE GapInv'
<1> DEFINE r == IF registered = 0 THEN created + 1 ELSE registered
           at == IF history[r] = <<>> THEN "listening" ELSE "history"
           found == ToSet(history[r]) \ {0}
           zero == <<0>>
<1>1. /\ sock[c] = "new" /\ room' = [room EXCEPT ![c] = r]
      /\ sock' = [sock EXCEPT ![c] = "open"]
      /\ clients' = [clients EXCEPT ![r] = Append(@, c)]
      /\ task' = [task EXCEPT ![c] = At(at)]
      /\ history' = history \/ history' = [history EXCEPT ![r] = zero]
      /\ caught' = [caught EXCEPT ![c] = found]
      /\ sender' = sender /\ got' = got /\ shrunk' = shrunk
  BY DEF Connect, Seat
<1> HIDE DEF at, r
<1>2. room[c] = 0 /\ task[c].at = "start" /\ 0 \notin Rooms
      /\ SeatTypes /\ DOMAIN room = Conns /\ DOMAIN task = Conns /\ DOMAIN sock = Conns
  BY <1>1 DEF SeatInv, SeatTypes, SeatLinks, Rooms
<1>3. r \in Rooms
  <2>1. SeatInv'
    BY ConnectKeeps
  <2>2. room'[c] = r /\ sock'[c] # "new"
    BY <1>1, <1>2
  <2>3. room'[c] \in {0} \cup Rooms /\ room'[c] \in 1 .. created' /\ created' \in Nat
    <3>1. SeatTypes' /\ SeatLinks'
      BY <2>1 DEF SeatInv
    <3>2. room' \in [Conns -> {0} \cup Rooms] /\ created' \in Nat
      BY <3>1 DEF SeatTypes, Rooms
    <3>3. IF sock'[c] = "new" THEN room'[c] = 0 ELSE room'[c] \in 1 .. created'
      BY <3>1 DEF SeatLinks
    <3> QED
      BY <2>2, <3>2, <3>3
  <2> QED
    BY <2>2, <2>3
<1>4. /\ history \in [Rooms -> Seq({0} \cup Chats)]
      /\ \A q \in Rooms : Len(history[q]) <= MaxHistory
      /\ caught \in [Conns -> SUBSET Chats] /\ shrunk \in SUBSET ({0} \cup Chats)
      /\ Chats = 1 .. Len(sender) /\ Len(sender) \in Nat /\ sender \in Seq(Conns)
  BY DEF GapInv, GapTypes, Chats, MailInv, MailTypes
<1>5. zero \in Seq({0} \cup Chats) /\ Len(zero) = 1 /\ DOMAIN zero = {1} /\ zero[1] = 0
  OBVIOUS
<1> HIDE DEF zero
<1>6. found \in SUBSET Chats /\ \A m \in Chats : Recorded(r, m) => m \in found
  <2>1. history[r] \in Seq({0} \cup Chats)
    BY <1>3, <1>4
  <2>2. ToSet(history[r]) = {history[r][i] : i \in DOMAIN history[r]}
    BY DEF ToSet
  <2>3. \A i \in DOMAIN history[r] : history[r][i] \in {0} \cup Chats
    BY <2>1
  <2>4. 0 \notin Chats
    BY <1>4
  <2> QED
    BY <2>2, <2>3, <2>4 DEF Recorded
<1> HIDE DEF found
<1>7. ASSUME NEW q \in Rooms, NEW m \in Chats, NEW n \in DOMAIN history'[q], history'[q][n] = m
      PROVE  Recorded(q, m)
  <2>1. CASE history'[q] = history[q]
    BY <1>7, <2>1 DEF Recorded
  <2>2. CASE history'[q] # history[q]
    <3>1. history'[q] = zero
      BY <1>1, <1>3, <1>4, <2>2
    <3>2. m # 0
      BY <1>4
    <3> QED
      BY <1>5, <1>7, <3>1, <3>2
  <2> QED
    BY <2>1, <2>2
<1>8. GapTypes'
  <2>1. history' \in [Rooms -> Seq({0} \cup Chats)]
    BY <1>1, <1>3, <1>4, <1>5
  <2>2. \A q \in Rooms : Len(history'[q]) <= MaxHistory
    <3>1. 1 <= MaxHistory
      BY DEF ChatAssumption
    <3>2. \A q \in Rooms : history'[q] = history[q] \/ history'[q] = zero
      BY <1>1, <1>4
    <3> QED
      BY <1>4, <1>5, <3>1, <3>2
  <2>3. caught' \in [Conns -> SUBSET Chats]
    BY <1>1, <1>4, <1>6
  <2> QED
    BY <1>1, <1>4, <2>1, <2>2, <2>3 DEF GapTypes, Chats
<1>9. OwnRoom'
  <2>1. ASSUME NEW q \in Rooms, NEW m \in Chats, NEW n \in DOMAIN history'[q], history'[q][n] = m
        PROVE  room'[sender[m]] = q
    <3>1. room[sender[m]] = q /\ sender[m] \in Conns
      BY <1>4, <1>7, <2>1 DEF GapInv, OwnRoom
    <3>2. sender[m] # c
      BY <1>2, <2>1, <3>1
    <3> QED
      BY <1>1, <1>2, <3>1, <3>2
  <2> QED
    BY <1>1, <2>1 DEF OwnRoom, Recorded, Chats
<1>10. ASSUME NEW s \in Conns, task[s].at = "chatting", NEW d \in Conns \ {c}, Due(s, d),
              room[d] \in Rooms
       PROVE  Due(s, d)' /\ task'[s] = task[s]
  <2> DEFINE list == clients[room[d]]
  <2>1. s # c /\ task'[s] = task[s] /\ room'[d] = room[d]
    BY <1>1, <1>2, <1>10
  <2>2. list \in Seq(Conns) /\ DOMAIN clients = Rooms
    BY <1>2, <1>10 DEF SeatTypes
  <2>3. clients'[room[d]] = list \/ clients'[room[d]] = Append(list, c)
    BY <1>1, <1>10, <2>2
  <2>4. PICK i \in DOMAIN list : i >= task[s].next /\ list[i] = d
    BY <1>10 DEF Due
  <2>5. i \in DOMAIN Append(list, c) /\ Append(list, c)[i] = list[i]
    <3> HIDE DEF list
    <3> QED
      BY <2>2, <2>4
  <2>6. i \in DOMAIN clients'[room'[d]] /\ clients'[room'[d]][i] = d /\ i >= task'[s].next
    <3> HIDE DEF list
    <3> QED
      BY <2>1, <2>3, <2>4, <2>5
  <2> QED
    BY <2>1, <2>6 DEF Due
<1>11. Covered'
  <2>1. ASSUME NEW d \in Conns, NEW m \in Chats, Inside(d)', Recorded(room[d], m)', sender[m] # d
        PROVE  m \in caught'[d] \/ Has(d, m) \/ Coming(d, m)' \/ m \in shrunk
    <3>1. CASE d = c
      <4>1. room'[d] = r /\ caught'[d] = found
        BY <1>1, <1>2, <1>4, <3>1
      <4>2. Recorded(r, m)
        BY <1>3, <1>7, <2>1, <4>1 DEF Recorded
      <4> QED
        BY <1>6, <4>1, <4>2
    <3>2. CASE d # c
      <4>1. room'[d] = room[d] /\ task'[d] = task[d] /\ sock'[d] = sock[d] /\ caught'[d] = caught[d]
        BY <1>1, <1>2, <1>4, <3>2
      <4>2. Inside(d)
        BY <2>1, <4>1 DEF Inside
      <4>3. room[d] \in Rooms
        BY <4>2, RoomKnown DEF Inside, Joined
      <4>4. Recorded(room[d], m)
        BY <1>7, <2>1, <4>1, <4>3 DEF Recorded
      <4>5. m \in caught[d] \/ Has(d, m) \/ Coming(d, m) \/ m \in shrunk
        BY <2>1, <4>2, <4>4 DEF GapInv, Covered
      <4>6. Coming(d, m) => Coming(d, m)'
        <5>1. ASSUME NEW s \in Conns, task[s].at = "chatting", task[s].msg = m, Due(s, d)
              PROVE  task'[s].at = "chatting" /\ task'[s].msg = m /\ Due(s, d)'
          BY <1>10, <3>2, <4>3, <5>1
        <5> QED
          BY <5>1 DEF Coming
      <4> QED
        BY <4>1, <4>5, <4>6
    <3> QED
      BY <3>1, <3>2
  <2> QED
    BY <1>1, <2>1 DEF Covered, Chats, Has
<1> QED
  BY <1>8, <1>9, <1>11 DEF GapInv

LEMMA GapStep ==
    ASSUME ChatAssumption, SeatInv, MailInv, GapInv, [Next]_vars PROVE GapInv'
<1>1. ASSUME NEW c \in Conns, Connect(c) PROVE GapInv'
  BY <1>1, ConnectGap
<1>2. ASSUME NEW c \in Conns, Join(c) PROVE GapInv'
  <2>1. /\ Handles(c) /\ task[c].at = "history" /\ Record(room[c], 0)
        /\ UNCHANGED <<room, sender, caught>>
    BY <1>2, JoinHandles DEF Join
  <2>2. CASE Send(c, "joining", 0, clients[room[c]], 1, <<>>) /\ UNCHANGED <<clients, shrunk>>
    <3>1. got' = got
      BY <2>2 DEF Send
    <3>2. Frame(c)
      BY <2>1, <2>2 DEF Frame
    <3> QED
      BY <2>1, <3>1, <3>2, GapQuiet
  <2>3. CASE JoinEnds(c, <<>>)
    <3> DEFINE none == <<>>
    <3>1. JoinEnds(c, none) /\ task[c].at # "chatting"
      BY <2>1, <2>3
    <3> HIDE DEF none
    <3> QED
      BY <2>1, <3>1, JoinEndsGap
  <2> QED
    BY <1>2, <2>2, <2>3 DEF Join
<1>3. ASSUME NEW c \in Conns, JoinFails(c) PROVE GapInv'
  <2>1. /\ Handles(c) /\ task[c].at = "history" /\ Finish(c, "failed")
        /\ UNCHANGED <<clients, history, room, sender, caught, shrunk>>
    BY <1>3, JoinFailsHandles DEF JoinFails
  <2>2. Frame(c)
    BY <2>1 DEF Frame
  <2>3. got' = [got EXCEPT ![c] = <<>>] /\ sock'[c] = "closed"
    BY <2>1, FinishGot
  <2> QED
    BY <2>1, <2>2, <2>3, GapQuiet
<1>4. ASSUME NEW c \in Conns, Chat(c) PROVE GapInv'
  BY <1>4, ChatGap
<1>5. ASSUME NEW c \in Conns, Resume(c) PROVE GapInv'
  BY <1>5, ResumeGap
<1>6. ASSUME NEW c \in Conns, HangUp(c) PROVE GapInv'
  <2>1. /\ Handles(c) /\ task[c].at = "listening" /\ UNCHANGED <<room, sender, caught>>
    BY <1>6, HangUpHandles DEF HangUp
  <2>2. PICK before : before = clients[room[c]] /\ Leave(c, before)
    BY <1>6 DEF HangUp
  <2>3. task[c].at # "chatting"
    BY <2>1
  <2> QED
    BY <2>1, <2>2, <2>3, LeaveGap
<1>7. ASSUME sock' = sock \/ \E c \in Conns : sock' = [sock EXCEPT ![c] = "closed"],
             UNCHANGED <<clients, history, room, task, sender, got, caught, shrunk>>
      PROVE  GapInv'
  <2>1. UNCHANGED <<clients, history, room, task, sender, got, caught, shrunk>>
    BY <1>7
  <2>2. \A d \in Conns : Inside(d)' => Inside(d)
    BY <1>7 DEF Inside, SeatInv, SeatTypes
  <2>3. GapTypes' /\ OwnRoom'
    BY <2>1 DEF GapInv, GapTypes, OwnRoom, Recorded, Chats
  <2>4. Covered'
    <3>1. \A d \in Conns, m \in Chats :
             /\ Recorded(room[d], m)' <=> Recorded(room[d], m)
             /\ Has(d, m)' <=> Has(d, m)
             /\ Coming(d, m)' <=> Coming(d, m)
      BY <2>1 DEF Recorded, Has, Coming, Due
    <3> QED
      BY <2>1, <2>2, <3>1 DEF GapInv, Covered, Chats
  <2> QED
    BY <2>3, <2>4 DEF GapInv
<1>8. ASSUME NEW c \in Conns, Disconnect(c) PROVE GapInv'
  BY <1>7, <1>8 DEF Disconnect, ghosts
<1>9. CASE UNCHANGED vars
  BY <1>7, <1>9 DEF vars, ghosts
<1> QED
  BY <1>1, <1>2, <1>3, <1>4, <1>5, <1>6, <1>8, <1>9 DEF Next

LEMMA NothingFalls == ASSUME SeatInv, MailInv, GapInv PROVE NoGap
<1> SUFFICES ASSUME NEW c \in Conns, Present(c), NEW m \in Missing(c)
             PROVE  m \in shrunk
  BY DEF NoGap
<1>1. Inside(c) /\ room[c] \in Rooms
  BY RoomKnown DEF Present, Inside, Joined
<1> DEFINE list == clients[room[c]]
           coming == {task[s].msg : s \in {s \in Conns :
               /\ task[s].at = "chatting"
               /\ \E i \in DOMAIN list : i >= task[s].next /\ list[i] = c}}
<1>2. /\ m \in ToSet(history[room[c]]) \ {0} /\ sender[m] # c
      /\ m \notin caught[c] \cup ToSet(got[c]) \cup coming
  BY DEF Missing
<1>3. m \in Chats /\ Recorded(room[c], m)
  <2>1. history[room[c]] \in Seq({0} \cup Chats)
    BY <1>1 DEF GapInv, GapTypes
  <2>2. PICK n \in DOMAIN history[room[c]] : history[room[c]][n] = m
    BY <1>2 DEF ToSet
  <2> QED
    BY <1>2, <2>1, <2>2 DEF Recorded
<1>4. ~ Has(c, m)
  BY <1>2 DEF Has, ToSet
<1>5. ~ Coming(c, m)
  <2>1. ASSUME NEW s \in Conns, task[s].at = "chatting", task[s].msg = m, Due(s, c)
        PROVE  FALSE
    <3>1. task[s].msg \in coming
      BY <2>1 DEF Due
    <3> HIDE DEF coming
    <3> QED
      BY <1>2, <2>1, <3>1
  <2> QED
    BY <2>1 DEF Coming
<1> QED
  BY <1>1, <1>2, <1>3, <1>4, <1>5 DEF GapInv, Covered

LEMMA TypesFollow == ASSUME ChatAssumption, SeatInv, MailInv, GapInv PROVE TypeOK
<1>1. /\ SeatTypes /\ MailTypes /\ GapTypes /\ MailSent
      /\ Chats = 1 .. Len(sender) /\ Len(sender) \in Nat
  BY DEF SeatInv, MailInv, GapInv, MailTypes, Chats
<1>2. created \in {0} \cup Rooms /\ registered \in {0} \cup Rooms
  <2> DEFINE known == {c \in Conns : sock[c] # "new"}
  <2>1. IsFiniteSet(Conns) /\ known \subseteq Conns
    BY DEF ChatAssumption
  <2>2. Cardinality(known) <= Cardinality(Conns) /\ IsFiniteSet(known)
    BY <2>1, FS_Subset
  <2>3. Cardinality(known) \in Nat /\ Cardinality(Conns) \in Nat
    BY <2>1, <2>2, FS_CardinalityType
  <2>4. created \in Nat /\ created <= Cardinality(known) /\ registered \in 0 .. created
    BY <1>1 DEF SeatTypes
  <2> HIDE DEF known
  <2> QED
    BY <2>2, <2>3, <2>4 DEF Rooms
<1>3. task \in [Conns -> [at : Places, msg : {0} \cup Chats, next : Nat \ {0},
                          dead : Seq(Conns)]]
  <2>1. task \in [Conns -> TaskState]
    BY <1>1 DEF SeatTypes
  <2>2. ASSUME NEW c \in Conns
        PROVE  task[c] \in [at : Places, msg : {0} \cup Chats, next : Nat \ {0},
                            dead : Seq(Conns)]
    <3>1. task[c] \in TaskState /\ task[c].msg \in {0} \cup Chats
      BY <1>1, <2>1 DEF MailSent
    <3> QED
      BY <3>1 DEF TaskState
  <2> QED
    BY <2>1, <2>2
<1> QED
  BY <1>1, <1>2, <1>3 DEF TypeOK, SeatTypes, MailTypes, GapTypes, Places

(* Between the history a client is sent and the broadcasts that reach it   *)
(* after add_client nothing is lost but messages in whose broadcast        *)
(* somebody left the list, whatever the order of joins, messages and       *)
(* failing sends (chat_room.py:127-145).                                   *)
THEOREM NothingFallsBetween == Spec => []NoGap
<1>1. Init => SeatInv /\ MailInv /\ GapInv
  BY ChatAssumption, SeatStart, MailStart, GapStart
<1>2. (SeatInv /\ MailInv /\ GapInv) /\ [Next]_vars => (SeatInv /\ MailInv /\ GapInv)'
  BY ChatAssumption, SeatStep, MailStep, GapStep
<1>3. SeatInv /\ MailInv /\ GapInv => NoGap
  BY NothingFalls
<1> QED
  BY <1>1, <1>2, <1>3, PTL DEF Spec

(* Types; the history never outgrows max_history.                          *)
THEOREM ChatTypesHold == Spec => []TypeOK
<1>1. Init => SeatInv /\ MailInv /\ GapInv
  BY ChatAssumption, SeatStart, MailStart, GapStart
<1>2. (SeatInv /\ MailInv /\ GapInv) /\ [Next]_vars => (SeatInv /\ MailInv /\ GapInv)'
  BY ChatAssumption, SeatStep, MailStep, GapStep
<1>3. SeatInv /\ MailInv /\ GapInv => TypeOK
  BY ChatAssumption, TypesFollow
<1> QED
  BY <1>1, <1>2, <1>3, PTL DEF Spec
==============================================================================
