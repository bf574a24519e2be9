---------------------------- MODULE ServersProofs ----------------------------
(***************************************************************************)
(* Proofs about five servers that share no state, one after the other: the *)
(* session APIs of chapter 8, the multiplexed connections of chapter 9,    *)
(* the sidecar proxy of chapter 10, the subscribers of chapter 7 and the   *)
(* servers on bare sockets of chapter 0.                                   *)
(***************************************************************************)
EXTENDS Sessions, Multiplex, Sidecar, OrderServices, SocketServers, ListsProofs

-----------------------------------------------------------------------------
(***************************************************************************)
(* Proofs about the stateful and the stateless API of chapter 8, for any   *)
(* number of servers, logins, orders and restarts.                         *)
(***************************************************************************)

(* An answer names a server and a credential that was given out.           *)
ReplyOK ==
    reply.op # "none" => reply.server \in Servers /\ reply.cred \in 1 .. Len(issued)

(* A credential was issued by its server in one of its lives so far.       *)
IssuedByLife ==
    \A i \in 1 .. Len(issued) : issued[i].start <= starts[issued[i].server]

(* A server's store holds credentials of its present life, and with        *)
(* sessions it holds all of them that have not expired; it knows the       *)
(* customers of all of them.                                               *)
StoreIsHome ==
    style = "session" =>
        \A s \in Servers, i \in 1 .. Len(issued) :
            /\ i \in sessions[s] => StillHome(s, i)
            /\ StillHome(s, i) => i \in customers[s]
            /\ StillHome(s, i) /\ now <= issued[i].exp => i \in sessions[s]

SInv ==
    SessionsTypeOK /\ ReplyOK /\ IssuedByLife /\ StoreIsHome /\ SessionsKeep

-----------------------------------------------------------------------------
LEMMA IssuedType ==
    ASSUME SessionsTypeOK, NEW i \in 1 .. Len(issued)
    PROVE  /\ issued[i].server \in Servers
           /\ issued[i].start \in Nat
           /\ issued[i].exp \in Nat
           /\ starts[issued[i].server] \in Nat
<1>1. issued[i] \in [server : Servers, start : Nat, exp : Nat]
  BY ElementOfSeq DEF SessionsTypeOK
<1> QED
  BY <1>1 DEF SessionsTypeOK

(* With sessions, being recognised is being at home and in time.           *)
LEMMA RecognisedAtHome ==
    ASSUME SInv, NEW s \in Servers, NEW i \in 1 .. Len(issued)
    PROVE  /\ Recognised(s, i) <=>
                /\ now <= issued[i].exp
                /\ style = "session" => StillHome(s, i)
           /\ style = "session" /\ Recognised(s, i) => i \in customers[s]
<1>1. now \in Nat /\ issued[i].exp \in Nat
  BY IssuedType DEF SInv, SessionsTypeOK
<1>2. ~ issued[i].exp < now <=> now <= issued[i].exp
  BY <1>1
<1>3. CASE style = "jwt"
  BY <1>2, <1>3 DEF Recognised, Verified
<1>4. CASE style = "session"
  <2>1. Recognised(s, i) <=> i \in sessions[s] /\ now <= issued[i].exp
    BY <1>2, <1>4 DEF Recognised, HasSession
  <2>2. /\ i \in sessions[s] => StillHome(s, i)
        /\ StillHome(s, i) => i \in customers[s]
        /\ StillHome(s, i) /\ now <= issued[i].exp => i \in sessions[s]
    BY <1>4 DEF SInv, StoreIsHome
  <2> QED
    BY <1>4, <2>1, <2>2
<1> QED
  BY <1>3, <1>4 DEF SInv, SessionsTypeOK

LEMMA SessionsStart == SessionsInit => SInv
<1> SUFFICES ASSUME SessionsInit PROVE SInv
  OBVIOUS
<1>1. Len(issued) = 0 /\ Len(placed) = 0 /\ DOMAIN placed = {}
  BY DEF SessionsInit
<1>2. SessionsTypeOK
  BY <1>1, SMT DEF SessionsInit, SessionsTypeOK
<1>3. reply.op = "none"
  BY DEF SessionsInit, NoReply
<1> QED
  BY <1>1, <1>2, <1>3
     DEF SInv, ReplyOK, IssuedByLife, StoreIsHome, SessionsKeep, Honoured, AddressKept

-----------------------------------------------------------------------------
LEMMA LoginKeeps ==
    ASSUME SessionsAssumption, SInv, NEW s \in Servers, Login(s)
    PROVE  SInv'
<1> DEFINE n == Len(issued)
<1> DEFINE c == Credential(s)
<1>1. /\ n \in Nat
      /\ issued \in Seq([server : Servers, start : Nat, exp : Nat])
      /\ starts[s] \in Nat /\ now \in Nat /\ Lifetime \in Nat
  BY DEF SInv, SessionsTypeOK, SessionsAssumption
<1>2. /\ c \in [server : Servers, start : Nat, exp : Nat]
      /\ c.server = s /\ c.start = starts[s]
  BY <1>1 DEF Credential
<1>3. issued' = Append(issued, c)
  BY DEF Login
<1> HIDE DEF c
<1>4. /\ issued' \in Seq([server : Servers, start : Nat, exp : Nat])
      /\ Len(issued') = n + 1
      /\ issued'[n + 1] = c
      /\ \A i \in 1 .. n : issued'[i] = issued[i]
  BY <1>1, <1>2, <1>3
<1>5. /\ customers' = [customers EXCEPT ![s] = @ \cup {n + 1}]
      /\ sessions' = IF style = "session" THEN [sessions EXCEPT ![s] = @ \cup {n + 1}]
                     ELSE sessions
      /\ reply' = NoReply
      /\ UNCHANGED <<style, now, placed, db, starts>>
  BY DEF Login
<1> HIDE DEF n
<1>6. 1 .. n \subseteq 1 .. (n + 1) /\ n + 1 \in 1 .. (n + 1)
  BY <1>1
<1>7. SessionsTypeOK'
  <2>1. /\ sessions \in [Servers -> SUBSET (1 .. n)]
        /\ customers \in [Servers -> SUBSET (1 .. n)]
        /\ placed \in Seq([customer : 1 .. n, hasAddress : BOOLEAN])
    BY DEF SInv, SessionsTypeOK, n
  <2>2. /\ sessions' \in [Servers -> SUBSET (1 .. (n + 1))]
        /\ customers' \in [Servers -> SUBSET (1 .. (n + 1))]
    BY <1>5, <1>6, <2>1
  <2>3. [customer : 1 .. n, hasAddress : BOOLEAN]
          \subseteq [customer : 1 .. (n + 1), hasAddress : BOOLEAN]
    BY <1>6
  <2>4. placed \in Seq([customer : 1 .. (n + 1), hasAddress : BOOLEAN])
    BY <2>1, <2>3, SeqMonotonic
  <2> QED
    BY <1>4, <1>5, <2>2, <2>4 DEF SInv, SessionsTypeOK
<1>8. IssuedByLife'
  <2> SUFFICES ASSUME NEW i \in 1 .. (n + 1)
               PROVE  issued'[i].start <= starts[issued'[i].server]
    BY <1>4, <1>5 DEF IssuedByLife
  <2>1. CASE i = n + 1
    BY <1>1, <1>2, <1>4, <2>1
  <2>2. CASE i \in 1 .. n
    BY <1>4, <2>2 DEF SInv, IssuedByLife, n
  <2> QED
    BY <1>1, <2>1, <2>2
<1>9. StoreIsHome'
  <2> SUFFICES ASSUME style = "session", NEW t \in Servers, NEW i \in 1 .. (n + 1)
               PROVE  /\ i \in sessions'[t] => StillHome(t, i)'
                      /\ StillHome(t, i)' => i \in customers'[t]
                      /\ StillHome(t, i)' /\ now <= issued'[i].exp => i \in sessions'[t]
    BY <1>4, <1>5 DEF StoreIsHome
  <2>1. sessions[t] \subseteq 1 .. n /\ customers[t] \subseteq 1 .. n
    BY DEF SInv, SessionsTypeOK, n
  <2>2. CASE i = n + 1
    <3>1. StillHome(t, i)' <=> t = s
      BY <1>2, <1>4, <1>5, <2>2 DEF StillHome
    <3>2. i \notin sessions[t]
      BY <1>1, <2>1, <2>2
    <3> QED
      BY <1>5, <2>2, <3>1, <3>2 DEF SInv, SessionsTypeOK
  <2>3. CASE i \in 1 .. n
    <3>1. StillHome(t, i)' <=> StillHome(t, i)
      BY <1>4, <1>5, <2>3 DEF StillHome
    <3>2. i \in sessions'[t] <=> i \in sessions[t]
      BY <1>1, <1>5, <2>3 DEF SInv, SessionsTypeOK
    <3>3. i \in customers'[t] <=> i \in customers[t]
      BY <1>1, <1>5, <2>3 DEF SInv, SessionsTypeOK
    <3> QED
      BY <1>4, <2>3, <3>1, <3>2, <3>3 DEF SInv, StoreIsHome, n
  <2> QED
    BY <1>1, <2>2, <2>3
<1>10. ReplyOK' /\ Honoured' /\ AddressKept'
  BY <1>5 DEF NoReply, ReplyOK, Honoured, AddressKept, SInv, SessionsKeep
<1> QED
  BY <1>7, <1>8, <1>9, <1>10 DEF SInv, SessionsKeep

(* An answer is right when it refuses what is not recognised, and only     *)
(* that, and the memory it is judged by stays as it was.                   *)
LEMMA RightAnswer ==
    ASSUME SInv, NEW s \in Servers, NEW i \in 1 .. Len(issued),
           UNCHANGED <<style, now, issued, starts>>,
           reply'.server = s, reply'.cred = i,
           reply'.status # 401 <=> Recognised(s, i)
    PROVE  ReplyOK' /\ Honoured' /\ IssuedByLife'
<1>1. Recognised(s, i) <=>
         now <= issued[i].exp /\ (style = "session" => StillHome(s, i))
  BY RecognisedAtHome
<1>2. Honoured'
  BY <1>1 DEF Honoured, StillHome
<1>3. ReplyOK' /\ IssuedByLife'
  BY DEF ReplyOK, IssuedByLife, SInv
<1> QED
  BY <1>2, <1>3

LEMMA RefuseKeeps ==
    ASSUME SInv, NEW s \in Servers, NEW i \in 1 .. Len(issued), NEW op, Refuse(s, i, op)
    PROVE  SInv'
<1>1. /\ sessions' = AfterLookup(s, i)
      /\ UNCHANGED <<style, now, issued, customers, placed, db, starts>>
      /\ reply'.server = s /\ reply'.cred = i /\ reply'.status = 401
      /\ ~ Recognised(s, i)
  BY DEF Refuse
<1>2. ReplyOK' /\ Honoured' /\ IssuedByLife'
  BY <1>1, RightAnswer
<1>3. /\ sessions' \in [Servers -> SUBSET (1 .. Len(issued))]
      /\ \A t \in Servers, j \in 1 .. Len(issued) :
            /\ j \in sessions'[t] => j \in sessions[t]
            /\ j \in sessions[t] => j \in sessions'[t] \/ issued[j].exp < now
  <2>1. sessions \in [Servers -> SUBSET (1 .. Len(issued))]
    BY DEF SInv, SessionsTypeOK
  <2>2. CASE style = "session" /\ issued[i].exp < now
    BY <1>1, <2>1, <2>2 DEF AfterLookup
  <2>3. CASE ~ (style = "session" /\ issued[i].exp < now)
    BY <1>1, <2>1, <2>3 DEF AfterLookup
  <2> QED
    BY <2>2, <2>3
<1>4. SessionsTypeOK'
  BY <1>1, <1>3 DEF SInv, SessionsTypeOK
<1>5. \A j \in 1 .. Len(issued) : now <= issued[j].exp => ~ issued[j].exp < now
  <2> SUFFICES ASSUME NEW j \in 1 .. Len(issued) PROVE now <= issued[j].exp => ~ issued[j].exp < now
    OBVIOUS
  <2>1. now \in Nat /\ issued[j].exp \in Nat
    BY IssuedType DEF SInv, SessionsTypeOK
  <2> QED
    BY <2>1
<1>6. StoreIsHome'
  BY <1>1, <1>3, <1>5 DEF StoreIsHome, SInv, StillHome
<1> QED
  BY <1>1, <1>2, <1>4, <1>6 DEF SInv, SessionsKeep, AddressKept

LEMMA AnswerKeeps ==
    ASSUME SInv, NEW s \in Servers, NEW i \in 1 .. Len(issued),
           GetMe(s, i) \/ PlaceUnknown(s, i) \/ \E o \in DOMAIN placed : GetOrder(s, i, o)
    PROVE  SInv'
<1>1. /\ UNCHANGED <<style, now, issued, sessions, customers, placed, db, starts>>
      /\ reply'.server = s /\ reply'.cred = i /\ reply'.status \in {200, 404, 422}
      /\ Recognised(s, i)
  BY DEF GetMe, PlaceUnknown, GetOrder
<1>2. ReplyOK' /\ Honoured' /\ IssuedByLife'
  BY <1>1, RightAnswer
<1>3. SessionsTypeOK'
  BY <1>1 DEF SInv, SessionsTypeOK
<1>4. StoreIsHome'
  BY <1>1 DEF SInv, StoreIsHome, StillHome
<1>5. AddressKept'
  BY <1>1 DEF SInv, SessionsKeep, AddressKept
<1> QED
  BY <1>2, <1>3, <1>4, <1>5 DEF SInv, SessionsKeep

LEMMA PlaceOrderKeeps ==
    ASSUME SInv, NEW s \in Servers, NEW i \in 1 .. Len(issued), PlaceOrder(s, i)
    PROVE  SInv'
<1> DEFINE Order == [customer : 1 .. Len(issued), hasAddress : BOOLEAN]
<1> DEFINE o == [customer |-> i, hasAddress |-> i \in customers[s]]
<1> DEFINE n == Len(placed)
<1>1. /\ UNCHANGED <<style, now, issued, sessions, customers, starts>>
      /\ placed' = Append(placed, o)
      /\ db' = [db EXCEPT ![s] = @ \cup {n + 1}]
      /\ reply'.server = s /\ reply'.cred = i /\ reply'.status = 200
      /\ Recognised(s, i)
  BY DEF PlaceOrder
<1>2. ReplyOK' /\ Honoured' /\ IssuedByLife'
  BY <1>1, RightAnswer
<1>3. o \in Order /\ placed \in Seq(Order) /\ n \in Nat
  BY DEF SInv, SessionsTypeOK
<1>4. o.hasAddress = (i \in customers[s])
  OBVIOUS
<1> HIDE DEF o, Order
<1>5. /\ placed' \in Seq(Order) /\ Len(placed') = n + 1
      /\ placed'[n + 1] = o
      /\ \A k \in 1 .. n : placed'[k] = placed[k]
      /\ DOMAIN placed' = 1 .. (n + 1) /\ DOMAIN placed = 1 .. n
  BY <1>1, <1>3
<1>6. SessionsTypeOK'
  <2>1. db \in [Servers -> SUBSET (1 .. n)]
    BY DEF SInv, SessionsTypeOK
  <2> HIDE DEF n
  <2>2. 1 .. n \subseteq 1 .. (n + 1) /\ n + 1 \in 1 .. (n + 1)
    BY <1>3
  <2>3. db' \in [Servers -> SUBSET (1 .. (n + 1))]
    BY <1>1, <2>1, <2>2
  <2> QED
    BY <1>1, <1>5, <2>3 DEF SInv, SessionsTypeOK, Order
<1>7. StoreIsHome'
  BY <1>1 DEF SInv, StoreIsHome, StillHome
<1>8. AddressKept'
  <2> SUFFICES ASSUME style = "session", NEW k \in 1 .. (n + 1)
               PROVE  placed'[k].hasAddress
    BY <1>1, <1>5 DEF AddressKept
  <2>1. CASE k = n + 1
    BY <1>1, <1>4, <1>5, <2>1, RecognisedAtHome
  <2>2. CASE k \in 1 .. n
    BY <1>5, <2>2 DEF SInv, SessionsKeep, AddressKept
  <2> QED
    BY <1>3, <2>1, <2>2
<1> QED
  BY <1>2, <1>6, <1>7, <1>8 DEF SInv, SessionsKeep

(* What a restarted server forgets was issued in a life that has ended.    *)
LEMMA RestartKeeps ==
    ASSUME SInv, NEW s \in Servers, Restart(s)
    PROVE  SInv'
<1>1. /\ starts' = [starts EXCEPT ![s] = @ + 1]
      /\ sessions' = [sessions EXCEPT ![s] = {}]
      /\ customers' = [customers EXCEPT ![s] = {}]
      /\ db' = [db EXCEPT ![s] = {}]
      /\ reply' = NoReply
      /\ UNCHANGED <<style, now, issued, placed>>
  BY DEF Restart
<1>2. SessionsTypeOK'
  BY <1>1 DEF SInv, SessionsTypeOK
<1>3. \A i \in 1 .. Len(issued) :
         /\ issued[i].start <= starts[issued[i].server]
         /\ issued[i].start \in Nat
         /\ issued[i].server \in Servers
  BY IssuedType DEF SInv, IssuedByLife
<1>4. \A t \in Servers :
         /\ starts[t] \in Nat
         /\ starts'[t] = IF t = s THEN starts[s] + 1 ELSE starts[t]
  BY <1>1 DEF SInv, SessionsTypeOK
<1>5. IssuedByLife'
  BY <1>1, <1>3, <1>4 DEF IssuedByLife
<1>6. StoreIsHome'
  <2> SUFFICES ASSUME style = "session", NEW t \in Servers, NEW i \in 1 .. Len(issued)
               PROVE  /\ i \in sessions'[t] => StillHome(t, i)'
                      /\ StillHome(t, i)' => i \in customers'[t]
                      /\ StillHome(t, i)' /\ now <= issued[i].exp => i \in sessions'[t]
    BY <1>1 DEF StoreIsHome
  <2>1. CASE t = s
    <3>1. ~ StillHome(s, i)'
      BY <1>1, <1>3, <1>4 DEF StillHome
    <3> QED
      BY <1>1, <2>1, <3>1 DEF SInv, SessionsTypeOK
  <2>2. CASE t # s
    <3>1. /\ sessions'[t] = sessions[t] /\ customers'[t] = customers[t]
          /\ StillHome(t, i)' <=> StillHome(t, i)
      BY <1>1, <1>4, <2>2 DEF StillHome, SInv, SessionsTypeOK
    <3> QED
      BY <3>1 DEF SInv, StoreIsHome
  <2> QED
    BY <2>1, <2>2
<1> QED
  BY <1>1, <1>2, <1>5, <1>6
     DEF SInv, SessionsKeep, ReplyOK, Honoured, AddressKept, NoReply

LEMMA SecondKeeps == SInv /\ SecondPasses => SInv'
<1> SUFFICES ASSUME SInv, SecondPasses PROVE SInv'
  OBVIOUS
<1>1. /\ now' = now + 1 /\ now \in Nat
      /\ reply' = NoReply
      /\ UNCHANGED <<style, issued, sessions, customers, placed, db, starts>>
  BY DEF SecondPasses, SInv, SessionsTypeOK
<1>2. SessionsTypeOK' /\ IssuedByLife' /\ AddressKept' /\ ReplyOK' /\ Honoured'
  BY <1>1 DEF SInv, SessionsTypeOK, IssuedByLife, SessionsKeep, AddressKept, ReplyOK,
              Honoured, NoReply
<1>3. \A i \in 1 .. Len(issued) : now + 1 <= issued[i].exp => now <= issued[i].exp
  BY <1>1, IssuedType DEF SInv
<1>4. StoreIsHome'
  BY <1>1, <1>3 DEF SInv, StoreIsHome, StillHome
<1> QED
  BY <1>2, <1>4 DEF SInv, SessionsKeep

-----------------------------------------------------------------------------
LEMMA SessionsInvariance == SessionsSpec => []SInv
<1>1. ASSUME SessionsAssumption, SInv, [SessionsNext]_sessionVars PROVE SInv'
  <2> USE <1>1
  <2>1. DOMAIN issued = 1 .. Len(issued)
    BY DEF SInv, SessionsTypeOK
  <2>2. ASSUME NEW s \in Servers, Login(s) \/ Restart(s) PROVE SInv'
    BY <2>2, LoginKeeps, RestartKeeps
  <2>3. ASSUME NEW s \in Servers, NEW i \in 1 .. Len(issued), NEW op, Refuse(s, i, op)
        PROVE  SInv'
    BY <2>3, RefuseKeeps
  <2>4. ASSUME NEW s \in Servers, NEW i \in 1 .. Len(issued),
               \/ GetMe(s, i) \/ PlaceUnknown(s, i)
               \/ \E o \in DOMAIN placed : GetOrder(s, i, o)
        PROVE  SInv'
    BY <2>4, AnswerKeeps
  <2>5. ASSUME NEW s \in Servers, NEW i \in 1 .. Len(issued), PlaceOrder(s, i)
        PROVE  SInv'
    BY <2>5, PlaceOrderKeeps
  <2>6. CASE UNCHANGED sessionVars
    <3>1. SessionsTypeOK' /\ ReplyOK' /\ IssuedByLife'
      BY <2>6 DEF sessionVars, SInv, SessionsTypeOK, ReplyOK, IssuedByLife
    <3>2. StoreIsHome'
      BY <2>6 DEF sessionVars, SInv, StoreIsHome, StillHome
    <3>3. SessionsKeep'
      BY <2>6 DEF sessionVars, SInv, SessionsKeep, Honoured, AddressKept, StillHome
    <3> QED
      BY <3>1, <3>2, <3>3 DEF SInv
  <2> QED
    BY <2>1, <2>2, <2>3, <2>4, <2>5, <2>6, SecondKeeps DEF SessionsNext
<1> QED
  BY <1>1, SessionsStart, SessionsAssumption, PTL DEF SessionsSpec

(* Every variable keeps to its type.                                       *)
THEOREM SessionsTyped == SessionsSpec => []SessionsTypeOK
<1>1. SInv => SessionsTypeOK
  BY DEF SInv
<1> QED
  BY <1>1, SessionsInvariance, PTL

(* A token is good at every server until it expires, a session only at the *)
(* server and in the life that issued it; with sessions no order lacks its *)
(* customer's address.                                                     *)
THEOREM CredentialsKept == SessionsSpec => []SessionsKeep
<1>1. SInv => SessionsKeep
  BY DEF SInv
<1> QED
  BY <1>1, SessionsInvariance, PTL

-----------------------------------------------------------------------------
(***************************************************************************)
(* Proofs about the multiplexed connections of chapter 9, for any number   *)
(* of them, any frames and any limit of a payload.                         *)
(***************************************************************************)

(* What an answer can say: in particular, the order's status.              *)
Said == {"got it", "error"} \union Places \union (Preparing .. FinalStatus)

Reply == [to : Nat \ {0}, tells : Said]
RepliesInv == replies \in [Connections -> Seq(Reply)]

(* A frame is handled after it was sent, and answered after it was handled.*)
HandledInv ==
    \A c \in Connections :
        /\ received[c] <= Len(sent[c])
        /\ \A i \in DOMAIN replies[c] : replies[c][i].to <= received[c]

(* AdvancedOnce, one connection and answer at a time.                      *)
Apart ==
    \A c, d \in Connections : \A i \in DOMAIN replies[c], j \in DOMAIN replies[d] :
        IsAdvance(c, i) /\ IsAdvance(d, j) /\ (c # d \/ i # j)
            => replies[c][i].tells # replies[d][j].tells
Reached ==
    \A c \in Connections : \A i \in DOMAIN replies[c] :
        IsAdvance(c, i) => replies[c][i].tells \in Preparing + 1 .. status
AllTold ==
    gone = {} => \A s \in Preparing + 1 .. status :
        \E c \in Connections : \E i \in DOMAIN replies[c] :
            IsAdvance(c, i) /\ replies[c][i].tells = s
AdvanceInv == Apart /\ Reached /\ AllTold

TurnInv == \A c \in Connections : AnswersInTurn(c)

MInv == MuxTypeOK /\ RepliesInv /\ HandledInv /\ TurnInv /\ AdvanceInv

-----------------------------------------------------------------------------
LEMMA MuxStart == MuxAssumption /\ MuxInit => MInv
<1> SUFFICES ASSUME MuxAssumption, MuxInit PROVE MInv
  OBVIOUS
<1>1. \A c \in Connections : sent[c] = <<>> /\ received[c] = 0 /\ replies[c] = <<>>
  BY DEF MuxInit
<1>2. Preparing \in Nat /\ FinalStatus \in Nat /\ Preparing <= FinalStatus
  BY DEF MuxAssumption
<1>3. MuxTypeOK
  BY <1>2 DEF MuxInit, MuxTypeOK, StreamTypes
<1>4. RepliesInv
  BY DEF MuxInit, RepliesInv
<1>5. HandledInv
  BY <1>1 DEF HandledInv
<1>6. TurnInv
  BY <1>1 DEF TurnInv, AnswersInTurn, Answerable
<1>7. Preparing + 1 .. status = {}
  BY <1>2 DEF MuxInit
<1>8. AdvanceInv
  BY <1>1, <1>7 DEF AdvanceInv, Apart, Reached, AllTold
<1> QED
  BY <1>3, <1>4, <1>5, <1>6, <1>8 DEF MInv

(* The property is about sets of pairs, the invariant about each of them.  *)
LEMMA AdvancesAreTold == RepliesInv /\ AdvanceInv => AdvancedOnce
<1> SUFFICES ASSUME RepliesInv, AdvanceInv PROVE AdvancedOnce
  OBVIOUS
<1>1. \A a \in Advances : \E c \in Connections : \E i \in DOMAIN replies[c] :
        a = <<c, i>> /\ IsAdvance(c, i)
  BY DEF Advances
<1>2. \A c \in Connections : \A i \in DOMAIN replies[c] : IsAdvance(c, i) => <<c, i>> \in Advances
  BY DEF Advances
<1>3. \A c, i : Tells(<<c, i>>) = replies[c][i].tells
  BY DEF Tells
<1>4. ASSUME NEW a \in Advances, NEW b \in Advances, a # b PROVE Tells(a) # Tells(b)
  <2>1. PICK c \in Connections : \E i \in DOMAIN replies[c] : a = <<c, i>> /\ IsAdvance(c, i)
    BY <1>1
  <2>2. PICK i \in DOMAIN replies[c] : a = <<c, i>> /\ IsAdvance(c, i)
    BY <2>1
  <2>3. PICK d \in Connections : \E j \in DOMAIN replies[d] : b = <<d, j>> /\ IsAdvance(d, j)
    BY <1>1
  <2>4. PICK j \in DOMAIN replies[d] : b = <<d, j>> /\ IsAdvance(d, j)
    BY <2>3
  <2>5. c # d \/ i # j
    BY <1>4, <2>2, <2>4
  <2>6. replies[c][i].tells # replies[d][j].tells
    BY <2>2, <2>4, <2>5 DEF AdvanceInv, Apart
  <2> QED
    BY <1>3, <2>2, <2>4, <2>6
<1>5. {Tells(a) : a \in Advances} \subseteq Preparing + 1 .. status
  BY <1>1, <1>3 DEF AdvanceInv, Reached
<1>6. ASSUME gone = {}, NEW s \in Preparing + 1 .. status
      PROVE  \E a \in Advances : Tells(a) = s
  <2>1. PICK c \in Connections : \E i \in DOMAIN replies[c] :
          IsAdvance(c, i) /\ replies[c][i].tells = s
    BY <1>6 DEF AdvanceInv, AllTold
  <2>2. PICK i \in DOMAIN replies[c] : IsAdvance(c, i) /\ replies[c][i].tells = s
    BY <2>1
  <2>3. <<c, i>> \in Advances
    BY <1>2, <2>2
  <2>4. Tells(<<c, i>>) = s
    BY <1>3, <2>2
  <2> QED
    BY <2>3, <2>4
<1> QED
  BY <1>4, <1>5, <1>6 DEF AdvancedOnce

-----------------------------------------------------------------------------
(* What becomes of a frame: the server says nothing, or answers it.  An    *)
(* advance that is stored and not answered is one whose client has left.   *)
Quiet(c, f) ==
    /\ UNCHANGED replies
    /\ open' \in {open, open \ {c}}
    /\ \/ UNCHANGED status
       \/ c \in gone /\ status' = status + 1 /\ status' <= FinalStatus
    /\ c \notin gone => f.type \notin handlers \/ c \notin open'
Spoken(c, f) ==
    /\ UNCHANGED open
    /\ \E t \in Said :
          /\ replies' = [replies EXCEPT ![c] = Append(@, [to |-> received[c] + 1, tells |-> t])]
          /\ f.what = "advance" => t = status + 1
    /\ status' = StatusAfter(f)
    /\ status' <= FinalStatus

LEMMA AnswersOf ==
    ASSUME MuxAssumption, MuxTypeOK, NEW f \in Frames, ~ Raises(f)
    PROVE  /\ StatusAfter(f) \in Preparing .. FinalStatus
           /\ ReplyTo(f).tells \in Said
           /\ f.what = "advance" =>
                /\ StatusAfter(f) = status + 1
                /\ ReplyTo(f).tells = status + 1
                /\ Encodes(ReplyTo(f).length)
           /\ f.what # "advance" => StatusAfter(f) = status
<1>1. Preparing \in Nat /\ FinalStatus \in Nat /\ status \in Preparing .. FinalStatus /\ MaxLength \in Nat \ {0}
  BY DEF MuxAssumption, MuxTypeOK
<1>2. f.what = "advance" => status < FinalStatus
  BY <1>1 DEF Raises
<1>3. StatusAfter(f) \in Preparing .. FinalStatus
  BY <1>1, <1>2 DEF StatusAfter
<1>4. ReplyTo(f).tells \in Said
  BY <1>3 DEF ReplyTo, Said
<1>5. ASSUME f.what = "advance"
      PROVE  StatusAfter(f) = status + 1 /\ ReplyTo(f).tells = status + 1 /\ Encodes(ReplyTo(f).length)
  <2>1. f.type # "CHAT"
    BY <1>5 DEF Frames
  <2>2. f.what \notin {"missing", "unknown"} /\ f.what \notin Places
    BY <1>5 DEF MuxAssumption
  <2>3. StatusAfter(f) = status + 1
    BY <1>5 DEF StatusAfter
  <2>4. ReplyTo(f) = [length |-> 1, tells |-> StatusAfter(f)]
    BY <2>1, <2>2 DEF ReplyTo
  <2> QED
    BY <1>1, <2>3, <2>4 DEF Encodes
<1>6. f.what # "advance" => StatusAfter(f) = status
  BY DEF StatusAfter
<1> QED
  BY <1>3, <1>4, <1>5, <1>6

LEMMA HandleShape ==
    ASSUME MuxAssumption, MInv, NEW c \in Connections, Handle(c)
    PROVE  LET f == sent[c][received[c] + 1] IN
           /\ c \in open /\ f \in Frames
           /\ received[c] + 1 \in 1 .. Len(sent[c])
           /\ received' = [received EXCEPT ![c] = @ + 1]
           /\ position' \in Places \union {Depot}
           /\ UNCHANGED <<handlers, gone, sent, read>>
           /\ Quiet(c, f) \/ Spoken(c, f)
<1> DEFINE f == sent[c][received[c] + 1]
<1>1. /\ c \in open /\ received[c] < Len(sent[c])
      /\ received' = [received EXCEPT ![c] = @ + 1]
      /\ UNCHANGED <<handlers, gone, sent, read>>
  BY DEF Handle
<1>2. received \in [Connections -> Nat] /\ sent[c] \in Seq(Frames) /\ position \in Places \union {Depot}
  BY DEF MInv, MuxTypeOK
<1>3. received[c] + 1 \in 1 .. Len(sent[c]) /\ received'[c] = received[c] + 1
  BY <1>1, <1>2
<1>4. f \in Frames
  BY <1>2, <1>3
<1>5. \/ f.type \notin handlers /\ UNCHANGED <<open, status, position, replies>>
      \/ f.type \in handlers /\ Raises(f) /\ Ends(c) /\ UNCHANGED <<status, position>>
      \/ /\ f.type \in handlers /\ ~ Raises(f)
         /\ status' = StatusAfter(f)
         /\ position' = IF f.what \in Places THEN f.what ELSE position
         /\ Answer(c, received[c] + 1, ReplyTo(f))
  BY <1>3 DEF Handle
<1>6. status \in Nat
  BY DEF MInv, MuxTypeOK, MuxAssumption
<1>7. CASE f.type \notin handlers /\ UNCHANGED <<open, status, position, replies>>
  <2>1. Quiet(c, f)
    BY <1>7 DEF Quiet
  <2> QED
    BY <1>1, <1>2, <1>3, <1>4, <1>7, <2>1
<1>8. CASE f.type \in handlers /\ Raises(f) /\ Ends(c) /\ UNCHANGED <<status, position>>
  <2>1. Quiet(c, f)
    BY <1>8 DEF Quiet, Ends
  <2> QED
    BY <1>1, <1>2, <1>3, <1>4, <1>8, <2>1
<1>9. CASE /\ f.type \in handlers /\ ~ Raises(f)
           /\ status' = StatusAfter(f)
           /\ position' = IF f.what \in Places THEN f.what ELSE position
           /\ Answer(c, received[c] + 1, ReplyTo(f))
  <2> HIDE DEF f
  <2>1. /\ StatusAfter(f) \in Preparing .. FinalStatus /\ ReplyTo(f).tells \in Said
        /\ f.what = "advance" =>
              /\ StatusAfter(f) = status + 1 /\ ReplyTo(f).tells = status + 1
              /\ Encodes(ReplyTo(f).length)
        /\ f.what # "advance" => StatusAfter(f) = status
    BY <1>4, <1>9, AnswersOf DEF MInv
  <2>2. status' <= FinalStatus
    BY <1>9, <2>1 DEF MuxAssumption
  <2>3. position' \in Places \union {Depot}
    BY <1>2, <1>9
  <2>4. Quiet(c, f) \/ Spoken(c, f)
    <3>1. CASE ~ Encodes(ReplyTo(f).length) /\ Ends(c)
      <4>1. status' = status
        BY <1>9, <2>1, <3>1
      <4>2. Quiet(c, f)
        BY <3>1, <4>1 DEF Quiet, Ends
      <4> QED
        BY <4>2
    <3>2. CASE /\ c \notin gone
               /\ replies' = [replies EXCEPT ![c] =
                      Append(@, [to |-> received[c] + 1, tells |-> ReplyTo(f).tells])]
               /\ UNCHANGED open
      <4>1. Spoken(c, f)
        BY <1>9, <2>1, <2>2, <3>2 DEF Spoken
      <4> QED
        BY <4>1
    <3>3. CASE c \in gone /\ (Ends(c) \/ UNCHANGED <<open, replies>>)
      <4>1. status' = status \/ status' = status + 1
        BY <1>9, <2>1
      <4>2. UNCHANGED replies /\ open' \in {open, open \ {c}}
        BY <3>3 DEF Ends
      <4>3. Quiet(c, f)
        BY <2>2, <3>3, <4>1, <4>2 DEF Quiet
      <4> QED
        BY <4>3
    <3>4. Answer(c, received[c] + 1, ReplyTo(f))
      BY <1>9
    <3> QED
      BY <3>1, <3>2, <3>3, <3>4 DEF Answer
  <2> QED
    BY <1>1, <1>3, <1>4, <2>3, <2>4 DEF f
<1> QED
  BY <1>5, <1>7, <1>8, <1>9

-----------------------------------------------------------------------------
(* Frames that were sent stay what they were.                              *)
FramesKept ==
    \A c \in Connections :
        /\ Len(sent[c]) <= Len(sent'[c])
        /\ \A n \in 1 .. Len(sent[c]) : sent'[c][n] = sent[c][n]

LEMMA RepliesName ==
    ASSUME MInv, FramesKept, NEW c \in Connections, NEW i \in DOMAIN replies[c]
    PROVE  /\ replies[c][i].to \in 1 .. received[c]
           /\ replies[c][i].to \in 1 .. Len(sent[c])
           /\ sent'[c][replies[c][i].to] = sent[c][replies[c][i].to]
<1>1. replies[c] \in Seq(Reply)
  BY DEF MInv, RepliesInv
<1>2. replies[c][i].to \in Nat \ {0}
  <2>1. replies[c][i] \in Reply
    BY <1>1, ElementOfSeq
  <2> QED
    BY <2>1 DEF Reply
<1>3. replies[c][i].to <= received[c] /\ received[c] <= Len(sent[c])
  BY DEF MInv, HandledInv
<1>4. received[c] \in Nat /\ Len(sent[c]) \in Nat
  BY DEF MInv, MuxTypeOK
<1>5. replies[c][i].to \in 1 .. received[c] /\ replies[c][i].to \in 1 .. Len(sent[c])
  BY <1>2, <1>3, <1>4
<1> QED
  BY <1>5 DEF FramesKept

(* A connection on which nothing was handled and nothing answered.         *)
LEMMA SameTurn ==
    ASSUME MInv, FramesKept, NEW c \in Connections,
           replies'[c] = replies[c], received'[c] = received[c], UNCHANGED handlers,
           gone \subseteq gone', open' \subseteq open, c \in open => c \in open' \/ c \in gone'
    PROVE  AnswersInTurn(c)'
<1>1. received[c] \in Nat /\ received[c] <= Len(sent[c]) /\ Len(sent[c]) \in Nat
  BY DEF MInv, MuxTypeOK, HandledInv
<1>2. \A n \in 1 .. received[c] : sent'[c][n] = sent[c][n]
  BY <1>1 DEF FramesKept
<1>3. Answerable(c)' = Answerable(c)
  BY <1>2 DEF Answerable
<1>4. AnswersInTurn(c)
  BY DEF MInv, TurnInv
<1> QED
  BY <1>3, <1>4 DEF AnswersInTurn

(* A step that answers nothing.  If it advances the order all the same,    *)
(* the client has left.                                                    *)
LEMMA SilentKeeps ==
    ASSUME MuxAssumption, MInv, FramesKept, UNCHANGED replies, gone \subseteq gone',
           status \in Nat, status' = status \/ (gone' # {} /\ status' = status + 1),
           \A c \in Connections : received'[c] \in Nat /\ received[c] <= received'[c]
                                       /\ received'[c] <= Len(sent'[c])
    PROVE  RepliesInv' /\ HandledInv' /\ AdvanceInv'
<1>1. RepliesInv'
  BY DEF MInv, RepliesInv
<1>2. HandledInv'
  <2> SUFFICES ASSUME NEW c \in Connections, NEW i \in DOMAIN replies[c]
               PROVE  replies[c][i].to <= received'[c]
    BY DEF HandledInv
  <2>1. replies[c][i].to \in 1 .. received[c]
    BY RepliesName
  <2>2. received[c] \in Nat /\ received'[c] \in Nat /\ received[c] <= received'[c]
    BY DEF MInv, MuxTypeOK
  <2> QED
    BY <2>1, <2>2
<1>3. \A c \in Connections : \A i \in DOMAIN replies[c] : IsAdvance(c, i)' = IsAdvance(c, i)
  BY RepliesName DEF IsAdvance
<1>4. Apart' /\ Reached'
  <2>1. Apart'
    BY <1>3 DEF MInv, AdvanceInv, Apart
  <2>2. Preparing + 1 .. status \subseteq Preparing + 1 .. status'
    BY DEF MuxAssumption
  <2>3. Reached'
    BY <1>3, <2>2 DEF MInv, AdvanceInv, Reached
  <2> QED
    BY <2>1, <2>3
<1>5. AllTold'
  <2> SUFFICES ASSUME gone' = {} PROVE AllTold'
    BY DEF AllTold
  <2>1. gone = {} /\ status' = status
    OBVIOUS
  <2> QED
    BY <1>3, <2>1 DEF MInv, AdvanceInv, AllTold
<1> QED
  BY <1>1, <1>2, <1>4, <1>5 DEF AdvanceInv

-----------------------------------------------------------------------------
(* A frame is handled and answered.                                        *)
LEMMA SpokenKeeps ==
    ASSUME MuxAssumption, MInv, NEW c \in Connections, NEW f \in Frames,
           f = sent[c][received[c] + 1], received[c] + 1 \in 1 .. Len(sent[c]),
           received' = [received EXCEPT ![c] = @ + 1], c \in open,
           UNCHANGED <<handlers, gone, sent>>, Spoken(c, f)
    PROVE  RepliesInv' /\ HandledInv' /\ TurnInv' /\ AdvanceInv'
<1> DEFINE n == received[c] + 1
<1> DEFINE m == Len(replies[c])
<1>1. PICK t \in Said :
        /\ replies' = [replies EXCEPT ![c] = Append(@, [to |-> n, tells |-> t])]
        /\ f.what = "advance" => t = status + 1
  BY DEF Spoken
<1>2. /\ replies \in [Connections -> Seq(Reply)]
      /\ received \in [Connections -> Nat] /\ sent \in [Connections -> Seq(Frames)]
      /\ status \in Preparing .. FinalStatus
  BY DEF MInv, RepliesInv, MuxTypeOK
<1>3. n \in Nat \ {0} /\ [to |-> n, tells |-> t] \in Reply
  BY <1>2 DEF Reply
<1>4. RepliesInv'
  BY <1>1, <1>2, <1>3 DEF RepliesInv
<1>5. /\ replies'[c] = Append(replies[c], [to |-> n, tells |-> t])
      /\ DOMAIN replies[c] = 1 .. m /\ m \in Nat /\ DOMAIN replies'[c] = 1 .. m + 1
      /\ \A i \in 1 .. m : replies'[c][i] = replies[c][i]
      /\ replies'[c][m + 1] = [to |-> n, tells |-> t]
  <2>1. replies[c] \in Seq(Reply)
    BY <1>2
  <2>2. replies'[c] = Append(replies[c], [to |-> n, tells |-> t])
    BY <1>1, <1>2
  <2> QED
    BY <1>3, <2>1, <2>2
<1>6. \A d \in Connections \ {c} : replies'[d] = replies[d] /\ received'[d] = received[d]
  BY <1>1, <1>2
<1>7. received'[c] = n /\ n <= Len(sent[c])
  BY <1>2
<1>8. FramesKept
  BY <1>2 DEF FramesKept
<1> HIDE DEF n, m
<1>9. \A i \in 1 .. m : replies[c][i].to \in 1 .. received[c]
  BY <1>5, <1>8, RepliesName
<1>10. HandledInv'
  <2>1. ASSUME NEW d \in Connections, NEW i \in DOMAIN replies'[d]
        PROVE  replies'[d][i].to <= received'[d]
    <3>1. CASE d # c
      BY <1>6, <2>1, <3>1 DEF MInv, HandledInv
    <3>2. CASE d = c /\ i \in 1 .. m
      <4>1. replies'[d][i].to \in 1 .. received[c]
        BY <1>5, <1>9, <3>2
      <4> QED
        BY <1>2, <1>7, <3>2, <4>1 DEF n
    <3>3. CASE d = c /\ i = m + 1
      BY <1>3, <1>5, <1>7, <3>3
    <3>4. d = c => i \in 1 .. m \/ i = m + 1
      BY <1>5, <2>1
    <3> QED
      BY <3>1, <3>2, <3>3, <3>4
  <2>2. \A d \in Connections : received'[d] <= Len(sent'[d])
    BY <1>6, <1>7 DEF MInv, HandledInv
  <2> QED
    BY <2>1, <2>2 DEF HandledInv
<1>11. AnswersInTurn(c)'
  <2>1. \A i, j \in 1 .. m : i < j => replies[c][i].to < replies[c][j].to
    BY <1>5 DEF MInv, TurnInv, AnswersInTurn
  <2>2. ASSUME NEW i \in DOMAIN replies'[c], NEW j \in DOMAIN replies'[c], i < j
        PROVE  replies'[c][i].to < replies'[c][j].to
    <3>1. CASE j \in 1 .. m
      <4>1. i \in 1 .. m
        BY <1>5, <2>2, <3>1
      <4> QED
        BY <1>5, <2>1, <2>2, <3>1, <4>1
    <3>2. CASE j = m + 1
      <4>1. i \in 1 .. m
        BY <1>5, <2>2, <3>2
      <4>2. replies'[c][i].to \in 1 .. received[c]
        BY <1>5, <1>9, <4>1
      <4>3. replies'[c][j].to = n
        BY <1>5, <3>2
      <4> QED
        BY <1>2, <4>2, <4>3 DEF n
    <3>3. j \in 1 .. m \/ j = m + 1
      BY <1>5, <2>2
    <3> QED
      BY <3>1, <3>2, <3>3
  <2>3. ASSUME c \notin gone, NEW k \in Answerable(c)'
        PROVE  \E i \in DOMAIN replies'[c] : replies'[c][i].to = k
    <3>1. k \in 1 .. n /\ sent[c][k].type \in handlers
      BY <1>7, <2>3 DEF Answerable
    <3>2. CASE k = n
      BY <1>5, <3>2
    <3>3. CASE k # n
      <4>1. k \in 1 .. received[c]
        BY <1>2, <3>1, <3>3 DEF n
      <4>2. k \in Answerable(c)
        BY <3>1, <4>1 DEF Answerable
      <4>3. PICK i \in DOMAIN replies[c] : replies[c][i].to = k
        BY <2>3, <4>2 DEF MInv, TurnInv, AnswersInTurn
      <4> QED
        BY <1>5, <4>3
    <3> QED
      BY <3>2, <3>3
  <2> QED
    BY <2>2, <2>3 DEF AnswersInTurn
<1>12. TurnInv'
  <2>1. ASSUME NEW d \in Connections, d # c PROVE AnswersInTurn(d)'
    <3>1. replies'[d] = replies[d] /\ received'[d] = received[d]
      BY <1>6, <2>1
    <3>2. open' = open /\ gone' = gone
      BY DEF Spoken
    <3> QED
      BY <1>8, <3>1, <3>2, SameTurn
  <2> QED
    BY <1>11, <2>1 DEF TurnInv
<1> DEFINE AdvanceNow(d, i) == sent[d][replies'[d][i].to].what = "advance"
<1> HIDE DEF AdvanceNow
<1>13. \A d \in Connections : \A i \in DOMAIN replies[d] :
          /\ i \in DOMAIN replies'[d] /\ replies'[d][i] = replies[d][i]
          /\ AdvanceNow(d, i) = IsAdvance(d, i)
  <2> SUFFICES ASSUME NEW d \in Connections, NEW i \in DOMAIN replies[d]
               PROVE  /\ i \in DOMAIN replies'[d] /\ replies'[d][i] = replies[d][i]
                      /\ AdvanceNow(d, i) = IsAdvance(d, i)
    OBVIOUS
  <2>1. i \in DOMAIN replies'[d] /\ replies'[d][i] = replies[d][i]
    <3>1. CASE d = c
      BY <1>5, <3>1
    <3>2. CASE d # c
      BY <1>6, <3>2
    <3> QED
      BY <3>1, <3>2
  <2> QED
    BY <2>1 DEF IsAdvance, AdvanceNow
<1>14. \A d \in Connections : \A i \in DOMAIN replies'[d] :
          i \in DOMAIN replies[d] \/ (d = c /\ i = m + 1)
  BY <1>5, <1>6
<1>15. /\ m + 1 \in DOMAIN replies'[c] /\ replies'[c][m + 1].tells = t
       /\ AdvanceNow(c, m + 1) <=> f.what = "advance"
  <2>1. replies'[c][m + 1].to = n /\ replies'[c][m + 1].tells = t
    BY <1>5
  <2>2. f = sent[c][n]
    BY DEF n
  <2> QED
    BY <1>5, <2>1, <2>2 DEF AdvanceNow
<1>16. /\ f.what = "advance" => t = status + 1 /\ status' = status + 1
       /\ f.what # "advance" => status' = status
  BY <1>1 DEF Spoken, StatusAfter
<1>17. status \in Nat /\ Preparing \in Nat /\ Preparing <= status
  BY <1>2 DEF MuxAssumption
<1>18. \A d \in Connections : \A i \in DOMAIN replies[d] :
          IsAdvance(d, i) => replies[d][i].tells \in Preparing + 1 .. status
  BY DEF MInv, AdvanceInv, Reached
<1>19. Reached'
  <2> SUFFICES ASSUME NEW d \in Connections, NEW i \in DOMAIN replies'[d], AdvanceNow(d, i)
               PROVE  replies'[d][i].tells \in Preparing + 1 .. status'
    BY DEF Reached, IsAdvance, AdvanceNow
  <2>1. CASE i \in DOMAIN replies[d]
    <3>1. replies'[d][i].tells \in Preparing + 1 .. status
      BY <1>13, <1>18, <2>1
    <3> QED
      BY <1>16, <1>17, <3>1
  <2>2. CASE d = c /\ i = m + 1
    BY <1>15, <1>16, <1>17, <2>2
  <2> QED
    BY <1>14, <2>1, <2>2
<1>20. Apart'
  <2>1. ASSUME NEW d \in Connections, NEW i \in DOMAIN replies[d], IsAdvance(d, i),
               f.what = "advance"
        PROVE  replies[d][i].tells # t
    <3>1. replies[d][i].tells \in Preparing + 1 .. status
      BY <1>18, <2>1
    <3> QED
      BY <1>16, <1>17, <2>1, <3>1
  <2> SUFFICES ASSUME NEW d \in Connections, NEW e \in Connections,
                      NEW i \in DOMAIN replies'[d], NEW j \in DOMAIN replies'[e],
                      AdvanceNow(d, i), AdvanceNow(e, j), d # e \/ i # j
               PROVE  replies'[d][i].tells # replies'[e][j].tells
    BY DEF Apart, IsAdvance, AdvanceNow
  <2>2. CASE i \in DOMAIN replies[d] /\ j \in DOMAIN replies[e]
    BY <1>13, <2>2 DEF MInv, AdvanceInv, Apart
  <2>3. CASE i \in DOMAIN replies[d] /\ e = c /\ j = m + 1
    BY <1>13, <1>15, <2>1, <2>3
  <2>4. CASE d = c /\ i = m + 1 /\ j \in DOMAIN replies[e]
    BY <1>13, <1>15, <2>1, <2>4
  <2> QED
    BY <1>14, <2>2, <2>3, <2>4
<1>21. AllTold'
  <2> SUFFICES ASSUME gone = {}, NEW s \in Preparing + 1 .. status'
               PROVE  \E d \in Connections : \E i \in DOMAIN replies'[d] :
                          AdvanceNow(d, i) /\ replies'[d][i].tells = s
    BY DEF AllTold, IsAdvance, AdvanceNow
  <2>1. CASE s \in Preparing + 1 .. status
    <3>1. PICK d \in Connections : \E i \in DOMAIN replies[d] :
              IsAdvance(d, i) /\ replies[d][i].tells = s
      BY <2>1 DEF MInv, AdvanceInv, AllTold
    <3> QED
      BY <1>13, <3>1
  <2>2. CASE s \notin Preparing + 1 .. status
    <3>1. f.what = "advance" /\ s = t
      BY <1>16, <1>17, <2>2
    <3> QED
      BY <1>15, <3>1
  <2> QED
    BY <2>1, <2>2
<1> QED
  BY <1>4, <1>10, <1>12, <1>19, <1>20, <1>21 DEF AdvanceInv

-----------------------------------------------------------------------------
LEMMA HandleKeeps ==
    ASSUME MuxAssumption, MInv, NEW c \in Connections, Handle(c)
    PROVE  MInv'
<1> DEFINE f == sent[c][received[c] + 1]
<1>1. /\ c \in open /\ f \in Frames /\ received[c] + 1 \in 1 .. Len(sent[c])
      /\ received' = [received EXCEPT ![c] = @ + 1]
      /\ position' \in Places \union {Depot}
      /\ UNCHANGED <<handlers, gone, sent, read>>
      /\ Quiet(c, f) \/ Spoken(c, f)
  BY HandleShape
<1>2. /\ received \in [Connections -> Nat] /\ sent \in [Connections -> Seq(Frames)]
      /\ status \in Preparing .. FinalStatus /\ status \in Nat
  BY DEF MInv, MuxTypeOK, MuxAssumption
<1>3. FramesKept
  BY <1>1, <1>2 DEF FramesKept
<1>4. Preparing \in Nat /\ FinalStatus \in Nat
  BY DEF MuxAssumption
<1> HIDE DEF f
<1>5. status' \in Preparing .. FinalStatus /\ open' \subseteq open
  <2>1. CASE Quiet(c, f)
    BY <1>2, <1>4, <2>1 DEF Quiet
  <2>2. CASE Spoken(c, f)
    <3>1. status' = status \/ status' = status + 1
      BY <2>2 DEF Spoken, StatusAfter
    <3> QED
      BY <1>2, <1>4, <2>2, <3>1 DEF Spoken
  <2> QED
    BY <1>1, <2>1, <2>2
<1>6. MuxTypeOK'
  BY <1>1, <1>5 DEF MInv, MuxTypeOK
<1>7. CASE Quiet(c, f)
  <2>1. \A d \in Connections : /\ received'[d] \in Nat /\ received[d] <= received'[d]
                               /\ received'[d] <= Len(sent'[d])
    BY <1>1, <1>2 DEF MInv, HandledInv
  <2>2. status' = status \/ (gone' # {} /\ status' = status + 1)
    BY <1>1, <1>7 DEF Quiet
  <2>3. UNCHANGED replies
    BY <1>7 DEF Quiet
  <2>4. RepliesInv' /\ HandledInv' /\ AdvanceInv'
    BY <1>1, <1>2, <1>3, <2>1, <2>2, <2>3, SilentKeeps
  <2>5. ASSUME NEW d \in Connections, d # c PROVE AnswersInTurn(d)'
    <3>1. received'[d] = received[d] /\ replies'[d] = replies[d]
      BY <1>1, <1>2, <2>3, <2>5
    <3>2. d \in open => d \in open'
      BY <1>7, <2>5 DEF Quiet
    <3> QED
      BY <1>1, <1>3, <1>5, <3>1, <3>2, SameTurn
  <2>6. AnswersInTurn(c)'
    <3>1. \A i, j \in DOMAIN replies'[c] : i < j => replies'[c][i].to < replies'[c][j].to
      BY <2>3 DEF MInv, TurnInv, AnswersInTurn
    <3>2. ASSUME c \notin gone, NEW k \in Answerable(c)'
          PROVE  \/ \E i \in DOMAIN replies[c] : replies[c][i].to = k
                 \/ c \notin open' /\ k = received'[c]
      <4>1. received'[c] = received[c] + 1 /\ received[c] \in Nat
        BY <1>1, <1>2
      <4>2. k \in 1 .. received[c] + 1 /\ sent[c][k].type \in handlers
        BY <1>1, <3>2, <4>1 DEF Answerable
      <4>3. CASE k = received[c] + 1
        BY <1>7, <3>2, <4>1, <4>2, <4>3 DEF Quiet, f
      <4>4. CASE k # received[c] + 1
        <5>1. k \in 1 .. received[c]
          BY <4>1, <4>2, <4>4
        <5>2. k \in Answerable(c)
          BY <4>2, <5>1 DEF Answerable
        <5> QED
          BY <1>1, <3>2, <5>2 DEF MInv, TurnInv, AnswersInTurn
      <4> QED
        BY <4>3, <4>4
    <3> QED
      BY <1>1, <2>3, <3>1, <3>2 DEF AnswersInTurn
  <2> QED
    BY <1>6, <2>4, <2>5, <2>6 DEF MInv, TurnInv
<1>8. CASE Spoken(c, f)
  <2>1. f = sent[c][received[c] + 1]
    BY DEF f
  <2>2. RepliesInv' /\ HandledInv' /\ TurnInv' /\ AdvanceInv'
    BY <1>1, <1>8, <2>1, SpokenKeeps
  <2> QED
    BY <1>6, <2>2 DEF MInv
<1> QED
  BY <1>1, <1>7, <1>8

(* The other steps handle nothing and answer nothing.                      *)
LEMMA OthersKeep ==
    ASSUME MuxAssumption, MInv, MuxTypeOK', FramesKept,
           UNCHANGED <<handlers, status, received, replies>>,
           gone \subseteq gone', open' \subseteq open, open \subseteq open' \union gone'
    PROVE  MInv'
<1>1. \A c \in Connections : /\ received'[c] \in Nat /\ received[c] <= received'[c]
                             /\ received'[c] <= Len(sent'[c])
  <2> SUFFICES ASSUME NEW c \in Connections
               PROVE  received[c] \in Nat /\ received[c] <= received[c] /\ received[c] <= Len(sent'[c])
    OBVIOUS
  <2>1. received[c] \in Nat /\ Len(sent[c]) \in Nat /\ Len(sent'[c]) \in Nat
    BY DEF MInv, MuxTypeOK
  <2>2. received[c] <= Len(sent[c]) /\ Len(sent[c]) <= Len(sent'[c])
    BY DEF MInv, HandledInv, FramesKept
  <2> QED
    BY <2>1, <2>2
<1>2. status \in Nat
  BY DEF MInv, MuxTypeOK, MuxAssumption
<1>3. RepliesInv' /\ HandledInv' /\ AdvanceInv'
  BY <1>1, <1>2, SilentKeeps
<1>4. TurnInv'
  <2>1. ASSUME NEW c \in Connections PROVE AnswersInTurn(c)'
    BY SameTurn
  <2> QED
    BY <2>1 DEF TurnInv
<1> QED
  BY <1>3, <1>4 DEF MInv

LEMMA MuxStep == MuxAssumption /\ MInv /\ [MuxNext]_muxVars => MInv'
<1> SUFFICES ASSUME MuxAssumption, MInv, [MuxNext]_muxVars PROVE MInv'
  OBVIOUS
<1> USE DEF MuxTypeOK
<1>1. /\ sent \in [Connections -> Seq(Frames)] /\ read \in [Connections -> Nat]
      /\ open \subseteq Connections /\ gone \subseteq Connections
  BY DEF MInv
<1>2. ASSUME NEW c \in Connections, NEW g \in Frames, SendFrame(c, g) PROVE MInv'
  <2>1. sent' = [sent EXCEPT ![c] = Append(@, g)]
        /\ UNCHANGED <<handlers, status, position, open, gone, received, replies, read>>
    BY <1>2 DEF SendFrame
  <2>2. sent' \in [Connections -> Seq(Frames)]
    BY <1>1, <2>1
  <2>3. FramesKept
    <3> SUFFICES ASSUME NEW d \in Connections
                 PROVE  /\ Len(sent[d]) <= Len(sent'[d])
                        /\ \A n \in 1 .. Len(sent[d]) : sent'[d][n] = sent[d][n]
      BY DEF FramesKept
    <3>1. sent[d] \in Seq(Frames) /\ sent'[d] \in {sent[d], Append(sent[d], g)}
      BY <1>1, <2>1
    <3> QED
      BY <3>1
  <2>4. MuxTypeOK'
    BY <2>1, <2>2 DEF MInv
  <2> QED
    BY <2>1, <2>3, <2>4, OthersKeep
<1>3. ASSUME NEW c \in Connections, ReadReply(c) PROVE MInv'
  <2>1. read' = [read EXCEPT ![c] = @ + 1]
        /\ UNCHANGED <<handlers, status, position, open, gone, sent, received, replies>>
    BY <1>3 DEF ReadReply
  <2>2. MuxTypeOK'
    BY <1>1, <2>1 DEF MInv
  <2>3. FramesKept
    BY <1>1, <2>1 DEF FramesKept
  <2> QED
    BY <2>1, <2>2, <2>3, OthersKeep
<1>4. ASSUME NEW c \in Connections, Close(c) PROVE MInv'
  <2>1. gone' = gone \union {c}
        /\ UNCHANGED <<handlers, status, position, open, sent, received, replies, read>>
    BY <1>4 DEF Close
  <2>2. MuxTypeOK'
    BY <1>1, <2>1 DEF MInv
  <2>3. FramesKept
    BY <1>1, <2>1 DEF FramesKept
  <2> QED
    BY <2>1, <2>2, <2>3, OthersKeep
<1>5. ASSUME NEW c \in Connections, Handle(c) PROVE MInv'
  BY <1>5, HandleKeeps
<1>6. ASSUME NEW c \in Connections, Disconnected(c) PROVE MInv'
  <2>1. /\ c \in gone /\ open' = open \ {c}
        /\ UNCHANGED <<handlers, status, position, gone, sent, received, replies, read>>
    BY <1>6 DEF Disconnected, Ends
  <2>2. MuxTypeOK'
    BY <1>1, <2>1 DEF MInv
  <2>3. FramesKept
    BY <1>1, <2>1 DEF FramesKept
  <2> QED
    BY <2>1, <2>2, <2>3, OthersKeep
<1>7. CASE UNCHANGED muxVars
  <2>1. UNCHANGED <<handlers, status, position, open, gone, sent, received, replies, read>>
    BY <1>7 DEF muxVars
  <2>2. MuxTypeOK'
    BY <2>1 DEF MInv
  <2>3. FramesKept
    BY <1>1, <2>1 DEF FramesKept
  <2> QED
    BY <2>1, <2>2, <2>3, OthersKeep
<1> QED
  BY <1>2, <1>3, <1>4, <1>5, <1>6, <1>7 DEF MuxNext

-----------------------------------------------------------------------------
(* Every reachable state of the server, the driver's position and the      *)
(* order's status included, is well typed.                                 *)
THEOREM MuxTyped == MuxSpec => []MuxTypeOK
<1>1. MuxInit => MInv
  BY MuxAssumption, MuxStart
<1>2. MInv /\ [MuxNext]_muxVars => MInv'
  BY MuxAssumption, MuxStep
<1>3. MInv => MuxTypeOK
  BY DEF MInv
<1> QED
  BY <1>1, <1>2, <1>3, PTL DEF MuxSpec

(* Whatever the interleaving of connections, the answers on each come in   *)
(* the order of its frames with none left out but the last, and every      *)
(* advance of the shared order is told exactly once.                       *)
THEOREM AnswersAreMatched == MuxSpec => []MuxAnswersMatch
<1>1. MuxInit => MInv
  BY MuxAssumption, MuxStart
<1>2. MInv /\ [MuxNext]_muxVars => MInv'
  BY MuxAssumption, MuxStep
<1>3. MInv => MuxAnswersMatch
  BY AdvancesAreTold DEF MInv, TurnInv, MuxAnswersMatch
<1> QED
  BY <1>1, <1>2, <1>3, PTL DEF MuxSpec

-----------------------------------------------------------------------------
(***************************************************************************)
(* Proofs about the sidecar proxy of chapter 10, for any set of requests,  *)
(* any bucket and any corrections of the clock.                            *)
(***************************************************************************)

(* How far a request has come tells whether the service has handled it,    *)
(* and no request gets beyond the auth check unless it passes it.          *)
StageInv ==
    \A r \in Requests :
        /\ stage[r] \notin {"new", "401"} => PassesAuth(r)
        /\ stage[r] \in {"done", "answered"} => served[r] = 1
        /\ stage[r] \in Stages \ {"done", "answered", "502"} => served[r] = 0
        /\ served[r] \in 0 .. 1

Placers == {r \in Requests : r.path = "place" /\ served[r] = 1}
OrdersInv == Len(orders) = Cardinality(Placers)

(* What the requests of address c from the i-th admitted one to the last   *)
(* have used, with what is left, is no more than a full bucket and the     *)
(* refill since.  (refilled[c] + back is at least the time that had passed *)
(* at the last refill, as back only grows.)                                *)
Used(k) == k * Cost
Paid(c, i) ==
    Used(Len(admitted[c]) - i + 1) + bucket[c]
        <= MaxTokens + ((refilled[c] + back) - admitted[c][i])

BucketInv ==
    \A c \in Addresses :
        /\ bucket[c] = NoBucket => admitted[c] = <<>>
        /\ bucket[c] # NoBucket => \A i \in 1 .. Len(admitted[c]) : Paid(c, i)

PInv == SidecarTypeOK /\ StageInv /\ OrdersInv /\ BucketInv /\ RateBounded

-----------------------------------------------------------------------------
LEMMA SidecarStart == SidecarAssumption /\ SidecarInit => PInv
<1> SUFFICES ASSUME SidecarAssumption, SidecarInit PROVE PInv
  OBVIOUS
<1>1. SidecarTypeOK
  BY DEF SidecarInit, SidecarTypeOK, SidecarAssumption, Stages
<1>2. StageInv
  BY DEF SidecarInit, StageInv
<1>3. Placers = {} /\ Len(orders) = 0
  BY DEF SidecarInit, Placers
<1>4. OrdersInv
  BY <1>3, FS_EmptySet DEF OrdersInv
<1>5. BucketInv /\ RateBounded
  BY DEF SidecarInit, BucketInv, RateBounded
<1> QED
  BY <1>1, <1>2, <1>4, <1>5 DEF PInv

-----------------------------------------------------------------------------
(* A refill adds no more than the time that has passed, of which a clock    *)
(* that is set back tells too little.                                       *)
LEMMA RefillPays ==
    ASSUME NEW c, NEW used \in Int, NEW first \in Int, NEW max \in Int,
           bucket[c] \in Int, refilled[c] \in Int, clock \in Int, back \in Int,
           Refill(c) \in Int,
           used + bucket[c] <= max + ((refilled[c] + back) - first),
           Refill(c) <= bucket[c] + (clock - refilled[c])
    PROVE  used + Refill(c) <= max + ((clock + back) - first)
OBVIOUS

LEMMA WithoutRest ==
    ASSUME NEW used \in Int, NEW rest \in Int, NEW limit \in Int,
           rest >= 0, used + rest <= limit
    PROVE  used <= limit
OBVIOUS

LEMMA LagGrows ==
    ASSUME NEW used \in Int, NEW max \in Int, NEW at \in Int, NEW first \in Int,
           NEW lag \in Int, NEW more \in Int, more >= lag,
           used <= max + ((at + lag) - first)
    PROVE  used <= max + ((at + more) - first)
OBVIOUS

LEMMA UsedSums ==
    ASSUME SidecarAssumption
    PROVE  /\ \A k \in Int : Used(k) \in Int /\ Used(k + 1) = Used(k) + Cost
           /\ Used(1) = Cost
<1>1. Cost \in Int
  BY DEF SidecarAssumption
<1>2. \A k \in Int : k * Cost \in Int /\ (k + 1) * Cost = k * Cost + Cost
  BY <1>1
<1> QED
  BY <1>1, <1>2 DEF Used

(* A request only reads and refills the bucket of its own address, and what *)
(* is left of it after the refill is never more than a full bucket.         *)
LEMMA RefillBounds ==
    ASSUME SidecarAssumption, SidecarTypeOK, NEW c \in Addresses
    PROVE  /\ Refill(c) \in Int /\ Refill(c) <= MaxTokens
           /\ bucket[c] # NoBucket => Refill(c) <= bucket[c] + (clock - refilled[c])
<1>1. MaxTokens \in Nat /\ clock \in Int /\ refilled[c] \in Int
  BY DEF SidecarAssumption, SidecarTypeOK
<1>2. CASE bucket[c] = NoBucket
  BY <1>1, <1>2 DEF Refill
<1>3. CASE bucket[c] # NoBucket
  <2>1. bucket[c] \in Int
    BY <1>3 DEF SidecarTypeOK
  <2> QED
    BY <1>1, <1>3, <2>1 DEF Refill
<1> QED
  BY <1>2, <1>3

LEMMA ConsumeKeeps ==
    ASSUME SidecarAssumption, SidecarTypeOK, BucketInv, RateBounded,
           NEW c \in Addresses, Consume(c), UNCHANGED <<clock, back>>
    PROVE  /\ bucket' \in [Addresses -> Int \cup {NoBucket}]
           /\ refilled' \in [Addresses -> Int]
           /\ admitted' \in [Addresses -> Seq(Int)]
           /\ BucketInv' /\ RateBounded'
<1> DEFINE n == Len(admitted[c])
<1> DEFINE T == clock + back
<1>1. /\ clock \in Int /\ back \in Int /\ Cost \in Nat \ {0} /\ MaxTokens \in Nat
      /\ bucket \in [Addresses -> Int \cup {NoBucket}]
      /\ refilled \in [Addresses -> Int]
      /\ admitted \in [Addresses -> Seq(Int)]
      /\ NoBucket \notin Int
      /\ n \in Nat /\ T \in Int
  BY DEF SidecarAssumption, SidecarTypeOK
<1>2. /\ Refill(c) \in Int /\ Refill(c) <= MaxTokens
      /\ bucket[c] # NoBucket => Refill(c) <= bucket[c] + (clock - refilled[c])
  BY RefillBounds
<1>3. /\ refilled' = [refilled EXCEPT ![c] = clock]
      /\ \/ /\ Refill(c) >= Cost
            /\ bucket' = [bucket EXCEPT ![c] = Refill(c) - Cost]
            /\ admitted' = [admitted EXCEPT ![c] = Append(@, T)]
         \/ /\ bucket' = [bucket EXCEPT ![c] = Refill(c)]
            /\ admitted' = admitted
  BY DEF Consume
<1> HIDE DEF T
<1>4. \A i \in 1 .. n : admitted[c][i] \in Int
  BY <1>1, ElementOfSeq
(* What had been paid for before the refill is still paid for after it.    *)
<1>5. \A i \in 1 .. n : Used(n - i + 1) + Refill(c) <= MaxTokens + (T - admitted[c][i])
  <2> SUFFICES ASSUME NEW i \in 1 .. n
               PROVE  Used(n - i + 1) + Refill(c) <= MaxTokens + (T - admitted[c][i])
    OBVIOUS
  <2>1. bucket[c] # NoBucket
    BY <1>1 DEF BucketInv
  <2>2. Paid(c, i) /\ bucket[c] \in Int /\ refilled[c] \in Int
    BY <1>1, <2>1 DEF BucketInv
  <2>3. Used(n - i + 1) \in Int
    BY <1>1, UsedSums
  <2>4. Used(n - i + 1) + bucket[c] <= MaxTokens + ((refilled[c] + back) - admitted[c][i])
    BY <2>2 DEF Paid
  <2>5. Refill(c) <= bucket[c] + (clock - refilled[c])
    BY <1>2, <2>1
  <2>6. /\ Refill(c) \in Int /\ bucket[c] \in Int /\ refilled[c] \in Int
        /\ clock \in Int /\ back \in Int /\ MaxTokens \in Int /\ admitted[c][i] \in Int
    BY <1>1, <1>2, <1>4, <2>2
  <2> DEFINE used == Used(n - i + 1)
  <2> DEFINE first == admitted[c][i]
  <2>7. /\ used \in Int /\ first \in Int
        /\ used + bucket[c] <= MaxTokens + ((refilled[c] + back) - first)
    BY <2>3, <2>4, <2>6
  <2> HIDE DEF used, first
  <2>8. used + Refill(c) <= MaxTokens + ((clock + back) - first)
    BY <2>5, <2>6, <2>7, RefillPays, Zenon
  <2> QED
    BY <2>8 DEF T, used, first
<1>6. /\ \A d \in Addresses \ {c} :
            bucket'[d] = bucket[d] /\ refilled'[d] = refilled[d] /\ admitted'[d] = admitted[d]
      /\ refilled'[c] = clock
  BY <1>1, <1>3
<1>7. CASE Refill(c) >= Cost /\ bucket' = [bucket EXCEPT ![c] = Refill(c) - Cost]
             /\ admitted' = [admitted EXCEPT ![c] = Append(@, T)]
  <2>1. /\ bucket'[c] = Refill(c) - Cost
        /\ bucket'[c] \in Int
        /\ Len(admitted'[c]) = n + 1
        /\ admitted'[c][n + 1] = T
        /\ \A i \in 1 .. n : admitted'[c][i] = admitted[c][i]
    BY <1>1, <1>2, <1>7
  <2>2. /\ bucket' \in [Addresses -> Int \cup {NoBucket}]
        /\ refilled' \in [Addresses -> Int]
        /\ admitted' \in [Addresses -> Seq(Int)]
    BY <1>1, <1>2, <1>3, <1>7
  <2>3. \A i \in 1 .. n :
           Used(n - i + 1) \in Int /\ Used((n + 1) - i + 1) = Used(n - i + 1) + Cost
    <3> SUFFICES ASSUME NEW i \in 1 .. n
                 PROVE  /\ Used(n - i + 1) \in Int
                        /\ Used((n + 1) - i + 1) = Used(n - i + 1) + Cost
      OBVIOUS
    <3>1. n - i + 1 \in Int /\ (n + 1) - i + 1 = (n - i + 1) + 1
      BY <1>1
    <3> QED
      BY <3>1, UsedSums
  <2>4. \A i \in 1 .. n + 1 :
           Used((n + 1) - i + 1) + bucket'[c] <= MaxTokens + (T - admitted'[c][i])
    <3> SUFFICES ASSUME NEW i \in 1 .. n + 1
                 PROVE  Used((n + 1) - i + 1) + bucket'[c] <= MaxTokens + (T - admitted'[c][i])
      OBVIOUS
    <3>1. CASE i = n + 1
      <4>1. (n + 1) - i + 1 = 1
        BY <1>1, <3>1
      <4>2. Used((n + 1) - i + 1) = Cost
        BY <4>1, UsedSums
      <4>3. admitted'[c][i] = T
        BY <2>1, <3>1
      <4> QED
        BY <1>1, <1>2, <2>1, <4>2, <4>3
    <3>2. CASE i \in 1 .. n
      <4>1. Used(n - i + 1) \in Int /\ Used((n + 1) - i + 1) = Used(n - i + 1) + Cost
        BY <2>3, <3>2
      <4>2. Used(n - i + 1) + Refill(c) <= MaxTokens + (T - admitted[c][i])
        BY <1>5, <3>2
      <4>3. admitted'[c][i] = admitted[c][i] /\ admitted[c][i] \in Int
        BY <1>4, <2>1, <3>2
      <4> QED
        BY <1>1, <1>2, <2>1, <4>1, <4>2, <4>3
    <3> QED
      BY <1>1, <3>1, <3>2
  <2>5. BucketInv'
    <3>1. ASSUME NEW d \in Addresses \ {c}
          PROVE  /\ bucket'[d] = NoBucket => admitted'[d] = <<>>
                 /\ bucket'[d] # NoBucket => \A i \in 1 .. Len(admitted'[d]) : Paid(d, i)'
      BY <1>6, <3>1 DEF BucketInv, Paid
    <3>2. bucket'[c] # NoBucket
      BY <1>1, <2>1
    <3>3. \A i \in 1 .. Len(admitted'[c]) : Paid(c, i)'
      <4>1. refilled'[c] + back' = T
        BY <1>6 DEF T
      <4>2. Len(admitted'[c]) = n + 1
        BY <2>1
      <4>3. ASSUME NEW i \in 1 .. n + 1
            PROVE  Used(Len(admitted'[c]) - i + 1) + bucket'[c]
                     <= MaxTokens + ((refilled'[c] + back') - admitted'[c][i])
        BY <2>4, <4>1, <4>2, Zenon
      <4>4. ASSUME NEW i \in 1 .. n + 1 PROVE Paid(c, i)'
        BY <4>3 DEF Paid, Used
      <4> QED
        BY <4>2, <4>4, Zenon

    <3> QED
      BY <3>1, <3>2, <3>3 DEF BucketInv
  <2>6. RateBounded'
    <3> SUFFICES ASSUME NEW d \in Addresses, NEW i \in DOMAIN admitted'[d],
                        NEW j \in DOMAIN admitted'[d], i <= j
                 PROVE  (j - i + 1) * Cost <= MaxTokens + (admitted'[d][j] - admitted'[d][i])
      BY DEF RateBounded
    <3>1. CASE d # c
      BY <1>6, <3>1 DEF RateBounded
    <3>2. CASE d = c
      <4>1. i \in 1 .. n + 1 /\ j \in 1 .. n + 1
        <5>1. admitted'[c] \in Seq(Int)
          BY <2>2
        <5>2. DOMAIN admitted'[c] = 1 .. Len(admitted'[c])
          BY <5>1, LenProperties
        <5>3. Len(admitted'[c]) = n + 1
          BY <2>1
        <5>4. i \in DOMAIN admitted'[c] /\ j \in DOMAIN admitted'[c]
          BY <3>2
        <5> QED
          BY <5>2, <5>3, <5>4
      <4>2. CASE j = n + 1
        <5>1. Used((n + 1) - i + 1) \in Int
          <6>1. (n + 1) - i + 1 \in Int
            BY <1>1, <4>1
          <6> QED
            BY <6>1, UsedSums
        <5>2. Used((n + 1) - i + 1) + bucket'[c] <= MaxTokens + (T - admitted'[c][i])
          BY <2>4, <4>1
        <5>3. admitted'[c][i] \in Int
          BY <2>2, <4>1, <2>1, ElementOfSeq
        <5>4. bucket'[c] >= 0
          BY <1>1, <1>2, <1>7, <2>1
        <5>5. Used((n + 1) - i + 1) <= MaxTokens + (T - admitted'[c][i])
          <6>1. MaxTokens + (T - admitted'[c][i]) \in Int
            BY <1>1, <5>3
          <6> QED
            BY <2>1, <5>1, <5>2, <5>4, <6>1, WithoutRest, Zenon
        <5> QED
          BY <2>1, <3>2, <4>2, <5>5 DEF Used
      <4>3. CASE j \in 1 .. n
        <5>1. i \in 1 .. n
          BY <1>1, <4>1, <4>3
        <5>2. i \in DOMAIN admitted[c] /\ j \in DOMAIN admitted[c]
          BY <1>1, <4>3, <5>1
        <5> QED
          BY <2>1, <3>2, <4>3, <5>1, <5>2 DEF RateBounded
      <4>4. j = n + 1 \/ j \in 1 .. n
        BY <1>1, <4>1
      <4> QED
        BY <4>2, <4>3, <4>4
    <3> QED
      BY <3>1, <3>2
  <2> QED
    BY <2>2, <2>5, <2>6
<1>8. CASE bucket' = [bucket EXCEPT ![c] = Refill(c)] /\ admitted' = admitted
  <2>1. /\ bucket' \in [Addresses -> Int \cup {NoBucket}]
        /\ refilled' \in [Addresses -> Int]
        /\ bucket'[c] = Refill(c)
    BY <1>1, <1>2, <1>3, <1>8
  <2>2. BucketInv'
    <3>1. ASSUME NEW d \in Addresses \ {c}
          PROVE  /\ bucket'[d] = NoBucket => admitted'[d] = <<>>
                 /\ bucket'[d] # NoBucket => \A i \in 1 .. Len(admitted'[d]) : Paid(d, i)'
      BY <1>6, <3>1 DEF BucketInv, Paid
    <3>2. bucket'[c] # NoBucket
      BY <1>1, <1>2, <2>1
    <3>3. \A i \in 1 .. Len(admitted'[c]) : Paid(c, i)'
      <4>1. refilled'[c] + back' = T
        BY <1>6 DEF T
      <4>2. ASSUME NEW i \in 1 .. n
            PROVE  Used(Len(admitted'[c]) - i + 1) + bucket'[c]
                     <= MaxTokens + ((refilled'[c] + back') - admitted'[c][i])
        BY <1>5, <1>8, <2>1, <4>1, Zenon
      <4>3. ASSUME NEW i \in 1 .. n PROVE Paid(c, i)'
        BY <4>2 DEF Paid, Used
      <4> QED
        BY <1>8, <4>3, Zenon

    <3> QED
      BY <3>1, <3>2, <3>3 DEF BucketInv
  <2>3. RateBounded'
    BY <1>8 DEF RateBounded
  <2> QED
    BY <1>1, <1>8, <2>1, <2>2, <2>3
<1> QED
  BY <1>3, <1>7, <1>8

-----------------------------------------------------------------------------
(* A step that leaves the buckets and what was admitted alone, and does    *)
(* not take back of the time, keeps what is paid.                          *)
LEMMA BucketsUntouched ==
    ASSUME SidecarTypeOK, BucketInv, RateBounded,
           UNCHANGED <<bucket, refilled, admitted>>,
           back' \in Nat, back' >= back, SidecarAssumption
    PROVE  BucketInv' /\ RateBounded'
<1>1. RateBounded'
  BY DEF RateBounded
<1>2. ASSUME NEW c \in Addresses, bucket[c] # NoBucket, NEW i \in 1 .. Len(admitted[c]),
             Paid(c, i)
      PROVE  Paid(c, i)'
  <2> DEFINE left == Used(Len(admitted[c]) - i + 1) + bucket[c]
  <2>1. /\ refilled[c] \in Int /\ back \in Int /\ back' \in Int /\ MaxTokens \in Int
        /\ admitted[c] \in Seq(Int) /\ bucket[c] \in Int
    BY <1>2 DEF SidecarTypeOK, SidecarAssumption
  <2>2. admitted[c][i] \in Int
    BY <2>1, ElementOfSeq
  <2>3. left \in Int
    <3>1. Len(admitted[c]) - i + 1 \in Int
      BY <2>1
    <3>2. Used(Len(admitted[c]) - i + 1) \in Int
      BY <3>1, UsedSums
    <3> QED
      BY <2>1, <3>2
  <2>4. left <= MaxTokens + ((refilled[c] + back) - admitted[c][i])
    BY <1>2 DEF Paid
  <2> HIDE DEF left
  <2>5. left <= MaxTokens + ((refilled[c] + back') - admitted[c][i])
    BY <2>1, <2>2, <2>3, <2>4, LagGrows, Zenon
  <2> QED
    BY <2>5 DEF Paid, left, Used
<1>3. BucketInv'
  BY <1>2 DEF BucketInv
<1> QED
  BY <1>1, <1>3

LEMMA BackType == SidecarTypeOK /\ SidecarAssumption => back \in Nat /\ back >= back
BY DEF SidecarTypeOK, SidecarAssumption

(* A request that changes nothing but its own stage.                       *)
LEMMA StageOnly ==
    ASSUME PInv, SidecarAssumption, NEW r \in Requests, NEW new \in Stages,
           stage' = [stage EXCEPT ![r] = new],
           new \notin {"new", "401"} => PassesAuth(r),
           new \in {"done", "answered"} => served[r] = 1,
           new \in Stages \ {"done", "answered", "502"} => served[r] = 0,
           UNCHANGED <<served, orders>>
    PROVE  stage' \in [Requests -> Stages] /\ StageInv' /\ OrdersInv'
<1>1. stage \in [Requests -> Stages]
  BY DEF PInv, SidecarTypeOK
<1>2. stage' \in [Requests -> Stages]
  BY <1>1
<1>3. StageInv'
  <2> SUFFICES ASSUME NEW q \in Requests
               PROVE  /\ stage'[q] \notin {"new", "401"} => PassesAuth(q)
                      /\ stage'[q] \in {"done", "answered"} => served[q] = 1
                      /\ stage'[q] \in Stages \ {"done", "answered", "502"} => served[q] = 0
                      /\ served[q] \in 0 .. 1
    BY DEF StageInv, PassesAuth, VerifyToken
  <2>1. CASE q = r
    BY <1>1, <2>1 DEF PInv, StageInv
  <2>2. CASE q # r
    BY <1>1, <2>2 DEF PInv, StageInv
  <2> QED
    BY <2>1, <2>2
<1>4. OrdersInv'
  BY DEF PInv, OrdersInv, Placers
<1> QED
  BY <1>2, <1>3, <1>4

LEMMA ArriveKeeps ==
    ASSUME SidecarAssumption, PInv, NEW r \in Requests, Arrive(r)
    PROVE  PInv'
<1>1. /\ stage[r] = "new" /\ served[r] = 0 /\ r.ip \in Addresses
      /\ UNCHANGED <<clock, back, orders, served>>
  BY DEF Arrive, PInv, StageInv, SidecarAssumption, Stages
<1>2. CASE ~ PassesAuth(r)
  <2>1. /\ stage' = [stage EXCEPT ![r] = "401"]
        /\ UNCHANGED <<bucket, refilled, admitted>>
    BY <1>2 DEF Arrive
  <2>2. stage' \in [Requests -> Stages] /\ StageInv' /\ OrdersInv'
    BY <1>1, <2>1, StageOnly DEF Stages
  <2>3. back' \in Nat /\ back' >= back
    BY <1>1 DEF PInv, SidecarTypeOK, SidecarAssumption
  <2>4. BucketInv' /\ RateBounded'
    BY <2>1, <2>3, BucketsUntouched DEF PInv
  <2> QED
    BY <1>1, <2>1, <2>2, <2>4 DEF PInv, SidecarTypeOK
<1>3. CASE PassesAuth(r)
  <2> DEFINE new == IF Refill(r.ip) >= Cost THEN "reading" ELSE "429"
  <2>1. Consume(r.ip) /\ stage' = [stage EXCEPT ![r] = new]
    BY <1>3 DEF Arrive
  <2>2. new \in {"reading", "429"}
    OBVIOUS
  <2> HIDE DEF new
  <2>3. stage' \in [Requests -> Stages] /\ StageInv' /\ OrdersInv'
    BY <1>1, <1>3, <2>1, <2>2, StageOnly DEF Stages
  <2>4. /\ bucket' \in [Addresses -> Int \cup {NoBucket}]
        /\ refilled' \in [Addresses -> Int]
        /\ admitted' \in [Addresses -> Seq(Int)]
        /\ BucketInv' /\ RateBounded'
    BY <1>1, <2>1, ConsumeKeeps DEF PInv
  <2> QED
    BY <1>1, <2>3, <2>4 DEF PInv, SidecarTypeOK
<1> QED
  BY <1>2, <1>3

(* Forwarding, failing and returning move a request on, and nothing else.  *)
LEMMA MoveKeeps ==
    ASSUME SidecarAssumption, PInv, NEW r \in Requests, Forward(r) \/ Fail(r) \/ Return(r)
    PROVE  PInv'
<1>1. UNCHANGED <<clock, back, bucket, refilled, orders, served, admitted>>
  BY DEF Forward, Fail, Return
<1>2. /\ stage[r] \in {"reading", "forwarded", "done"}
      /\ PassesAuth(r)
      /\ stage[r] \in {"reading", "forwarded"} => served[r] = 0
      /\ stage[r] = "done" => served[r] = 1
  BY DEF Forward, Fail, Return, PInv, StageInv, Stages
<1>3. PICK new \in {"forwarded", "502 pending", "502", "answered"} :
         /\ stage' = [stage EXCEPT ![r] = new]
         /\ new \in {"forwarded", "502 pending"} => stage[r] \in {"reading", "forwarded"}
         /\ new = "answered" => stage[r] = "done"
  <2>1. stage \in [Requests -> Stages]
    BY DEF PInv, SidecarTypeOK
  <2>2. CASE Forward(r)
    BY <2>2 DEF Forward
  <2>3. CASE Return(r)
    BY <2>3 DEF Return
  <2>4. CASE Fail(r) /\ stage[r] = "forwarded"
    BY <2>1, <2>4 DEF Fail
  <2>5. CASE Fail(r) /\ stage[r] # "forwarded"
    BY <2>1, <2>5 DEF Fail
  <2> QED
    BY <2>2, <2>3, <2>4, <2>5
<1>4. stage' \in [Requests -> Stages] /\ StageInv' /\ OrdersInv'
  BY <1>1, <1>2, <1>3, StageOnly DEF Stages
<1>5. back' \in Nat /\ back' >= back
  BY <1>1, BackType, Zenon DEF PInv
<1>6. BucketInv' /\ RateBounded'
  BY <1>1, <1>5, BucketsUntouched DEF PInv
<1> QED
  BY <1>1, <1>4, <1>6 DEF PInv, SidecarTypeOK

(* The service handles a request it has not handled, and an order is added *)
(* when that request is to place one.                                      *)
LEMMA ServeKeeps ==
    ASSUME SidecarAssumption, PInv, NEW r \in Requests, Serve(r)
    PROVE  PInv'
<1>1. /\ stage[r] \in {"forwarded", "502 pending"}
      /\ served' = [served EXCEPT ![r] = @ + 1]
      /\ UNCHANGED <<clock, back, bucket, refilled, admitted>>
  BY DEF Serve, AtService
<1>2. /\ served[r] = 0 /\ PassesAuth(r)
      /\ served \in [Requests -> Nat] /\ stage \in [Requests -> Stages]
  BY <1>1 DEF PInv, StageInv, SidecarTypeOK, Stages
<1>3. served' = [served EXCEPT ![r] = 1]
  <2>1. served' = [served EXCEPT ![r] = served[r] + 1]
    BY <1>1
  <2>2. served[r] + 1 = 1
    BY <1>2
  <2> QED
    BY <2>1, <2>2, Zenon
<1>4. PICK new \in {"502", "done"} : stage' = [stage EXCEPT ![r] = new]
  <2>1. CASE stage[r] = "502 pending"
    BY <1>2, <2>1 DEF Serve
  <2>2. CASE stage[r] = "forwarded"
    BY <1>2, <2>2 DEF Serve
  <2> QED
    BY <1>1, <2>1, <2>2
<1>5. stage' \in [Requests -> Stages] /\ served' \in [Requests -> Nat]
  BY <1>2, <1>3, <1>4 DEF Stages
<1>6. StageInv'
  <2> SUFFICES ASSUME NEW q \in Requests
               PROVE  /\ stage'[q] \notin {"new", "401"} => PassesAuth(q)
                      /\ stage'[q] \in {"done", "answered"} => served'[q] = 1
                      /\ stage'[q] \in Stages \ {"done", "answered", "502"} => served'[q] = 0
                      /\ served'[q] \in 0 .. 1
    BY DEF StageInv, PassesAuth, VerifyToken
  <2>1. CASE q = r
    BY <1>2, <1>3, <1>4, <2>1
  <2>2. CASE q # r
    BY <1>2, <1>3, <1>4, <2>2 DEF PInv, StageInv
  <2> QED
    BY <2>1, <2>2
<1>7. /\ orders' \in Seq(0 .. LastStatus)
      /\ Len(orders') = IF r.path = "place" THEN Len(orders) + 1 ELSE Len(orders)
  <2>1. orders \in Seq(0 .. LastStatus) /\ LastStatus \in Nat
    BY DEF PInv, SidecarTypeOK, SidecarAssumption
  <2>2. CASE r.path = "place"
    <3>1. orders' = Append(orders, 0)
      BY <2>2 DEF Serve
    <3>2. 0 \in 0 .. LastStatus
      BY <2>1
    <3> QED
      BY <2>1, <2>2, <3>1, <3>2
  <2>3. CASE r.path = "advance" /\ orders # <<>> /\ orders[1] < LastStatus
    <3>1. orders' = [orders EXCEPT ![1] = orders[1] + 1] /\ r.path # "place"
      BY <2>3 DEF Serve
    <3>2. Len(orders) \in Nat \ {0}
      BY <2>1, <2>3, EmptySeq
    <3>3. 1 \in 1 .. Len(orders)
      BY <3>2
    <3>4. orders[1] \in 0 .. LastStatus
      BY <2>1, <3>3, ElementOfSeq
    <3>5. orders[1] + 1 \in 0 .. LastStatus
      BY <2>1, <2>3, <3>4
    <3> QED
      BY <2>1, <3>1, <3>3, <3>5, ExceptSeq
  <2>4. CASE ~ (r.path = "place") /\ ~ (r.path = "advance" /\ orders # <<>> /\ orders[1] < LastStatus)
    <3>1. orders' = orders
      BY <2>4 DEF Serve
    <3> QED
      BY <2>1, <2>4, <3>1
  <2> QED
    BY <2>2, <2>3, <2>4
<1>8. OrdersInv'
  <2>1. IsFiniteSet(Placers) /\ Cardinality(Placers) \in Nat
    <3>1. Placers \subseteq Requests
      BY DEF Placers
    <3> QED
      BY <3>1, FS_Subset, FS_CardinalityType DEF SidecarAssumption
  <2>2. r \notin Placers
    BY <1>2 DEF Placers
  <2>3. CASE r.path = "place"
    <3>1. Placers' = Placers \cup {r}
      BY <1>2, <1>3, <2>3 DEF Placers
    <3>2. Cardinality(Placers') = Cardinality(Placers) + 1
      BY <2>1, <2>2, <3>1, FS_AddElement
    <3> QED
      BY <1>7, <2>3, <3>2 DEF PInv, OrdersInv
  <2>4. CASE r.path # "place"
    <3>1. Placers' = Placers
      BY <1>2, <1>3, <2>4 DEF Placers
    <3> QED
      BY <1>7, <2>4, <3>1 DEF PInv, OrdersInv
  <2> QED
    BY <2>3, <2>4
<1>9. back' \in Nat /\ back' >= back
  BY <1>1, BackType, Zenon DEF PInv
<1>10. BucketInv' /\ RateBounded'
  BY <1>1, <1>9, BucketsUntouched DEF PInv
<1> QED
  BY <1>1, <1>5, <1>6, <1>7, <1>8, <1>10 DEF PInv, SidecarTypeOK

(* Time that passes, and a clock that is set back.                         *)
LEMMA ClockKeeps ==
    ASSUME SidecarAssumption, PInv, SidecarTick \/ ClockStepsBack
    PROVE  PInv'
<1>1. /\ UNCHANGED <<bucket, refilled, stage, orders, served, admitted>>
      /\ clock' \in Int /\ back' \in 0 .. MaxStepBack /\ back' >= back
  BY DEF SidecarTick, ClockStepsBack, PInv, SidecarTypeOK, SidecarAssumption
<1>2. StageInv' /\ OrdersInv'
  BY <1>1 DEF PInv, StageInv, OrdersInv, Placers, PassesAuth, VerifyToken
<1>3. back' \in Nat
  BY <1>1 DEF SidecarAssumption
<1>4. BucketInv' /\ RateBounded'
  BY <1>1, <1>3, BucketsUntouched DEF PInv
<1> QED
  BY <1>1, <1>2, <1>4 DEF PInv, SidecarTypeOK

-----------------------------------------------------------------------------
LEMMA SidecarInvariance == SidecarSpec => []PInv
<1>1. ASSUME SidecarAssumption, PInv, [SidecarNext]_sidecarVars PROVE PInv'
  <2>1. ASSUME NEW r \in Requests,
               Arrive(r) \/ Forward(r) \/ Fail(r) \/ Serve(r) \/ Return(r)
        PROVE  PInv'
    BY <1>1, <2>1, ArriveKeeps, MoveKeeps, ServeKeeps
  <2>2. CASE SidecarTick \/ ClockStepsBack
    BY <1>1, <2>2, ClockKeeps
  <2>3. CASE UNCHANGED sidecarVars
    BY <1>1, <2>3
       DEF sidecarVars, PInv, SidecarTypeOK, StageInv, OrdersInv, Placers, BucketInv,
           Paid, RateBounded
  <2> QED
    BY <1>1, <2>1, <2>2, <2>3 DEF SidecarNext
<1> QED
  BY <1>1, SidecarStart, SidecarAssumption, PTL DEF SidecarSpec

(* Every variable keeps to its type.                                       *)
THEOREM SidecarTyped == SidecarSpec => []SidecarTypeOK
<1>1. PInv => SidecarTypeOK
  BY DEF PInv
<1> QED
  BY <1>1, SidecarInvariance, PTL

(* No address gets more requests through in any span of time than a full   *)
(* bucket and the refill of that span, however the clock is set back.      *)
THEOREM RateIsBounded == SidecarSpec => []RateBounded
<1>1. PInv => RateBounded
  BY DEF PInv
<1> QED
  BY <1>1, SidecarInvariance, PTL

(* A request is handled at most once and only with a good token, answered  *)
(* only when handled, and the orders are those of the handled requests.    *)
THEOREM AnswersAreTrue == SidecarSpec => []AnsweredTruly
<1>1. PInv => AnsweredTruly
  <2> SUFFICES ASSUME PInv PROVE AnsweredTruly
    OBVIOUS
  <2>1. ASSUME NEW r \in Requests
        PROVE  /\ served[r] <= 1
               /\ served[r] = 1 => PassesAuth(r) /\ stage[r] \in {"done", "answered", "502"}
               /\ stage[r] = "answered" => served[r] = 1
    <3>1. /\ stage[r] \in Stages /\ served[r] \in 0 .. 1
          /\ stage[r] \notin {"new", "401"} => PassesAuth(r)
          /\ stage[r] \in {"done", "answered"} => served[r] = 1
          /\ stage[r] \in Stages \ {"done", "answered", "502"} => served[r] = 0
      BY DEF PInv, StageInv, SidecarTypeOK
    <3>2. served[r] \in {0, 1}
      BY <3>1
    <3>3. served[r] = 1 => stage[r] \in {"done", "answered", "502"}
      BY <3>1
    <3> QED
      BY <3>1, <3>2, <3>3
  <2> QED
    BY <2>1 DEF PInv, OrdersInv, Placers, AnsweredTruly
<1> QED
  BY <1>1, SidecarInvariance, PTL

-----------------------------------------------------------------------------
(***************************************************************************)
(* Proofs about the subscribers of chapter 7, for any number of orders,    *)
(* drivers, events and raising callbacks.                                  *)
(***************************************************************************)

(* What a subscription was handed is of the topics it subscribed to, and   *)
(* so is what its callback has in hand, which is one event at most.        *)
GotInv ==
    \A s \in Subs : \A i \in 1 .. Len(got[s]) :
        got[s][i] \in 1 .. Len(log) /\ log[got[s][i]] \in Interest[s]

HandInv ==
    \A s \in Subs : \A e \in hand[s] :
        log[e] \in Interest[s] /\ \A f \in hand[s] : e = f

(* What a callback checked before its sleep still holds when it wakes up.  *)
StillNew ==
    /\ \A e \in hand["billing"] : charged[about[e]] = 0
    /\ \A e \in hand["kitchen"] : displayed[about[e]] = 0
    /\ \A e \in hand["matching"] : assignment[about[e]] = NoDriver

(* A confirmation that is still to be matched.                             *)
Pending(e) ==
    log[e] = "confirmed" /\ (e > Bus!Seen("matching") \/ e \in hand["matching"])

CancelledSeen(o) == \E i \in 1 .. Len(got["release"]) : about[got["release"][i]] = o

(* An order whose cancellation was handled has no confirmation to come,    *)
(* unless the cancellation overtook it.                                    *)
NoneToCome ==
    \A e \in 1 .. Len(log), o \in Orders :
        about[e] = o /\ Pending(e) /\ CancelledSeen(o) => o \in overtaken

OInv ==
    /\ ServicesTypeOK
    /\ GotInv /\ HandInv /\ StillNew /\ NoneToCome
    /\ OncePerOrder
    /\ DriversBalance /\ CancelledAreReleased

-----------------------------------------------------------------------------
LEMMA InterestFacts ==
    /\ Subs = {"kitchen", "billing", "matching", "release", "analytics"}
    /\ Interest["kitchen"] = {"placed"} /\ Interest["billing"] = {"placed"}
    /\ Interest["matching"] = {"confirmed"} /\ Interest["release"] = {"cancelled"}
BY DEF Subs, Interest

LEMMA AboutOrders ==
    ASSUME ServicesTypeOK, NEW e \in 1 .. Len(log)
    PROVE  about[e] \in Orders /\ log[e] \in Topics
<1>1. e \in 1 .. Len(about)
  BY DEF ServicesTypeOK
<1> QED
  BY <1>1, ElementOfSeq DEF ServicesTypeOK

LEMMA SeenType ==
    ASSUME ServicesTypeOK, GotInv, NEW s \in Subs
    PROVE  Bus!Seen(s) \in 0 .. Len(log)
<1>1. got[s] \in Seq(Nat) /\ Len(log) \in Nat
  BY DEF ServicesTypeOK
<1>2. CASE got[s] = <<>>
  BY <1>1, <1>2 DEF Bus!Seen
<1>3. CASE got[s] # <<>>
  <2>1. Len(got[s]) \in 1 .. Len(got[s])
    BY <1>1, <1>3, EmptySeq
  <2> QED
    BY <1>1, <1>3, <2>1 DEF GotInv, Bus!Seen
<1> QED
  BY <1>2, <1>3

(* Delivering an event passes over none that the subscription listens to.  *)
LEMMA Delivery ==
    ASSUME ServicesTypeOK, GotInv, NEW s \in Subs, NEW e \in DOMAIN log, Deliver(s, e)
    PROVE  /\ e \in 1 .. Len(log) /\ e > Bus!Seen(s)
           /\ log[e] \in Interest[s]
           /\ hand[s] = {}
           /\ log' = log
           /\ got' \in [Subs -> Seq(Nat)]
           /\ got'[s] = Append(got[s], e)
           /\ \A t \in Subs \ {s} : got'[t] = got[t]
           /\ Bus!Seen(s)' = e
           /\ \A t \in Subs \ {s} : Bus!Seen(t)' = Bus!Seen(t)
           /\ \A f \in 1 .. Len(log) :
                 f > Bus!Seen(s) /\ log[f] \in Interest[s] => f >= e
           /\ GotInv'
<1>1. /\ got \in [Subs -> Seq(Nat)] /\ Len(log) \in Nat
      /\ DOMAIN log = 1 .. Len(log)
      /\ Bus!Seen(s) \in Nat
  BY SeenType DEF ServicesTypeOK
<1>2. /\ e \in 1 .. Len(log) /\ e \in Nat /\ e > Bus!Seen(s) /\ log[e] \in Interest[s]
      /\ \A f \in (Bus!Seen(s) + 1) .. (e - 1) : log[f] \notin Interest[s]
  BY <1>1 DEF Deliver, NextFor
<1>3. PICK x \in 1 .. Len(log) : got' = [got EXCEPT ![s] = Append(got[s], x)]
  BY DEF Deliver, Bus!Deliver
<1>4. /\ got'[s] = Append(got[s], e) /\ log' = log /\ hand[s] = {}
  BY DEF Deliver, Bus!Deliver
<1>5. \A t \in Subs \ {s} : got'[t] = got[t]
  BY <1>1, <1>3
<1>6. got' \in [Subs -> Seq(Nat)]
  BY <1>1, <1>3
<1>7. /\ Len(got'[s]) = Len(got[s]) + 1
      /\ Len(got[s]) \in Nat
      /\ got'[s][Len(got[s]) + 1] = e
      /\ \A i \in 1 .. Len(got[s]) : got'[s][i] = got[s][i]
  BY <1>1, <1>2, <1>4
<1>8. Bus!Seen(s)' = e
  <2>1. got'[s] # <<>>
    BY <1>7, EmptySeq
  <2> QED
    BY <1>7, <2>1 DEF Bus!Seen
<1>9. \A t \in Subs \ {s} : Bus!Seen(t)' = Bus!Seen(t)
  BY <1>5 DEF Bus!Seen
<1>10. \A f \in 1 .. Len(log) : f > Bus!Seen(s) /\ log[f] \in Interest[s] => f >= e
  <2> SUFFICES ASSUME NEW f \in 1 .. Len(log), f > Bus!Seen(s), f < e, f \in Nat
               PROVE  log[f] \notin Interest[s]
    BY <1>1, <1>2
  <2>1. f \in (Bus!Seen(s) + 1) .. (e - 1)
    BY <1>1, <1>2
  <2> QED
    BY <1>2, <2>1
<1>11. GotInv'
  <2> SUFFICES ASSUME NEW t \in Subs, NEW i \in 1 .. Len(got'[t])
               PROVE  got'[t][i] \in 1 .. Len(log) /\ log[got'[t][i]] \in Interest[t]
    BY <1>4 DEF GotInv
  <2>1. CASE t # s
    BY <1>5, <2>1 DEF GotInv
  <2>2. CASE t = s /\ i = Len(got[s]) + 1
    BY <1>2, <1>7, <2>2
  <2>3. CASE t = s /\ i \in 1 .. Len(got[s])
    BY <1>7, <2>3 DEF GotInv
  <2> QED
    BY <1>7, <2>1, <2>2, <2>3
<1> QED
  BY <1>2, <1>4, <1>5, <1>6, <1>8, <1>9, <1>10, <1>11

-----------------------------------------------------------------------------
LEMMA ServicesStart == ServicesAssumption /\ ServicesInit => OInv
<1> SUFFICES ASSUME ServicesAssumption, ServicesInit PROVE OInv
  OBVIOUS
<1>1. /\ log = <<>> /\ got = [s \in Subs |-> <<>>]
      /\ about = <<>> /\ hand = [s \in Subs |-> {}]
  BY DEF ServicesInit, Bus!Init
<1>2. Len(log) = 0 /\ \A s \in Subs : Len(got[s]) = 0
  BY <1>1
<1>3. ServicesTypeOK
  BY <1>1, <1>2 DEF ServicesInit, ServicesTypeOK
<1>4. GotInv /\ HandInv /\ StillNew /\ NoneToCome
  BY <1>1, <1>2, InterestFacts DEF GotInv, HandInv, StillNew, NoneToCome
<1>5. OncePerOrder
  BY DEF ServicesInit, OncePerOrder
<1>6. Assigned = {}
  BY DEF ServicesInit, Assigned
<1>7. DriversBalance /\ CancelledAreReleased
  BY <1>6, FS_EmptySet DEF ServicesInit, DriversBalance, CancelledAreReleased
<1> QED
  BY <1>3, <1>4, <1>5, <1>7 DEF OInv

(* Nothing is published of an order after its cancellation but further     *)
(* cancellations.                                                          *)
LEMMA PublishKeeps ==
    ASSUME OInv, NEW o \in Orders, NEW topic \in Topics, Publish(o, topic)
    PROVE  OInv'
<1> DEFINE n == Len(log)
<1>1. /\ log' = Append(log, topic) /\ about' = Append(about, o)
      /\ UNCHANGED <<got, hand, displayed, charged, recorded, driverVars, overtaken, raised>>
      /\ ~ Published(o, "cancelled") \/ topic = "cancelled"
  BY DEF Publish
<1>2. /\ n \in Nat /\ log \in Seq(Topics) /\ about \in Seq(Orders) /\ Len(about) = n
  BY DEF OInv, ServicesTypeOK
<1>3. /\ log' \in Seq(Topics) /\ about' \in Seq(Orders)
      /\ Len(log') = n + 1 /\ Len(about') = n + 1
      /\ log'[n + 1] = topic /\ about'[n + 1] = o
      /\ \A e \in 1 .. n : log'[e] = log[e] /\ about'[e] = about[e]
      /\ DOMAIN log = 1 .. n
  BY <1>1, <1>2
<1>4. \A s \in Subs : hand[s] \subseteq 1 .. n
  BY DEF OInv, ServicesTypeOK
<1>5. /\ \A s \in Subs : \A i \in 1 .. Len(got[s]) :
            got[s][i] \in 1 .. n /\ log[got[s][i]] \in Interest[s]
      /\ raised \subseteq 1 .. n
  BY DEF OInv, GotInv, ServicesTypeOK
<1> HIDE DEF n
<1>6. 1 .. n \subseteq 1 .. (n + 1)
  BY <1>2
<1>7. ServicesTypeOK'
  BY <1>1, <1>3, <1>4, <1>5, <1>6 DEF OInv, ServicesTypeOK, driverVars
<1>8. GotInv'
  BY <1>1, <1>3, <1>5, <1>6 DEF GotInv
<1>9. HandInv'
  BY <1>1, <1>3, <1>4 DEF OInv, HandInv
<1>10. StillNew'
  <2>1. /\ \A e \in hand["billing"] \cup hand["kitchen"] \cup hand["matching"] :
              about'[e] = about[e]
        /\ hand' = hand /\ charged' = charged /\ displayed' = displayed
        /\ assignment' = assignment
    BY <1>1, <1>3, <1>4, InterestFacts DEF driverVars
  <2>2. StillNew
    BY DEF OInv
  <2> QED
    BY <2>1, <2>2 DEF StillNew
<1>11. \A x \in Orders : CancelledSeen(x)' <=> CancelledSeen(x)
  BY <1>1, <1>3, <1>5, InterestFacts DEF CancelledSeen
<1>12. NoneToCome'
  <2> SUFFICES ASSUME NEW e \in 1 .. (n + 1), NEW x \in Orders,
                      about'[e] = x, Pending(e)', CancelledSeen(x)'
               PROVE  x \in overtaken
    BY <1>1, <1>3 DEF NoneToCome
  <2>1. CASE e \in 1 .. n
    <3>1. Pending(e)
      BY <1>1, <1>3, <2>1 DEF Pending, Bus!Seen
    <3> QED
      BY <1>3, <1>11, <2>1, <3>1 DEF OInv, NoneToCome, n
  <2>2. CASE e = n + 1
    <3>1. topic = "confirmed" /\ x = o
      BY <1>3, <2>2 DEF Pending
    <3>2. CancelledSeen(o)
      BY <1>11, <3>1
    <3>3. PICK i \in 1 .. Len(got["release"]) : about[got["release"][i]] = o
      BY <3>2 DEF CancelledSeen
    <3>4. got["release"][i] \in DOMAIN log /\ log[got["release"][i]] = "cancelled"
      BY <1>3, <1>5, InterestFacts
    <3>5. Published(o, "cancelled")
      BY <3>3, <3>4 DEF Published
    <3> QED
      BY <1>1, <3>1, <3>5
  <2> QED
    BY <1>2, <2>1, <2>2
<1>13. OncePerOrder' /\ DriversBalance'
  BY <1>1 DEF OInv, OncePerOrder, DriversBalance, Assigned, driverVars
<1>14. CancelledAreReleased'
  <2> SUFFICES ASSUME NEW x \in Assigned, NEW i \in 1 .. Len(got["release"]),
                      about'[got["release"][i]] = x
               PROVE  x \in overtaken
    BY <1>1 DEF CancelledAreReleased, Assigned, driverVars
  <2>1. about[got["release"][i]] = x
    BY <1>3, <1>5, InterestFacts
  <2> QED
    BY <2>1 DEF OInv, CancelledAreReleased
<1> QED
  BY <1>7, <1>8, <1>9, <1>10, <1>12, <1>13, <1>14 DEF OInv

-----------------------------------------------------------------------------
(* No step but the delivery of a cancellation adds to what NoneToCome      *)
(* speaks about.                                                           *)
LEMMA NoneMoreToCome ==
    ASSUME NoneToCome, UNCHANGED <<log, about, overtaken>>,
           got'["release"] = got["release"],
           \A e \in 1 .. Len(log) : Pending(e)' => Pending(e)
    PROVE  NoneToCome'
BY DEF NoneToCome, CancelledSeen

LEMMA BeginKeeps ==
    ASSUME OInv, NEW s \in Subs \ {"release"}, Begin(s)
    PROVE  OInv'
<1>1. PICK e \in DOMAIN log :
         /\ Deliver(s, e)
         /\ IF Duplicate(s, about[e]) THEN UNCHANGED hand ELSE Sleep(s, e)
         /\ UNCHANGED <<about, displayed, charged, recorded, driverVars, overtaken, raised>>
  BY DEF Begin
<1>2. /\ e \in 1 .. Len(log) /\ e > Bus!Seen(s) /\ log[e] \in Interest[s]
      /\ hand[s] = {} /\ log' = log
      /\ got' \in [Subs -> Seq(Nat)]
      /\ \A t \in Subs \ {s} : got'[t] = got[t] /\ Bus!Seen(t)' = Bus!Seen(t)
      /\ Bus!Seen(s)' = e
      /\ GotInv'
  BY <1>1, Delivery DEF OInv
<1>3. hand \in [Subs -> SUBSET (1 .. Len(log))]
  BY DEF OInv, ServicesTypeOK
<1>4. /\ hand' \in [Subs -> SUBSET (1 .. Len(log))]
      /\ hand'[s] \subseteq {e}
      /\ hand'[s] # {} => ~ Duplicate(s, about[e])
      /\ \A t \in Subs \ {s} : hand'[t] = hand[t]
  <2>2. CASE ~ Duplicate(s, about[e]) /\ hand' = [hand EXCEPT ![s] = @ \cup {e}]
    BY <1>2, <1>3, <2>2
  <2>3. \/ hand' = hand
        \/ ~ Duplicate(s, about[e]) /\ hand' = [hand EXCEPT ![s] = @ \cup {e}]
    BY <1>1 DEF Sleep
  <2> HIDE DEF Duplicate
  <2>4. CASE hand' = hand /\ hand'[s] = {}
    BY <1>2, <1>3, <2>4
  <2> QED
    BY <1>2, <2>2, <2>3, <2>4
<1>5. got'["release"] = got["release"]
  BY <1>2, InterestFacts
<1>6. ServicesTypeOK'
  BY <1>1, <1>2, <1>4 DEF OInv, ServicesTypeOK, driverVars
<1>7. HandInv'
  BY <1>2, <1>4 DEF OInv, HandInv
<1>8. StillNew'
  <2>1. /\ charged[about[e]] \in Nat /\ displayed[about[e]] \in Nat
        /\ charged' = charged /\ displayed' = displayed /\ assignment' = assignment
        /\ about' = about
    BY <1>1, <1>2, AboutOrders DEF OInv, ServicesTypeOK, driverVars
  <2>2. StillNew /\ {"billing", "kitchen", "matching"} \subseteq Subs
    BY InterestFacts DEF OInv
  <2>3. CASE s = "billing"
    BY <1>4, <2>1, <2>2, <2>3 DEF StillNew, Duplicate
  <2>4. CASE s = "kitchen"
    BY <1>4, <2>1, <2>2, <2>4 DEF StillNew, Duplicate
  <2>5. CASE s = "matching"
    BY <1>4, <2>1, <2>2, <2>5 DEF StillNew, Duplicate
  <2>6. CASE s = "analytics"
    BY <1>4, <2>1, <2>2, <2>6 DEF StillNew
  <2> QED
    BY <2>3, <2>4, <2>5, <2>6, InterestFacts
<1>9. \A f \in 1 .. Len(log) : Pending(f)' => Pending(f)
  <2>1. CASE s # "matching"
    BY <1>2, <1>4, <2>1, InterestFacts DEF Pending
  <2>2. CASE s = "matching"
    <3>1. Bus!Seen(s) \in Nat /\ Len(log) \in Nat
      BY SeenType DEF OInv, ServicesTypeOK
    <3> QED
      BY <1>2, <1>4, <2>2, <3>1 DEF Pending
  <2> QED
    BY <2>1, <2>2
<1>10. NoneToCome'
  BY <1>1, <1>2, <1>5, <1>9, NoneMoreToCome DEF OInv
<1>11. OncePerOrder' /\ DriversBalance' /\ CancelledAreReleased'
  BY <1>1, <1>5
     DEF OInv, OncePerOrder, DriversBalance, CancelledAreReleased, Assigned, driverVars
<1> QED
  BY <1>2, <1>6, <1>7, <1>8, <1>10, <1>11 DEF OInv

(* When a callback wakes up, its worker has nothing else in hand.          *)
LEMMA Waking ==
    ASSUME OInv, NEW s \in Subs, NEW e \in hand[s], Wake(s, e),
           UNCHANGED <<busVars, about, overtaken>>
    PROVE  /\ e \in 1 .. Len(log) /\ about[e] \in Orders
           /\ hand' \in [Subs -> SUBSET (1 .. Len(log))]
           /\ hand'[s] = {}
           /\ \A t \in Subs \ {s} : hand'[t] = hand[t]
           /\ GotInv' /\ HandInv' /\ NoneToCome'
<1>1. /\ hand \in [Subs -> SUBSET (1 .. Len(log))]
      /\ hand' = [hand EXCEPT ![s] = @ \ {e}]
      /\ log' = log /\ got' = got /\ about' = about /\ overtaken' = overtaken
  BY DEF OInv, ServicesTypeOK, Wake, busVars
<1>2. e \in 1 .. Len(log) /\ about[e] \in Orders
  BY <1>1, AboutOrders DEF OInv
<1>3. hand'[s] = {}
  BY <1>1 DEF OInv, HandInv
<1>4. \A t \in Subs \ {s} : hand'[t] = hand[t]
  BY <1>1
<1>5. GotInv' /\ HandInv'
  BY <1>1, <1>3, <1>4 DEF OInv, GotInv, HandInv
<1>6. \A f \in 1 .. Len(log) : Pending(f)' => Pending(f)
  BY <1>1, <1>3, <1>4, InterestFacts DEF Pending, Bus!Seen
<1>7. NoneToCome'
  BY <1>1, <1>6, NoneMoreToCome DEF OInv
<1> QED
  BY <1>1, <1>2, <1>3, <1>4, <1>5, <1>7

LEMMA KitchenKeeps == OInv /\ KitchenEnds => OInv'
<1> SUFFICES ASSUME OInv, NEW e \in hand["kitchen"], Wake("kitchen", e),
                    displayed' = [displayed EXCEPT ![about[e]] = @ + 1],
                    UNCHANGED <<busVars, about, charged, recorded, driverVars,
                                overtaken, raised>>
             PROVE  OInv'
  BY DEF KitchenEnds
<1>1. /\ about[e] \in Orders
      /\ hand' \in [Subs -> SUBSET (1 .. Len(log))]
      /\ hand'["kitchen"] = {}
      /\ hand'["billing"] = hand["billing"] /\ hand'["matching"] = hand["matching"]
      /\ GotInv' /\ HandInv' /\ NoneToCome'
  BY Waking, InterestFacts
<1>2. displayed[about[e]] = 0 /\ StillNew
  BY DEF OInv, StillNew
<1>3. displayed' \in [Orders -> Nat]
  BY <1>1 DEF OInv, ServicesTypeOK
<1>4. ServicesTypeOK'
  BY <1>1, <1>3 DEF OInv, ServicesTypeOK, busVars, driverVars
<1>5. StillNew'
  BY <1>1, <1>2 DEF StillNew, driverVars
<1>6. OncePerOrder'
  BY <1>1, <1>2 DEF OInv, OncePerOrder, ServicesTypeOK
<1>7. DriversBalance' /\ CancelledAreReleased'
  BY DEF OInv, DriversBalance, CancelledAreReleased, Assigned, busVars, driverVars
<1> QED
  BY <1>1, <1>4, <1>5, <1>6, <1>7 DEF OInv

LEMMA BillingKeeps == OInv /\ (BillingEnds \/ Raise) => OInv'
<1> SUFFICES ASSUME OInv, NEW e \in hand["billing"], Wake("billing", e),
                    \/ charged' = [charged EXCEPT ![about[e]] = @ + 1] /\ raised' = raised
                    \/ charged' = charged /\ raised' = raised \cup {e},
                    UNCHANGED <<busVars, about, displayed, recorded, driverVars, overtaken>>
             PROVE  OInv'
  BY DEF BillingEnds, Raise
<1>1. /\ e \in 1 .. Len(log) /\ about[e] \in Orders
      /\ hand' \in [Subs -> SUBSET (1 .. Len(log))]
      /\ hand'["billing"] = {}
      /\ hand'["kitchen"] = hand["kitchen"] /\ hand'["matching"] = hand["matching"]
      /\ GotInv' /\ HandInv' /\ NoneToCome'
  BY Waking, InterestFacts
<1>2. charged[about[e]] = 0 /\ StillNew
  BY DEF OInv, StillNew
<1>3. ServicesTypeOK'
  <2>1. /\ charged \in [Orders -> Nat] /\ raised \subseteq 1 .. Len(log)
        /\ log' = log
    BY DEF OInv, ServicesTypeOK, busVars
  <2>2. charged' \in [Orders -> Nat]
    BY <1>1, <2>1
  <2>3. raised' \subseteq 1 .. Len(log)
    BY <1>1, <2>1
  <2> QED
    BY <1>1, <2>1, <2>2, <2>3 DEF OInv, ServicesTypeOK, busVars, driverVars
<1>4. StillNew'
  BY <1>1, <1>2 DEF StillNew, driverVars
<1>5. OncePerOrder'
  <2>1. charged \in [Orders -> Nat] /\ OncePerOrder
    BY DEF OInv, ServicesTypeOK
  <2>2. charged' = charged \/ charged' = [charged EXCEPT ![about[e]] = 1]
    BY <1>1, <1>2, <2>1
  <2> QED
    BY <1>1, <2>1, <2>2 DEF OncePerOrder
<1>6. DriversBalance' /\ CancelledAreReleased'
  BY DEF OInv, DriversBalance, CancelledAreReleased, Assigned, busVars, driverVars
<1> QED
  BY <1>1, <1>3, <1>4, <1>5, <1>6 DEF OInv

LEMMA AnalyticsKeeps == OInv /\ AnalyticsEnds => OInv'
<1> SUFFICES ASSUME OInv, NEW e \in hand["analytics"], Wake("analytics", e),
                    recorded' = Append(recorded, e),
                    UNCHANGED <<busVars, about, displayed, charged, driverVars,
                                overtaken, raised>>
             PROVE  OInv'
  BY DEF AnalyticsEnds
<1>1. /\ e \in 1 .. Len(log)
      /\ hand' \in [Subs -> SUBSET (1 .. Len(log))]
      /\ hand'["billing"] = hand["billing"]
      /\ hand'["kitchen"] = hand["kitchen"] /\ hand'["matching"] = hand["matching"]
      /\ GotInv' /\ HandInv' /\ NoneToCome'
  BY Waking, InterestFacts
<1>2. recorded' \in Seq(Nat)
  BY <1>1 DEF OInv, ServicesTypeOK
<1>3. ServicesTypeOK'
  BY <1>1, <1>2 DEF OInv, ServicesTypeOK, busVars, driverVars
<1>4. StillNew'
  BY <1>1 DEF OInv, StillNew, driverVars
<1>5. OncePerOrder' /\ DriversBalance' /\ CancelledAreReleased'
  BY DEF OInv, OncePerOrder, DriversBalance, CancelledAreReleased, Assigned,
         busVars, driverVars
<1> QED
  BY <1>1, <1>3, <1>4, <1>5 DEF OInv

-----------------------------------------------------------------------------
LEMMA AssignedFinite ==
    ASSUME ServicesAssumption
    PROVE  IsFiniteSet(Assigned) /\ Cardinality(Assigned) \in Nat
<1>1. Assigned \subseteq Orders
  BY DEF Assigned
<1> QED
  BY <1>1, FS_Subset, FS_CardinalityType DEF ServicesAssumption

LEMMA MatchingKeeps == ServicesAssumption /\ OInv /\ MatchingEnds => OInv'
<1> SUFFICES ASSUME ServicesAssumption, OInv,
                    NEW e \in hand["matching"], NEW d \in Drivers, Wake("matching", e),
                    assignment' = [assignment EXCEPT ![about[e]] = d],
                    matches_made' = matches_made + 1,
                    UNCHANGED <<busVars, about, displayed, charged, recorded,
                                drivers_released, overtaken, raised>>
             PROVE  OInv'
  BY DEF MatchingEnds
<1> DEFINE o == about[e]
<1>1. /\ e \in 1 .. Len(log) /\ o \in Orders
      /\ hand' \in [Subs -> SUBSET (1 .. Len(log))]
      /\ hand'["matching"] = {}
      /\ hand'["billing"] = hand["billing"] /\ hand'["kitchen"] = hand["kitchen"]
      /\ GotInv' /\ HandInv' /\ NoneToCome'
  BY Waking, InterestFacts
<1>2. assignment[o] = NoDriver /\ d # NoDriver
  BY DEF OInv, StillNew, ServicesAssumption
<1>3. assignment \in [Orders -> Drivers \cup {NoDriver}]
  BY DEF OInv, ServicesTypeOK
<1>4. ServicesTypeOK'
  <2>1. assignment' \in [Orders -> Drivers \cup {NoDriver}]
    BY <1>3
  <2>2. matches_made' \in Nat
    BY DEF OInv, ServicesTypeOK
  <2>3. hand' \in [Subs -> SUBSET (1 .. Len(log'))] /\ UNCHANGED busVars
    BY <1>1 DEF busVars
  <2> QED
    BY <2>1, <2>2, <2>3 DEF OInv, ServicesTypeOK, busVars
<1>5. StillNew'
  BY <1>1 DEF OInv, StillNew
<1>6. Assigned' = Assigned \cup {o} /\ o \notin Assigned
  BY <1>1, <1>2, <1>3 DEF Assigned
<1>7. DriversBalance'
  <2>1. Cardinality(Assigned') = Cardinality(Assigned) + 1
    BY <1>6, AssignedFinite, FS_AddElement
  <2>2. Cardinality(Assigned) \in Nat
    BY AssignedFinite
  <2>3. /\ matches_made \in Nat /\ drivers_released \in Nat
        /\ matches_made = drivers_released + Cardinality(Assigned)
    BY DEF OInv, ServicesTypeOK, DriversBalance
  <2>4. matches_made' = matches_made + 1 /\ drivers_released' = drivers_released
    OBVIOUS
  <2>5. matches_made' = drivers_released' + Cardinality(Assigned')
    BY <2>1, <2>2, <2>3, <2>4
  <2> QED
    BY <2>5 DEF DriversBalance
<1>8. CancelledAreReleased'
  <2> SUFFICES ASSUME NEW x \in Assigned', NEW i \in 1 .. Len(got["release"]),
                      about[got["release"][i]] = x
               PROVE  x \in overtaken
    BY DEF CancelledAreReleased, busVars
  <2>1. CASE x = o
    <3>1. log[e] = "confirmed"
      BY InterestFacts DEF OInv, HandInv
    <3>2. Pending(e) /\ CancelledSeen(o)
      BY <2>1, <3>1 DEF Pending, CancelledSeen
    <3> QED
      BY <1>1, <2>1, <3>2 DEF OInv, NoneToCome
  <2>2. CASE x \in Assigned
    BY <2>2 DEF OInv, CancelledAreReleased
  <2> QED
    BY <1>6, <2>1, <2>2
<1>9. OncePerOrder'
  BY DEF OInv, OncePerOrder
<1> QED
  BY <1>1, <1>4, <1>5, <1>7, <1>8, <1>9 DEF OInv

(* A cancellation frees its order's driver; a confirmation it overtakes is *)
(* what may assign one again.                                              *)
LEMMA ReleaseKeeps == ServicesAssumption /\ OInv /\ Release => OInv'
<1> SUFFICES ASSUME ServicesAssumption, OInv,
                    NEW e \in DOMAIN log, Deliver("release", e), Released(about[e]),
                    overtaken' = IF \E c \in DOMAIN log :
                                       /\ about[c] = about[e] /\ log[c] = "confirmed"
                                       /\ c > Bus!Seen("matching") \/ c \in hand["matching"]
                                 THEN overtaken \cup {about[e]} ELSE overtaken,
                    UNCHANGED <<about, hand, displayed, charged, recorded, matches_made, raised>>
             PROVE  OInv'
  BY DEF Release
<1> DEFINE o == about[e]
<1> DEFINE released == IF assignment[o] # NoDriver THEN 1 ELSE 0
<1>1. /\ e \in 1 .. Len(log) /\ log' = log
      /\ got' \in [Subs -> Seq(Nat)]
      /\ got'["release"] = Append(got["release"], e)
      /\ Bus!Seen("matching")' = Bus!Seen("matching")
      /\ GotInv'
  BY Delivery, InterestFacts DEF OInv
<1>2. o \in Orders /\ DOMAIN log = 1 .. Len(log)
  BY <1>1, AboutOrders DEF OInv, ServicesTypeOK
<1>3. /\ assignment \in [Orders -> Drivers \cup {NoDriver}]
      /\ assignment' = [assignment EXCEPT ![o] = NoDriver]
      /\ drivers_released \in Nat /\ released \in Nat
      /\ drivers_released' = drivers_released + released
  BY DEF OInv, ServicesTypeOK, Released
<1>4. overtaken \subseteq overtaken' /\ overtaken' \subseteq Orders
  BY <1>2 DEF OInv, ServicesTypeOK
<1>5. ServicesTypeOK'
  <2>1. assignment' \in [Orders -> Drivers \cup {NoDriver}]
    BY <1>3
  <2> HIDE DEF released
  <2>2. drivers_released' \in Nat
    BY <1>3
  <2>3. /\ overtaken' \subseteq Orders
        /\ UNCHANGED <<log, about, hand, displayed, charged, recorded, matches_made, raised>>
    BY <1>1, <1>4
  <2> QED
    BY <1>1, <2>1, <2>2, <2>3 DEF OInv, ServicesTypeOK
<1>6. HandInv'
  BY <1>1 DEF OInv, HandInv
<1>7. StillNew'
  <2>1. \A f \in hand["matching"] : about[f] \in Orders
    BY AboutOrders, InterestFacts DEF OInv, ServicesTypeOK
  <2> QED
    BY <1>3, <2>1 DEF OInv, StillNew
<1>8. \A i \in 1 .. Len(got'["release"]) :
         got'["release"][i] = e \/ \E j \in 1 .. Len(got["release"]) :
                                      got'["release"][i] = got["release"][j]
  <2>1. got["release"] \in Seq(Nat) /\ e \in Nat
    BY <1>1, InterestFacts DEF OInv, ServicesTypeOK
  <2> QED
    BY <1>1, <2>1
<1>9. \A x \in Orders : CancelledSeen(x)' => x = o \/ CancelledSeen(x)
  BY <1>8 DEF CancelledSeen
<1>10. NoneToCome'
  <2> SUFFICES ASSUME NEW c \in 1 .. Len(log), NEW x \in Orders,
                      about[c] = x, Pending(c)', CancelledSeen(x)'
               PROVE  x \in overtaken'
    BY <1>1 DEF NoneToCome
  <2>1. Pending(c)
    BY <1>1 DEF Pending
  <2>2. CASE CancelledSeen(x)
    BY <1>4, <2>1, <2>2 DEF OInv, NoneToCome
  <2>3. CASE x = o
    BY <1>2, <2>1, <2>3 DEF Pending
  <2> QED
    BY <1>9, <2>2, <2>3
<1>11. Assigned' = Assigned \ {o} /\ (o \in Assigned <=> released = 1)
  BY <1>2, <1>3 DEF Assigned
<1>12. DriversBalance'
  <2>1. Cardinality(Assigned') = Cardinality(Assigned) - released
    <3>1. CASE o \in Assigned
      BY <1>11, <3>1, AssignedFinite, FS_RemoveElement
    <3>2. CASE o \notin Assigned
      <4>1. Assigned' = Assigned /\ released = 0
        BY <1>11, <3>2
      <4> QED
        BY <4>1, AssignedFinite
    <3> QED
      BY <3>1, <3>2
  <2>2. matches_made = drivers_released + Cardinality(Assigned) /\ matches_made' = matches_made
    BY DEF OInv, DriversBalance
  <2> HIDE DEF released
  <2> QED
    BY <1>3, <2>1, <2>2, AssignedFinite DEF DriversBalance
<1>13. CancelledAreReleased'
  <2> SUFFICES ASSUME NEW x \in Assigned', NEW i \in 1 .. Len(got'["release"]),
                      about[got'["release"][i]] = x
               PROVE  x \in overtaken'
    BY DEF CancelledAreReleased
  <2>1. x \in Assigned /\ x # o
    BY <1>11
  <2>2. PICK j \in 1 .. Len(got["release"]) : got'["release"][i] = got["release"][j]
    BY <1>8, <2>1
  <2> QED
    BY <1>4, <2>1, <2>2 DEF OInv, CancelledAreReleased
<1>14. OncePerOrder'
  BY DEF OInv, OncePerOrder
<1> QED
  BY <1>1, <1>5, <1>6, <1>7, <1>10, <1>12, <1>13, <1>14 DEF OInv

-----------------------------------------------------------------------------
LEMMA ServicesInvariance == ServicesSpec => []OInv
<1>1. ASSUME ServicesAssumption, OInv, [ServicesNext]_serviceVars PROVE OInv'
  <2> USE <1>1
  <2>1. ASSUME NEW o \in Orders, NEW topic \in Topics, Publish(o, topic) PROVE OInv'
    BY <2>1, PublishKeeps
  <2>2. ASSUME NEW s \in Subs \ {"release"}, Begin(s) PROVE OInv'
    BY <2>2, BeginKeeps
  <2>3. CASE CallbackEnds
    BY <2>3, KitchenKeeps, BillingKeeps, MatchingKeeps, AnalyticsKeeps DEF CallbackEnds
  <2>4. CASE UNCHANGED serviceVars
    <3>1. ServicesTypeOK' /\ GotInv' /\ HandInv' /\ StillNew' /\ OncePerOrder'
      BY <2>4 DEF serviceVars, busVars, driverVars, OInv, ServicesTypeOK, GotInv, HandInv, StillNew, OncePerOrder
    <3>2. NoneToCome'
      BY <2>4 DEF serviceVars, busVars, driverVars, OInv, NoneToCome, Pending, CancelledSeen, Bus!Seen
    <3>3. DriversBalance' /\ CancelledAreReleased'
      BY <2>4 DEF serviceVars, busVars, driverVars, OInv, DriversBalance, CancelledAreReleased, Assigned
    <3> QED
      BY <3>1, <3>2, <3>3 DEF OInv
  <2> QED
    BY <2>1, <2>2, <2>3, <2>4, ReleaseKeeps DEF ServicesNext
<1> QED
  BY <1>1, ServicesStart, ServicesAssumption, PTL DEF ServicesSpec

(* Every variable keeps to its type.                                       *)
THEOREM ServicesTyped == ServicesSpec => []ServicesTypeOK
<1>1. OInv => ServicesTypeOK
  BY DEF OInv
<1> QED
  BY <1>1, ServicesInvariance, PTL

(* However often its event is published, an order is charged once and      *)
(* shown to the kitchen once.                                              *)
THEOREM ChargedAndShownOnce == ServicesSpec => []OncePerOrder
<1>1. OInv => OncePerOrder
  BY DEF OInv
<1> QED
  BY <1>1, ServicesInvariance, PTL

(* Matches and releases account for the assignments, and a cancelled order *)
(* keeps a driver only when its cancellation overtook its matching.        *)
THEOREM DriversAreAccounted == ServicesSpec => []DriversAccounted
<1>1. OInv => DriversAccounted
  BY DEF OInv, DriversAccounted
<1> QED
  BY <1>1, ServicesInvariance, PTL

-----------------------------------------------------------------------------
(***************************************************************************)
(* Proofs about the two servers on bare sockets of chapter 0, for any      *)
(* number of clients and requests, any buffer and any cut of the stream.   *)
(***************************************************************************)

(* FlattenSeq satisfies its recursion.                                     *)
Flattens(w, seqs) ==
    /\ w[0] = << >>
    /\ \A n \in 1 .. Len(seqs) : w[n] = w[n - 1] \o seqs[n]

LEMMA FlattenSolved ==
    ASSUME NEW T, NEW seqs \in Seq(Seq(T))
    PROVE  \E w \in [0 .. Len(seqs) -> Seq(T)] :
              Flattens(w, seqs) /\ FlattenSeq(seqs) = w[Len(seqs)]
<1> DEFINE m == Len(seqs)
           F(f) == [i \in 1 .. m |-> IF i = 1 THEN seqs[i] ELSE f[i - 1] \o seqs[i]]
           f == CHOOSE g : g = F(g)
<1>1. m \in Nat /\ \A n \in 1 .. m : seqs[n] \in Seq(T)
  OBVIOUS
<1>2. PICK g \in [0 .. m -> Seq(T)] : Flattens(g, seqs)
  <2>1. SeqsOf(seqs, m, T)
    BY <1>1 DEF SeqsOf
  <2>2. \E g : Concatenation(g, seqs, m, T)
    BY <1>1, <2>1, JoinsUp
  <2> QED
    BY <2>2 DEF Concatenation, Flattens
<1>3. m = 0 => FlattenSeq(seqs) = g[m]
  BY <1>2 DEF FlattenSeq, Flattens
<1>4. ASSUME m # 0
      PROVE  FlattenSeq(seqs) = g[m]
  <2> DEFINE r == [i \in 1 .. m |-> g[i]]
  <2>1. r = F(r)
    <3> SUFFICES ASSUME NEW i \in 1 .. m
                 PROVE  r[i] = F(r)[i]
      OBVIOUS
    <3>1. r[i] = g[i - 1] \o seqs[i]
      BY <1>2 DEF Flattens
    <3>2. CASE i = 1
      <4>1. i - 1 = 0 /\ g[0] = << >>
        BY <1>2, <3>2 DEF Flattens
      <4>2. r[i] = << >> \o seqs[i]
        <5> HIDE DEF r
        <5> QED
          BY <3>1, <4>1
      <4> QED
        BY <1>1, <3>2, <4>2
    <3>3. CASE i # 1
      <4>1. i - 1 \in 1 .. m
        BY <1>1, <3>3
      <4>2. r[i - 1] = g[i - 1]
        BY <4>1
      <4>3. F(r)[i] = r[i - 1] \o seqs[i]
        <5> HIDE DEF r
        <5> QED
          BY <3>3
      <4> QED
        BY <3>1, <4>2, <4>3
    <3> QED
      BY <3>2, <3>3
  <2>2. f = F(f)
    BY <2>1
  <2>3. FlattenSeq(seqs) = f[m]
    BY <1>4 DEF FlattenSeq
  <2> HIDE DEF f, r
  <2> DEFINE P == {n \in 0 .. m - 1 : f[n + 1] = g[n + 1]}
  <2>4. m - 1 \in Nat /\ 1 \in 1 .. m
    BY <1>1, <1>4
  <2>5. 0 \in P
    <3>1. f[1] = seqs[1]
      BY <2>2, <2>4
    <3>2. g[1] = << >> \o seqs[1]
      <4>1. g[1] = g[1 - 1] \o seqs[1] /\ g[0] = << >>
        BY <1>2, <2>4 DEF Flattens
      <4>2. 1 - 1 = 0
        OBVIOUS
      <4> QED
        BY <4>1, <4>2
    <3>3. << >> \o seqs[1] = seqs[1]
      BY <1>1, <2>4
    <3> QED
      BY <2>4, <3>1, <3>2, <3>3
  <2>6. ASSUME NEW n \in 0 .. m - 1, n \in P /\ n < m - 1
        PROVE  n + 1 \in P
    <3>1. n + 2 \in 1 .. m /\ (n + 2) - 1 = n + 1 /\ n + 2 # 1 /\ (n + 1) + 1 = n + 2
          /\ n + 1 \in 0 .. m - 1
      BY <1>1, <2>6
    <3>2. f[n + 2] = f[n + 1] \o seqs[n + 2]
      <4> HIDE DEF m
      <4>1. f[n + 2] = F(f)[n + 2]
        <5> HIDE DEF F
        <5> QED
          BY <2>2
      <4> QED
        BY <3>1, <4>1
    <3>3. g[n + 2] = g[n + 1] \o seqs[n + 2]
      BY <1>2, <3>1 DEF Flattens
    <3>4. f[n + 1] = g[n + 1]
      BY <2>6
    <3> QED
      BY <3>1, <3>2, <3>3, <3>4
  <2>7. 0 .. m - 1 \subseteq P
    <3> HIDE DEF P
    <3> QED
      BY <2>4, <2>5, <2>6, UpTo
  <2>8. m - 1 \in P /\ (m - 1) + 1 = m
    <3>1. m - 1 \in 0 .. m - 1
      BY <2>4
    <3>2. (m - 1) + 1 = m
      BY <1>1
    <3> HIDE DEF P, m
    <3> QED
      BY <2>7, <3>1, <3>2
  <2> QED
    BY <2>3, <2>8
<1> QED
  BY <1>2, <1>3, <1>4

LEMMA FlattenEmpty == FlattenSeq(<< >>) = << >>
BY DEF FlattenSeq

LEMMA FlattenType ==
    ASSUME NEW T, NEW seqs \in Seq(Seq(T))
    PROVE  FlattenSeq(seqs) \in Seq(T)
<1>1. PICK w \in [0 .. Len(seqs) -> Seq(T)] :
         Flattens(w, seqs) /\ FlattenSeq(seqs) = w[Len(seqs)]
  BY FlattenSolved
<1>2. Len(seqs) \in 0 .. Len(seqs)
  OBVIOUS
<1> QED
  BY <1>1, <1>2

LEMMA FlattenAppend ==
    ASSUME NEW T, NEW seqs \in Seq(Seq(T)), NEW s \in Seq(T)
    PROVE  FlattenSeq(Append(seqs, s)) = FlattenSeq(seqs) \o s
<1> DEFINE m == Len(seqs)
           more == Append(seqs, s)
<1>1. more \in Seq(Seq(T)) /\ Len(more) = m + 1 /\ m \in Nat /\ more[m + 1] = s
      /\ \A n \in 1 .. m : more[n] = seqs[n]
  OBVIOUS
<1>2. PICK w \in [0 .. m -> Seq(T)] : Flattens(w, seqs) /\ FlattenSeq(seqs) = w[m]
  BY FlattenSolved
<1> HIDE DEF more
<1>3. PICK v \in [0 .. m + 1 -> Seq(T)] : Flattens(v, more) /\ FlattenSeq(more) = v[m + 1]
  <2>1. \E v \in [0 .. Len(more) -> Seq(T)] :
           Flattens(v, more) /\ FlattenSeq(more) = v[Len(more)]
    BY <1>1, FlattenSolved
  <2> HIDE DEF m
  <2> QED
    BY <1>1, <2>1
<1> DEFINE P == {n \in 0 .. m : v[n] = w[n]}
<1>4. 0 \in P
  BY <1>1, <1>2, <1>3 DEF Flattens
<1>5. ASSUME NEW n \in 0 .. m, n \in P /\ n < m
      PROVE  n + 1 \in P
  <2>1. n + 1 \in 1 .. m /\ n + 1 \in 1 .. m + 1 /\ (n + 1) - 1 = n /\ n + 1 \in 0 .. m
    BY <1>1, <1>5
  <2>2. v[n + 1] = v[n] \o more[n + 1] /\ w[n + 1] = w[n] \o seqs[n + 1]
    <3>1. n + 1 \in 1 .. Len(more)
      BY <1>1, <2>1
    <3> QED
      BY <1>2, <1>3, <2>1, <3>1 DEF Flattens
  <2>3. v[n] = w[n] /\ more[n + 1] = seqs[n + 1]
    BY <1>1, <1>5, <2>1
  <2> QED
    BY <2>1, <2>2, <2>3
<1>6. 0 .. m \subseteq P
  <2> HIDE DEF P, m
  <2> QED
    BY <1>1, <1>4, <1>5, UpTo
<1>7. v[m] = w[m]
  <2>1. m \in 0 .. m
    BY <1>1
  <2> QED
    BY <1>6, <2>1
<1>8. v[m + 1] = v[m] \o s
  <2>1. m + 1 \in 1 .. Len(more) /\ (m + 1) - 1 = m
    BY <1>1
  <2> QED
    BY <1>1, <1>3, <2>1 DEF Flattens
<1> QED
  BY <1>2, <1>3, <1>7, <1>8 DEF more

(* The stream of requests ks, and where the first k of them end.           *)
AllKinds == HttpKinds \union {"text"}
Part == {"lead", "tail", "replaced", "line", "blank", "body"}
Unit == Nat \X Part
EndOf(ks, k) == Len(Units(SubSeq(ks, 1, k)))

LEMMA PartsFacts ==
    ASSUME NEW k \in AllKinds
    PROVE  /\ PartsOf(k) \in Seq(Part) /\ Len(PartsOf(k)) \in 2 .. 3
           /\ k # "text" => PartsOf(k)[1] = "line" /\ PartsOf(k)[2] = "blank"
           /\ k # "text" /\ Len(PartsOf(k)) = 3 => PartsOf(k)[3] = "body"
           /\ k = "post" => Len(PartsOf(k)) = 3
           /\ k = "text" => PartsOf(k) = <<"lead", "tail">>
           /\ \A i \in 1 .. Len(PartsOf(k)) : PartsOf(k)[i] = "line" => i = 1
<1>1. CASE k = "text"
  <2>1. PartsOf(k) = <<"lead", "tail">>
    BY <1>1 DEF PartsOf
  <2>2. Len(PartsOf(k)) = 2 /\ PartsOf(k)[1] = "lead" /\ PartsOf(k)[2] = "tail"
    BY <2>1
  <2>3. "lead" \in Part /\ "tail" \in Part
    BY DEF Part
  <2>4. PartsOf(k) \in Seq(Part)
    BY <2>1, <2>3
  <2>5. \A i \in 1 .. Len(PartsOf(k)) : i = 1 \/ i = 2
    BY <2>2
  <2> QED
    BY <1>1, <2>1, <2>2, <2>4, <2>5
<1>2. CASE k \in {"post", "odd"}
  <2>1. PartsOf(k) = <<"line", "blank", "body">>
    BY <1>2 DEF PartsOf
  <2> QED
    BY <1>2, <2>1 DEF Part
<1>3. CASE k \notin {"text", "post", "odd"}
  <2>1. PartsOf(k) = <<"line", "blank">>
    BY <1>3 DEF PartsOf
  <2> QED
    BY <1>3, <2>1 DEF Part
<1> QED
  BY <1>1, <1>2, <1>3

LEMMA UnitsOfFacts ==
    ASSUME NEW n \in Nat, NEW k \in AllKinds
    PROVE  /\ UnitsOf(n, k) \in Seq(Unit) /\ Len(UnitsOf(n, k)) = Len(PartsOf(k))
           /\ \A i \in 1 .. Len(PartsOf(k)) : UnitsOf(n, k)[i] = <<n, PartsOf(k)[i]>>
<1>1. PartsOf(k) \in Seq(Part)
  BY PartsFacts
<1>2. DOMAIN PartsOf(k) = 1 .. Len(PartsOf(k)) /\ Len(PartsOf(k)) \in Nat
      /\ \A i \in 1 .. Len(PartsOf(k)) : PartsOf(k)[i] \in Part
  BY <1>1
<1> DEFINE m == Len(PartsOf(k))
           u == [i \in 1 .. m |-> <<n, PartsOf(k)[i]>>]
<1>3. UnitsOf(n, k) = u
  BY <1>2 DEF UnitsOf
<1>4. \A i \in 1 .. m : <<n, PartsOf(k)[i]>> \in Unit
  BY <1>2 DEF Unit
<1>5. u \in Seq(Unit) /\ Len(u) = m
  <2>1. m \in Nat
    BY <1>2
  <2> HIDE DEF m
  <2> QED
    BY <1>4, <2>1
<1> QED
  BY <1>3, <1>5

LEMMA UnitsEmpty == Units(<< >>) = << >>
<1>1. [n \in DOMAIN << >> |-> UnitsOf(n, << >>[n])] = << >>
  OBVIOUS
<1> QED
  BY <1>1, FlattenEmpty DEF Units

LEMMA BlocksType ==
    ASSUME NEW ks \in Seq(AllKinds)
    PROVE  [n \in DOMAIN ks |-> UnitsOf(n, ks[n])] \in Seq(Seq(Unit))
<1>1. DOMAIN ks = 1 .. Len(ks) /\ Len(ks) \in Nat
      /\ \A n \in 1 .. Len(ks) : n \in Nat /\ ks[n] \in AllKinds
  OBVIOUS
<1>2. \A n \in 1 .. Len(ks) : UnitsOf(n, ks[n]) \in Seq(Unit)
  BY <1>1, UnitsOfFacts
<1> QED
  BY <1>1, <1>2

LEMMA UnitsAppend ==
    ASSUME NEW ks \in Seq(AllKinds), NEW k \in AllKinds
    PROVE  Units(Append(ks, k)) = Units(ks) \o UnitsOf(Len(ks) + 1, k)
<1> DEFINE more == Append(ks, k)
           m == Len(ks)
           b == [n \in DOMAIN ks |-> UnitsOf(n, ks[n])]
           d == [n \in DOMAIN more |-> UnitsOf(n, more[n])]
           u == UnitsOf(m + 1, k)
<1>1. m \in Nat /\ DOMAIN ks = 1 .. m /\ DOMAIN more = 1 .. m + 1 /\ more[m + 1] = k
      /\ \A n \in 1 .. m : more[n] = ks[n]
  OBVIOUS
<1>2. b \in Seq(Seq(Unit)) /\ u \in Seq(Unit)
  BY <1>1, BlocksType, UnitsOfFacts
<1>3. Len(b) = m /\ (\A n \in 1 .. m : b[n] = UnitsOf(n, ks[n])) /\ DOMAIN d = 1 .. m + 1
      /\ \A n \in 1 .. m + 1 : d[n] = UnitsOf(n, more[n])
  <2> HIDE DEF more, m
  <2> QED
    BY <1>1
<1>4. d = Append(b, u)
  <2>1. d \in Seq(Seq(Unit)) /\ Len(d) = m + 1
    <3>1. more \in Seq(AllKinds)
      OBVIOUS
    <3> HIDE DEF more
    <3>2. d \in Seq(Seq(Unit))
      BY <3>1, BlocksType
    <3> HIDE DEF d, m
    <3> QED
      BY <1>1, <1>3, <3>2
  <2>2. Append(b, u) \in Seq(Seq(Unit)) /\ Len(Append(b, u)) = m + 1
        /\ Append(b, u)[m + 1] = u /\ \A n \in 1 .. m : Append(b, u)[n] = b[n]
    <3>1. b \in Seq(Seq(Unit)) /\ Len(b) = m
      BY <1>2, <1>3
    <3> HIDE DEF b, u, m
    <3> QED
      BY <1>1, <1>2, <3>1
  <2>3. \A n \in 1 .. m + 1 : d[n] = Append(b, u)[n]
    <3> SUFFICES ASSUME NEW n \in 1 .. m + 1
                 PROVE  d[n] = Append(b, u)[n]
      OBVIOUS
    <3>1. CASE n = m + 1
      <4>1. d[n] = u
        BY <1>1, <1>3, <3>1
      <4> HIDE DEF b, d, u, m
      <4> QED
        BY <2>2, <3>1, <4>1
    <3>2. CASE n # m + 1
      <4>1. n \in 1 .. m
        BY <1>1, <3>2
      <4>2. d[n] = b[n]
        <5> HIDE DEF b, d, m, more
        <5> QED
          BY <1>1, <1>3, <4>1
      <4> HIDE DEF b, d, u, m
      <4> QED
        BY <2>2, <4>1, <4>2
    <3> QED
      BY <3>1, <3>2
  <2> HIDE DEF b, d, u, m
  <2> QED
    BY <2>1, <2>2, <2>3
<1>5. FlattenSeq(Append(b, u)) = FlattenSeq(b) \o u
  <2> HIDE DEF b, u
  <2> QED
    BY <1>2, FlattenAppend
<1> QED
  BY <1>4, <1>5 DEF Units

LEMMA UnitsType ==
    ASSUME NEW ks \in Seq(AllKinds)
    PROVE  Units(ks) \in Seq(Unit)
BY BlocksType, FlattenType DEF Units

(* A unit belongs to one of the requests, the requests come in their       *)
(* order, and each has one line.                                           *)
LinesAscend(ks) ==
    \A p, q \in 1 .. Len(Units(ks)) :
        /\ Units(ks)[p] \in (1 .. Len(ks)) \X Part
        /\ p < q /\ Units(ks)[p][2] = "line" /\ Units(ks)[q][2] = "line"
              => Units(ks)[p][1] < Units(ks)[q][1]

LEMMA LinesHold ==
    ASSUME NEW ks \in Seq(AllKinds)
    PROVE  LinesAscend(ks)
<1> DEFINE P == {s \in Seq(AllKinds) : LinesAscend(s)}
<1>1. << >> \in P
  BY UnitsEmpty DEF LinesAscend
<1>2. ASSUME NEW s \in Seq(AllKinds), NEW k \in AllKinds, s \in P
      PROVE  Append(s, k) \in P
  <2> DEFINE u == Units(s)
             n == Len(s) + 1
             v == UnitsOf(n, k)
             more == Append(s, k)
             a == Len(u)
             b == Len(v)
  <2>1. u \in Seq(Unit) /\ v \in Seq(Unit) /\ n \in Nat /\ more \in Seq(AllKinds)
        /\ Len(more) = n /\ Len(s) \in Nat
    BY UnitsType, UnitsOfFacts
  <2>2. Units(more) = u \o v
    BY UnitsAppend
  <2>3. \A i \in 1 .. b : v[i][1] = n /\ v[i] \in (1 .. n) \X Part /\ (v[i][2] = "line" => i = 1)
    <3>1. b = Len(PartsOf(k)) /\ \A i \in 1 .. b : v[i] = <<n, PartsOf(k)[i]>>
      BY <2>1, UnitsOfFacts
    <3>2. \A i \in 1 .. b : PartsOf(k)[i] \in Part /\ (PartsOf(k)[i] = "line" => i = 1)
      BY <3>1, PartsFacts
    <3>3. n \in 1 .. n
      BY <2>1
    <3> HIDE DEF v, n, b
    <3> SUFFICES ASSUME NEW i \in 1 .. b
                 PROVE  v[i][1] = n /\ v[i] \in (1 .. n) \X Part /\ (v[i][2] = "line" => i = 1)
      OBVIOUS
    <3> DEFINE t == PartsOf(k)[i]
    <3>4. v[i] = <<n, t>> /\ t \in Part /\ (t = "line" => i = 1)
      BY <3>1, <3>2
    <3> HIDE DEF t
    <3> QED
      BY <3>3, <3>4
  <2>4. LinesAscend(s)
    BY <1>2
  <2>5. \A i \in 1 .. a : u[i] \in (1 .. Len(s)) \X Part
    BY <2>4 DEF LinesAscend
  <2>6. \A i \in 1 .. a : u[i] \in (1 .. n) \X Part /\ u[i][1] < n
    <3>1. 1 .. Len(s) \subseteq 1 .. n /\ \A i \in 1 .. Len(s) : i < n
      BY <2>1
    <3> HIDE DEF u, n, a
    <3> QED
      BY <2>5, <3>1
  <2>7. \A i, j \in 1 .. a : i < j /\ u[i][2] = "line" /\ u[j][2] = "line" => u[i][1] < u[j][1]
    BY <2>4 DEF LinesAscend
  <2> HIDE DEF u, v, n
  <2>8. a \in Nat /\ b \in Nat /\ Len(u \o v) = a + b
        /\ (\A i \in 1 .. a : (u \o v)[i] = u[i])
        /\ \A i \in a + 1 .. a + b : i - a \in 1 .. b /\ (u \o v)[i] = v[i - a]
    <3>1. a \in Nat /\ b \in Nat /\ Len(u \o v) = a + b
          /\ \A i \in 1 .. a + b : (u \o v)[i] = IF i <= a THEN u[i] ELSE v[i - a]
      BY <2>1
    <3> HIDE DEF a, b
    <3> QED
      BY <3>1
  <2> DEFINE w == u \o v
  <2> HIDE DEF w, a, b
  <2>9. \A p \in 1 .. a + b : w[p] \in (1 .. n) \X Part
    <3> SUFFICES ASSUME NEW p \in 1 .. a + b
                 PROVE  w[p] \in (1 .. n) \X Part
      OBVIOUS
    <3>1. CASE p \in 1 .. a
      BY <2>6, <2>8, <3>1 DEF w
    <3>2. CASE p \in a + 1 .. a + b
      BY <2>3, <2>8, <3>2 DEF w
    <3>3. p \in 1 .. a \/ p \in a + 1 .. a + b
      BY <2>8
    <3> QED
      BY <3>1, <3>2, <3>3
  <2>10. ASSUME NEW p \in 1 .. a + b, NEW q \in 1 .. a + b, p < q,
                w[p][2] = "line", w[q][2] = "line"
         PROVE  w[p][1] < w[q][1]
    <3>1. CASE q \in 1 .. a
      <4>1. p \in 1 .. a
        BY <2>8, <2>10, <3>1
      <4>2. w[p] = u[p] /\ w[q] = u[q]
        BY <2>8, <3>1, <4>1 DEF w
      <4> QED
        BY <2>7, <2>10, <3>1, <4>1, <4>2
    <3>2. CASE p \in 1 .. a /\ q \in a + 1 .. a + b
      <4>1. w[p][1] < n
        BY <2>6, <2>8, <3>2 DEF w
      <4>2. w[q][1] = n
        BY <2>3, <2>8, <3>2 DEF w
      <4> QED
        BY <4>1, <4>2
    <3>3. CASE p \in a + 1 .. a + b /\ q \in a + 1 .. a + b
      <4>1. p - a \in 1 .. b /\ q - a \in 1 .. b /\ w[p] = v[p - a] /\ w[q] = v[q - a]
        BY <2>8, <3>3 DEF w
      <4>2. p - a = 1 /\ q - a = 1
        BY <2>3, <2>10, <4>1
      <4> QED
        BY <2>8, <2>10, <4>2
    <3>4. q \in 1 .. a \/ (p \in 1 .. a /\ q \in a + 1 .. a + b)
          \/ (p \in a + 1 .. a + b /\ q \in a + 1 .. a + b)
      BY <2>8, <2>10
    <3> QED
      BY <3>1, <3>2, <3>3, <3>4
  <2>11. Units(more) = w /\ Len(w) = a + b /\ Len(more) = n
    BY <2>1, <2>2, <2>8 DEF w
  <2>12. LinesAscend(more)
    BY <2>9, <2>10, <2>11 DEF LinesAscend
  <2> QED
    BY <2>1, <2>12
<1>3. Seq(AllKinds) \subseteq P
  <2> HIDE DEF P
  <2> QED
    BY <1>1, <1>2, BySequence
<1> QED
  BY <1>3

LEMMA UnitsLengthen ==
    ASSUME NEW ks \in Seq(AllKinds), NEW k \in AllKinds
    PROVE  /\ Len(Units(ks)) \in Nat
           /\ Len(Units(Append(ks, k))) = Len(Units(ks)) + Len(PartsOf(k))
           /\ \A p \in 1 .. Len(Units(ks)) : Units(Append(ks, k))[p] = Units(ks)[p]
           /\ \A i \in 1 .. Len(PartsOf(k)) :
                 Units(Append(ks, k))[Len(Units(ks)) + i] = <<Len(ks) + 1, PartsOf(k)[i]>>
<1> DEFINE u == Units(ks)
           n == Len(ks) + 1
           v == UnitsOf(n, k)
           a == Len(u)
           b == Len(v)
<1>1. u \in Seq(Unit) /\ n \in Nat /\ v \in Seq(Unit) /\ b = Len(PartsOf(k))
      /\ \A i \in 1 .. b : v[i] = <<n, PartsOf(k)[i]>>
  <2>1. n \in Nat /\ u \in Seq(Unit)
    BY UnitsType
  <2> HIDE DEF n, u
  <2>2. v \in Seq(Unit) /\ b = Len(PartsOf(k))
        /\ \A i \in 1 .. Len(PartsOf(k)) : v[i] = <<n, PartsOf(k)[i]>>
    BY <2>1, UnitsOfFacts
  <2> QED
    BY <2>1, <2>2
<1>2. Units(Append(ks, k)) = u \o v
  BY UnitsAppend
<1> HIDE DEF u, v, n
<1>3. a \in Nat /\ b \in Nat /\ Len(u \o v) = a + b
      /\ \A i \in 1 .. a + b : (u \o v)[i] = IF i <= a THEN u[i] ELSE v[i - a]
  <2>1. u \in Seq(Unit) /\ v \in Seq(Unit)
    BY <1>1
  <2>2. Len(u \o v) = Len(u) + Len(v)
        /\ \A i \in 1 .. Len(u) + Len(v) : (u \o v)[i] = IF i <= Len(u) THEN u[i] ELSE v[i - Len(u)]
    BY <2>1, ConcatProperties
  <2> QED
    BY <2>1, <2>2
<1>4. /\ \A p \in 1 .. a : p \in 1 .. a + b /\ p <= a
      /\ \A i \in 1 .. b : a + i \in 1 .. a + b /\ ~ (a + i <= a) /\ (a + i) - a = i
  <2> HIDE DEF a, b
  <2> QED
    BY <1>3
<1>5. (\A p \in 1 .. a : (u \o v)[p] = u[p]) /\ \A i \in 1 .. b : (u \o v)[a + i] = v[i]
  <2> HIDE DEF a, b
  <2> QED
    BY <1>3, <1>4
<1> QED
  BY <1>1, <1>2, <1>3, <1>5 DEF u, n

LEMMA PrefixOf ==
    ASSUME NEW ks \in Seq(AllKinds), NEW k \in AllKinds
    PROVE  /\ \A j \in 0 .. Len(ks) : SubSeq(Append(ks, k), 1, j) = SubSeq(ks, 1, j)
           /\ SubSeq(Append(ks, k), 1, Len(ks) + 1) = Append(ks, k)
           /\ SubSeq(ks, 1, Len(ks)) = ks
           /\ SubSeq(ks, 1, 0) = << >>
           /\ \A j \in 1 .. Len(ks) : /\ SubSeq(ks, 1, j - 1) \in Seq(AllKinds)
                                      /\ Len(SubSeq(ks, 1, j - 1)) = j - 1
                                      /\ SubSeq(ks, 1, j) = Append(SubSeq(ks, 1, j - 1), ks[j])
<1>1. \A j \in 0 .. Len(ks) : SubSeq(Append(ks, k), 1, j) = SubSeq(ks, 1, j)
  OBVIOUS
<1>2. SubSeq(Append(ks, k), 1, Len(ks) + 1) = Append(ks, k)
  OBVIOUS
<1>3. SubSeq(ks, 1, Len(ks)) = ks /\ SubSeq(ks, 1, 0) = << >>
  OBVIOUS
<1>4. ASSUME NEW j \in 1 .. Len(ks)
      PROVE  /\ SubSeq(ks, 1, j - 1) \in Seq(AllKinds)
             /\ Len(SubSeq(ks, 1, j - 1)) = j - 1
             /\ SubSeq(ks, 1, j) = Append(SubSeq(ks, 1, j - 1), ks[j])
  OBVIOUS
<1> QED
  BY <1>1, <1>2, <1>3, <1>4

(* The stream begins with the stream of fewer requests.                    *)
BeginsWith(ks, j) ==
    /\ EndOf(ks, j) <= Len(Units(ks))
    /\ \A p \in 1 .. EndOf(ks, j) : Units(ks)[p] = Units(SubSeq(ks, 1, j))[p]

LEMMA UnitsBegin ==
    ASSUME NEW ks \in Seq(AllKinds)
    PROVE  \A j \in 0 .. Len(ks) : BeginsWith(ks, j)
<1> DEFINE Begins(s) == \A j \in 0 .. Len(s) : BeginsWith(s, j)
           P == {s \in Seq(AllKinds) : Begins(s)}
<1>1. << >> \in P
  <2>1. SubSeq(<< >>, 1, 0) = << >> /\ Len(<< >>) = 0
    OBVIOUS
  <2>2. BeginsWith(<< >>, 0)
    <3>1. Len(Units(<< >>)) = 0
      BY <2>1, UnitsEmpty
    <3>2. EndOf(<< >>, 0) = 0
      BY <2>1, <3>1 DEF EndOf
    <3> QED
      BY <2>1, <3>1, <3>2 DEF BeginsWith
  <2>3. \A j \in 0 .. 0 : j = 0
    OBVIOUS
  <2> QED
    BY <2>1, <2>2, <2>3
<1>2. ASSUME NEW s \in Seq(AllKinds), NEW k \in AllKinds, s \in P
      PROVE  Append(s, k) \in P
  <2> DEFINE more == Append(s, k)
             a == Len(Units(s))
             b == Len(Units(more))
  <2>1. more \in Seq(AllKinds) /\ Len(more) = Len(s) + 1 /\ Len(s) \in Nat
    OBVIOUS
  <2>2. a \in Nat /\ b \in Nat /\ a <= b /\ \A p \in 1 .. a : Units(more)[p] = Units(s)[p]
    <3>1. Len(PartsOf(k)) \in Nat
      BY PartsFacts
    <3> HIDE DEF a, b
    <3> QED
      BY <3>1, UnitsLengthen DEF a, b
  <2>3. ASSUME NEW j \in 0 .. Len(s)
        PROVE  BeginsWith(more, j)
    <3> DEFINE e == EndOf(s, j)
    <3>1. BeginsWith(s, j)
      BY <1>2
    <3>2. EndOf(more, j) = e /\ SubSeq(more, 1, j) = SubSeq(s, 1, j)
      BY PrefixOf DEF EndOf
    <3>3. e \in Nat
      <4>1. SubSeq(s, 1, j) \in Seq(AllKinds)
        OBVIOUS
      <4> QED
        BY <4>1, UnitsLengthen DEF EndOf
    <3>4. e <= a /\ \A p \in 1 .. e : Units(s)[p] = Units(SubSeq(s, 1, j))[p]
      BY <3>1 DEF BeginsWith
    <3> HIDE DEF e, more, a, b
    <3>5. e <= b /\ \A p \in 1 .. e : p \in 1 .. a
      BY <2>2, <3>3, <3>4
    <3>6. \A p \in 1 .. e : Units(more)[p] = Units(SubSeq(more, 1, j))[p]
      BY <2>2, <3>2, <3>4, <3>5
    <3> QED
      BY <3>2, <3>5, <3>6 DEF BeginsWith, b
  <2>4. BeginsWith(more, Len(s) + 1)
    <3>1. SubSeq(more, 1, Len(s) + 1) = more
      BY PrefixOf
    <3>2. EndOf(more, Len(s) + 1) = b
      BY <3>1 DEF EndOf
    <3>3. b <= b
      BY <2>2
    <3> HIDE DEF more
    <3>4. EndOf(more, Len(s) + 1) <= Len(Units(more))
      BY <3>2, <3>3
    <3> QED
      BY <3>1, <3>4 DEF BeginsWith
  <2>5. \A j \in 0 .. Len(more) : j \in 0 .. Len(s) \/ j = Len(s) + 1
    BY <2>1
  <2>6. Begins(more)
    BY <2>3, <2>4, <2>5
  <2>7. more \in P
    <3> HIDE DEF more, Begins
    <3> QED
      BY <2>1, <2>6
  <2> QED
    BY <2>7
<1>3. Seq(AllKinds) \subseteq P
  <2> HIDE DEF P
  <2> QED
    BY <1>1, <1>2, BySequence
<1> QED
  BY <1>3

(* Where one request ends the next begins.                                 *)
Block(ks, j) ==
    /\ EndOf(ks, j) = EndOf(ks, j - 1) + Len(PartsOf(ks[j]))
    /\ EndOf(ks, j) <= Len(Units(ks))
    /\ \A i \in 1 .. Len(PartsOf(ks[j])) :
          Units(ks)[EndOf(ks, j - 1) + i] = <<j, PartsOf(ks[j])[i]>>

LEMMA EndsAreNat ==
    ASSUME NEW ks \in Seq(AllKinds)
    PROVE  \A j \in 0 .. Len(ks) : EndOf(ks, j) \in Nat
<1> SUFFICES ASSUME NEW j \in 0 .. Len(ks)
             PROVE  EndOf(ks, j) \in Nat
  OBVIOUS
<1>1. SubSeq(ks, 1, j) \in Seq(AllKinds)
  OBVIOUS
<1>2. Units(SubSeq(ks, 1, j)) \in Seq(Unit)
  BY <1>1, UnitsType
<1> QED
  BY <1>2 DEF EndOf

LEMMA EndsOf ==
    ASSUME NEW ks \in Seq(AllKinds)
    PROVE  EndOf(ks, 0) = 0 /\ EndOf(ks, Len(ks)) = Len(Units(ks))
<1>1. "text" \in AllKinds
  BY DEF AllKinds
<1>2. SubSeq(ks, 1, Len(ks)) = ks /\ SubSeq(ks, 1, 0) = << >>
  BY <1>1, PrefixOf
<1>3. Len(Units(<< >>)) = 0
  <2>1. Len(<< >>) = 0
    OBVIOUS
  <2> QED
    BY <2>1, UnitsEmpty
<1>4. EndOf(ks, 0) = Len(Units(SubSeq(ks, 1, 0)))
      /\ EndOf(ks, Len(ks)) = Len(Units(SubSeq(ks, 1, Len(ks))))
  BY DEF EndOf
<1> QED
  BY <1>2, <1>3, <1>4, Zenon

LEMMA BlocksFollow ==
    ASSUME NEW ks \in Seq(AllKinds), NEW j \in 1 .. Len(ks)
    PROVE  Block(ks, j)
<1> DEFINE k == ks[j]
           s == SubSeq(ks, 1, j - 1)
           a == EndOf(ks, j - 1)
           b == Len(PartsOf(k))
           e == EndOf(ks, j)
           t == SubSeq(ks, 1, j)
<1>1. k \in AllKinds /\ j \in Nat /\ j \in 0 .. Len(ks) /\ j - 1 \in 0 .. Len(ks)
      /\ (j - 1) + 1 = j
  OBVIOUS
<1>2. s \in Seq(AllKinds) /\ Len(s) = j - 1 /\ t = Append(s, k)
  BY <1>1, PrefixOf
<1>3. a = Len(Units(s)) /\ e = Len(Units(t)) /\ a \in Nat /\ b \in Nat
  BY <1>1, EndsAreNat, PartsFacts DEF EndOf
<1> HIDE DEF k, s, a, b, e, t
<1>4. e = a + b /\ \A i \in 1 .. b : Units(t)[a + i] = <<j, PartsOf(k)[i]>>
  <2>1. /\ Len(Units(Append(s, k))) = Len(Units(s)) + Len(PartsOf(k))
        /\ \A i \in 1 .. Len(PartsOf(k)) :
              Units(Append(s, k))[Len(Units(s)) + i] = <<Len(s) + 1, PartsOf(k)[i]>>
    BY <1>1, <1>2, UnitsLengthen
  <2>2. Len(s) + 1 = j /\ Append(s, k) = t /\ Len(Units(s)) = a /\ Len(Units(t)) = e
    BY <1>1, <1>2, <1>3
  <2> QED
    BY <2>1, <2>2 DEF b
<1>5. e <= Len(Units(ks)) /\ \A p \in 1 .. e : Units(ks)[p] = Units(t)[p]
  BY <1>1, UnitsBegin DEF BeginsWith, e, t
<1>6. \A i \in 1 .. b : a + i \in 1 .. e
  BY <1>3, <1>4
<1>7. \A i \in 1 .. b : Units(ks)[a + i] = <<j, PartsOf(k)[i]>>
  BY <1>4, <1>5, <1>6
<1> QED
  BY <1>4, <1>5, <1>7 DEF Block, a, b, e, k

(* What was taken has arrived, and what has arrived was written.           *)
InStream(c) ==
    taken[c] <= arrived[c] /\ arrived[c] <= Len(Units(written[c]))

(* An answer to a request was given when its line was taken, and a client  *)
(* all of whose requests came whole has had one for each block taken.      *)
LinesTaken(c) ==
    \A i \in DOMAIN answers[c] :
        /\ answers[c][i].to # 0 =>
              \E p \in 1 .. taken[c] : Units(written[c])[p] = <<answers[c][i].to, "line">>
        /\ answers[c][i].status = 201 => answers[c][i].to # 0

WholeSoFar(c) ==
    /\ Len(answers[c]) <= Len(written[c])
    /\ taken[c] = EndOf(written[c], Len(answers[c]))
    /\ AnsweredRight(c)

HttpAnswers(c) == LinesTaken(c) /\ AnsweredOnce(c) /\ (c \notin torn => WholeSoFar(c))

HttpReply == [to : Nat, status : Nat]
ReplyTypes == answers \in [Clients -> Seq(IF server = "http" THEN HttpReply ELSE Seq(Unit))]

ClientInv(c) == InStream(c) /\ IF server = "http" THEN HttpAnswers(c) ELSE EchoedBack(c)

SocketsInv == SocketsTypeOK /\ ReplyTypes /\ \A c \in Clients : ClientInv(c)

LEMMA WrittenType ==
    ASSUME SocketsTypeOK, NEW c \in Clients
    PROVE  written[c] \in Seq(AllKinds)
<1>1. Kinds \subseteq AllKinds
  BY DEF Kinds, AllKinds
<1>2. written[c] \in Seq(Kinds)
  BY DEF SocketsTypeOK
<1> QED
  BY <1>1, <1>2

LEMMA SocketsStart == SocketsInit => SocketsInv
<1> SUFFICES ASSUME SocketsInit
             PROVE  SocketsInv
  OBVIOUS
<1>1. SocketsTypeOK /\ ReplyTypes
  <2>1. queue \in Seq(Clients) /\ serving \in Clients \union {NoClient}
    BY DEF SocketsInit
  <2>2. /\ sock \in [Clients -> {"new", "open", "eof", "reset", "lost", "closed"}]
        /\ arrived \in [Clients -> Nat] /\ taken \in [Clients -> Nat]
        /\ unread \in [Clients -> Nat]
    BY DEF SocketsInit
  <2>3. /\ server \in {"echo", "http"} /\ torn \subseteq Clients
        /\ written \in [Clients -> Seq(Kinds)]
    BY DEF SocketsInit
  <2>4. ReplyTypes
    BY DEF SocketsInit, ReplyTypes
  <2>5. listening \in BOOLEAN /\ closing \in BOOLEAN
    BY DEF SocketsInit
  <2> QED
    BY <2>1, <2>2, <2>3, <2>4, <2>5 DEF SocketsTypeOK
<1>2. ASSUME NEW c \in Clients
      PROVE  ClientInv(c)
  <2>1. written[c] = << >> /\ answers[c] = << >> /\ taken[c] = 0 /\ arrived[c] = 0
    BY DEF SocketsInit
  <2>2. Len(<< >>) = 0 /\ DOMAIN << >> = {} /\ << >> \in Seq(AllKinds) /\ 0 \in Nat
    OBVIOUS
  <2>3. InStream(c)
    BY <2>1, <2>2, UnitsEmpty DEF InStream
  <2>4. EndOf(<< >>, 0) = 0
    BY <2>2, EndsOf
  <2>5. HttpAnswers(c)
    <3>1. AnsweredOnce(c) /\ AnsweredRight(c)
      BY <2>1, <2>2 DEF AnsweredOnce, AnsweredRight
    <3>2. LinesTaken(c)
      BY <2>1, <2>2 DEF LinesTaken
    <3>3. WholeSoFar(c)
      BY <2>1, <2>2, <2>4, <3>1 DEF WholeSoFar
    <3> QED
      BY <3>1, <3>2, <3>3 DEF HttpAnswers
  <2>6. EchoedBack(c)
    BY <2>1, <2>2, FlattenEmpty DEF EchoedBack
  <2> QED
    BY <2>3, <2>5, <2>6 DEF ClientInv
<1> QED
  BY <1>1, <1>2 DEF SocketsInv

(* A client with whose stream and answers nothing happens.                 *)
LEMMA SameClient ==
    ASSUME NEW c \in Clients, ClientInv(c), server' = server, written'[c] = written[c],
           arrived'[c] = arrived[c], taken'[c] = taken[c], answers'[c] = answers[c],
           (c \in torn)' <=> c \in torn
    PROVE  ClientInv(c)'
<1>1. InStream(c)'
  BY DEF ClientInv, InStream
<1>2. CASE server = "http"
  <2>1. HttpAnswers(c)
    BY <1>2 DEF ClientInv
  <2>2. AnsweredOnce(c)'
    BY <2>1 DEF HttpAnswers, AnsweredOnce
  <2>3. LinesTaken(c)'
    BY <2>1 DEF HttpAnswers, LinesTaken
  <2>4. EndOf(written[c], Len(answers[c]))' = EndOf(written[c], Len(answers[c]))
    BY DEF EndOf
  <2>5. c \notin torn => WholeSoFar(c)'
    BY <2>1, <2>4 DEF HttpAnswers, WholeSoFar, AnsweredRight
  <2>6. HttpAnswers(c)'
    BY <2>1, <2>2, <2>3, <2>5 DEF HttpAnswers
  <2> QED
    BY <1>1, <1>2, <2>6 DEF ClientInv
<1>3. CASE server # "http"
  <2>1. EchoedBack(c)
    BY <1>3 DEF ClientInv
  <2>2. EchoedBack(c)'
    BY <2>1 DEF EchoedBack
  <2> QED
    BY <1>1, <1>3, <2>2 DEF ClientInv
<1> QED
  BY <1>2, <1>3

(* How the server and the connections stand, apart from the streams.       *)
ServerTypes ==
    /\ listening \in BOOLEAN
    /\ queue \in Seq(Clients)
    /\ serving \in Clients \union {NoClient}
    /\ closing \in BOOLEAN
    /\ sock \in [Clients -> {"new", "open", "eof", "reset", "lost", "closed"}]
    /\ unread \in [Clients -> Nat]

LEMMA ServerTyped == SocketsTypeOK => ServerTypes
  BY DEF SocketsTypeOK, ServerTypes

LEMMA QuietKeeps ==
    ASSUME SocketsInv, ServerTypes', UNCHANGED streamVars
    PROVE  SocketsInv'
<1>1. UNCHANGED <<server, written, arrived, taken, answers, torn>>
  BY DEF streamVars
<1>2. SocketsTypeOK'
  <2>1. SocketsTypeOK
    BY DEF SocketsInv
  <2>2. (/\ server \in {"echo", "http"}
         /\ written \in [Clients -> Seq(Kinds)]
         /\ arrived \in [Clients -> Nat]
         /\ taken \in [Clients -> Nat]
         /\ torn \subseteq Clients)'
    BY <1>1, <2>1 DEF SocketsTypeOK, Kinds
  <2> QED
    BY <2>2 DEF SocketsTypeOK, ServerTypes
<1>3. ReplyTypes'
  BY <1>1 DEF SocketsInv, ReplyTypes
<1>4. \A c \in Clients : ClientInv(c)'
  BY <1>1, SameClient DEF SocketsInv
<1> QED
  BY <1>2, <1>3, <1>4 DEF SocketsInv

LEMMA EndingTyped ==
    ASSUME ServerTypes, ServerEnds, UNCHANGED unread, closing' \in BOOLEAN
    PROVE  ServerTypes'
<1>1. sock' \in [Clients -> {"new", "open", "eof", "reset", "lost", "closed"}]
  BY DEF ServerTypes, ServerEnds
<1>2. listening' = FALSE /\ serving' = NoClient /\ queue' = <<>> /\ unread' = unread
  BY DEF ServerEnds
<1>3. queue' \in Seq(Clients)
  BY <1>2
<1>4. listening' \in BOOLEAN
  BY <1>2
<1>5. serving' \in Clients \union {NoClient} /\ unread' \in [Clients -> Nat]
  BY <1>2 DEF ServerTypes
<1> QED
  BY <1>1, <1>3, <1>4, <1>5 DEF ServerTypes

LEMMA SegmentKeeps ==
    ASSUME SocketsInv, NEW c \in Clients, Segment(c)
    PROVE  SocketsInv'
<1>1. PICK n \in arrived[c] + 1 .. Len(Units(written[c])) :
         arrived' = [arrived EXCEPT ![c] = n]
  BY DEF Segment
<1>2. /\ UNCHANGED <<listening, queue, serving, closing, sock, unread>>
      /\ UNCHANGED <<server, written, taken, answers, torn>>
  BY DEF Segment
<1>3. SocketsTypeOK /\ ReplyTypes
  BY DEF SocketsInv
<1>4. arrived[c] \in Nat /\ taken[c] \in Nat /\ Len(Units(written[c])) \in Nat
  <2>1. Units(written[c]) \in Seq(Unit)
    BY <1>3, WrittenType, UnitsType
  <2> QED
    BY <1>3, <2>1 DEF SocketsTypeOK
<1>5. n \in Nat /\ arrived[c] <= n /\ n <= Len(Units(written[c]))
  BY <1>1, <1>4
<1>6. SocketsTypeOK'
  BY <1>1, <1>2, <1>3, <1>5 DEF SocketsTypeOK, Kinds
<1>7. ReplyTypes'
  BY <1>2, <1>3 DEF ReplyTypes
<1>8. \A d \in Clients : arrived'[d] = IF d = c THEN n ELSE arrived[d]
  BY <1>1, <1>3 DEF SocketsTypeOK
<1>9. ClientInv(c)'
  <2>1. ClientInv(c)
    BY DEF SocketsInv
  <2>2. InStream(c)'
    BY <1>2, <1>4, <1>5, <1>8, <2>1 DEF ClientInv, InStream
  <2>3. (IF server = "http" THEN HttpAnswers(c) ELSE EchoedBack(c))'
        <=> IF server = "http" THEN HttpAnswers(c) ELSE EchoedBack(c)
    BY <1>2 DEF HttpAnswers, LinesTaken, WholeSoFar, EndOf, EchoedBack, AnsweredOnce, AnsweredRight
  <2> QED
    BY <2>1, <2>2, <2>3 DEF ClientInv
<1>10. \A d \in Clients \ {c} : ClientInv(d)'
  <2> SUFFICES ASSUME NEW d \in Clients \ {c}
               PROVE  ClientInv(d)'
    OBVIOUS
  <2>1. ClientInv(d) /\ arrived'[d] = arrived[d]
    BY <1>8 DEF SocketsInv
  <2> QED
    BY <1>2, <2>1, SameClient
<1> QED
  BY <1>6, <1>7, <1>9, <1>10 DEF SocketsInv

LEMMA WriteKeeps ==
    ASSUME SocketsInv, NEW c \in Clients, NEW kind \in Kinds, Write(c, kind)
    PROVE  SocketsInv'
<1> DEFINE ks == written[c]
           more == Append(ks, kind)
<1>1. written' = [written EXCEPT ![c] = more]
      /\ UNCHANGED <<listening, queue, serving, closing, sock, unread>>
      /\ UNCHANGED <<server, arrived, taken, answers, torn>>
  BY DEF Write
<1>2. SocketsTypeOK /\ ReplyTypes
  BY DEF SocketsInv
<1>3. ks \in Seq(AllKinds) /\ kind \in AllKinds /\ ks \in Seq(Kinds)
  BY <1>2, WrittenType DEF Kinds, AllKinds, SocketsTypeOK
<1>4. SocketsTypeOK'
  <2>1. more \in Seq(Kinds)
    BY <1>3
  <2>2. written' \in [Clients -> Seq(Kinds)]
    BY <1>1, <1>2, <2>1 DEF SocketsTypeOK
  <2>3. Kinds' = Kinds
    BY <1>1 DEF Kinds
  <2> QED
    BY <1>1, <1>2, <2>2, <2>3 DEF SocketsTypeOK
<1>5. ReplyTypes'
  BY <1>1, <1>2 DEF ReplyTypes
<1>6. written'[c] = more /\ \A d \in Clients \ {c} : written'[d] = written[d]
  BY <1>1, <1>2 DEF SocketsTypeOK
<1>7. /\ more \in Seq(AllKinds) /\ Len(ks) \in Nat /\ Len(more) = Len(ks) + 1
      /\ \A i \in 1 .. Len(ks) : more[i] = ks[i]
  BY <1>3
<1>8. /\ Len(Units(ks)) \in Nat /\ Len(Units(more)) \in Nat
      /\ Len(Units(ks)) <= Len(Units(more))
      /\ \A p \in 1 .. Len(Units(ks)) : Units(more)[p] = Units(ks)[p]
  <2>1. Len(PartsOf(kind)) \in Nat
    BY <1>3, PartsFacts
  <2>2. /\ Len(Units(ks)) \in Nat
        /\ Len(Units(more)) = Len(Units(ks)) + Len(PartsOf(kind))
        /\ \A p \in 1 .. Len(Units(ks)) : Units(more)[p] = Units(ks)[p]
    BY <1>3, UnitsLengthen
  <2> QED
    BY <2>1, <2>2
<1>9. \A j \in 0 .. Len(ks) : EndOf(more, j) = EndOf(ks, j)
  BY <1>3, PrefixOf DEF EndOf
<1>10. taken[c] \in Nat /\ arrived[c] \in Nat
       /\ taken[c] <= arrived[c] /\ arrived[c] <= Len(Units(ks))
  BY <1>2 DEF SocketsInv, SocketsTypeOK, ClientInv, InStream
<1> HIDE DEF ks, more
<1>11. InStream(c)'
  BY <1>1, <1>6, <1>8, <1>10 DEF InStream
<1>12. ASSUME server = "http"
       PROVE  ClientInv(c)'
  <2>1. LinesTaken(c) /\ AnsweredOnce(c) /\ (c \notin torn => WholeSoFar(c))
    BY <1>12 DEF SocketsInv, ClientInv, HttpAnswers
  <2>2. \A p \in 1 .. taken[c] : Units(more)[p] = Units(ks)[p]
    BY <1>8, <1>10
  <2>3. LinesTaken(c)'
    BY <1>1, <1>6, <2>1, <2>2 DEF LinesTaken, ks
  <2>4. AnsweredOnce(c)'
    <3>1. \A i \in DOMAIN answers[c] :
             answers[c][i].status = 201 => more[answers[c][i].to] = ks[answers[c][i].to]
      <4> SUFFICES ASSUME NEW i \in DOMAIN answers[c], answers[c][i].status = 201
                   PROVE  more[answers[c][i].to] = ks[answers[c][i].to]
        OBVIOUS
      <4> DEFINE n == answers[c][i].to
      <4>1. PICK p \in 1 .. taken[c] : Units(ks)[p] = <<n, "line">>
        BY <2>1 DEF LinesTaken, ks
      <4>2. p \in 1 .. Len(Units(ks))
        BY <1>8, <1>10
      <4>3. Units(ks)[p] \in (1 .. Len(ks)) \X Part
        BY <1>3, <4>2, LinesHold DEF LinesAscend
      <4>4. n \in 1 .. Len(ks)
        BY <4>1, <4>3
      <4> HIDE DEF n
      <4> QED
        BY <1>7, <4>4 DEF n
    <3> QED
      BY <1>1, <1>6, <2>1, <3>1 DEF AnsweredOnce, ks
  <2>5. ASSUME c \notin torn
        PROVE  WholeSoFar(c)'
    <3>1. Len(answers[c]) <= Len(ks) /\ taken[c] = EndOf(ks, Len(answers[c])) /\ AnsweredRight(c)
      BY <2>1, <2>5 DEF WholeSoFar, ks
    <3>2. Len(answers[c]) \in Nat /\ DOMAIN answers[c] = 1 .. Len(answers[c])
      BY <1>2, <1>12 DEF ReplyTypes
    <3>3. Len(answers[c]) <= Len(more) /\ taken[c] = EndOf(more, Len(answers[c]))
      BY <1>7, <1>9, <3>1, <3>2
    <3>4. \A i \in DOMAIN answers[c] : more[i] = ks[i]
      BY <1>7, <3>1, <3>2
    <3>5. AnsweredRight(c)'
      BY <1>1, <1>6, <3>1, <3>4 DEF AnsweredRight, ks
    <3>6. EndOf(written[c], Len(answers[c]))' = EndOf(more, Len(answers[c]))
      BY <1>1, <1>6 DEF EndOf
    <3>7. (Len(answers[c]) <= Len(written[c]))'
      BY <1>1, <1>6, <3>3
    <3> QED
      BY <1>1, <3>3, <3>5, <3>6, <3>7 DEF WholeSoFar
  <2>6. HttpAnswers(c)'
    BY <1>1, <2>3, <2>4, <2>5 DEF HttpAnswers
  <2> QED
    BY <1>1, <1>11, <1>12, <2>6 DEF ClientInv
<1>13. ASSUME server # "http"
       PROVE  ClientInv(c)'
  <2> DEFINE echo == FlattenSeq(answers[c])
  <2>1. /\ Len(echo) = taken[c]
        /\ \A i \in DOMAIN echo :
              \/ echo[i] = Units(ks)[i]
              \/ c \in torn /\ echo[i] = <<Units(ks)[i][1], "replaced">>
    BY <1>13 DEF SocketsInv, ClientInv, EchoedBack, ks
  <2>2. DOMAIN echo = 1 .. Len(echo)
    <3>1. answers[c] \in Seq(Seq(Unit))
      BY <1>2, <1>13 DEF ReplyTypes
    <3>2. echo \in Seq(Unit)
      BY <3>1, FlattenType
    <3> QED
      BY <3>2
  <2>3. \A i \in DOMAIN echo : Units(more)[i] = Units(ks)[i]
    BY <1>8, <1>10, <2>1, <2>2
  <2>4. EchoedBack(c)'
    BY <1>1, <1>6, <2>1, <2>3 DEF EchoedBack
  <2> QED
    BY <1>1, <1>11, <1>13, <2>4 DEF ClientInv
<1>14. \A d \in Clients \ {c} : ClientInv(d)'
  <2> SUFFICES ASSUME NEW d \in Clients \ {c}
               PROVE  ClientInv(d)'
    OBVIOUS
  <2>1. ClientInv(d) /\ written'[d] = written[d]
    BY <1>6 DEF SocketsInv
  <2> QED
    BY <1>1, <2>1, SameClient
<1> QED
  BY <1>4, <1>5, <1>12, <1>13, <1>14 DEF SocketsInv

(* What recv() returns is the next part of the stream, and not nothing.    *)
LEMMA ReceivedIs ==
    ASSUME SocketsAssumption, SocketsInv, NEW c \in Clients, taken[c] < arrived[c]
    PROVE  LET m == Smaller(arrived[c], taken[c] + BufferSize) IN
           /\ Received(c) \in Seq(Unit)
           /\ m \in Nat /\ taken[c] < m /\ m <= arrived[c] /\ m <= Len(Units(written[c]))
           /\ Len(Received(c)) = m - taken[c]
           /\ \A i \in 1 .. Len(Received(c)) : Received(c)[i] = Units(written[c])[taken[c] + i]
<1> DEFINE u == Units(written[c])
           t == taken[c]
           a == arrived[c]
           m == Smaller(a, t + BufferSize)
<1>1. u \in Seq(Unit) /\ Len(u) \in Nat
  <2>1. u \in Seq(Unit)
    BY WrittenType, UnitsType DEF SocketsInv
  <2> QED
    BY <2>1
<1>2. t \in Nat /\ a \in Nat /\ t < a /\ a <= Len(u) /\ BufferSize \in Nat /\ BufferSize >= 1
  BY DEF SocketsInv, SocketsTypeOK, ClientInv, InStream, SocketsAssumption
<1>3. Received(c) = SubSeq(u, t + 1, m)
  BY DEF Received
<1> HIDE DEF u, t, a
<1>4. m \in Nat /\ t < m /\ m <= a /\ m <= Len(u)
  BY <1>1, <1>2 DEF Smaller
<1> HIDE DEF m
<1>5. /\ SubSeq(u, t + 1, m) \in Seq(Unit)
      /\ Len(SubSeq(u, t + 1, m)) = m - t
      /\ \A i \in 1 .. m - t : SubSeq(u, t + 1, m)[i] = u[t + i]
  BY <1>1, <1>2, <1>4
<1> QED
  BY <1>3, <1>4, <1>5 DEF m, u, t, a

(* What is one whole request has the units of one.                         *)
IsBlock(ks, n, data) ==
    /\ n \in 1 .. Len(ks)
    /\ Len(data) = Len(PartsOf(ks[n]))
    /\ \A i \in 1 .. Len(data) : data[i] = <<n, PartsOf(ks[n])[i]>>

LEMMA WholeIsBlock ==
    ASSUME SocketsTypeOK, NEW c \in Clients, NEW data, Whole(c, data)
    PROVE  \E n : IsBlock(written[c], n, data)
<1> DEFINE ks == written[c]
           u == Units(ks)
<1>1. ks \in Seq(AllKinds) /\ u \in Seq(Unit)
  BY WrittenType, UnitsType
<1>2. PICK n \in DOMAIN ks : data = SubSeq(u, EndOf(ks, n - 1) + 1, EndOf(ks, n))
  BY DEF Whole, EndOf
<1> DEFINE a == EndOf(ks, n - 1)
           e == EndOf(ks, n)
           b == Len(PartsOf(ks[n]))
<1>3. n \in 1 .. Len(ks) /\ ks[n] \in AllKinds /\ n - 1 \in 0 .. Len(ks)
  BY <1>1
<1>4. a \in Nat /\ b \in Nat
  BY <1>1, <1>3, EndsAreNat, PartsFacts
<1>5. e = a + b /\ e <= Len(u) /\ \A i \in 1 .. b : u[a + i] = <<n, PartsOf(ks[n])[i]>>
  BY <1>1, <1>3, BlocksFollow DEF Block
<1> HIDE DEF a, b, e, u, ks
<1>6. Len(data) = b /\ \A i \in 1 .. b : data[i] = u[a + i]
  <2>1. data = SubSeq(u, a + 1, e)
    BY <1>2 DEF a, e
  <2> QED
    BY <1>1, <1>4, <1>5, <2>1
<1> QED
  BY <1>3, <1>5, <1>6 DEF IsBlock, b, ks

(* What one recv() is answered over HTTP: an answer is to the request      *)
(* whose line comes first, and confirms an order only for a POST ...       *)
LEMMA RespondFacts ==
    ASSUME NEW c \in Clients, written[c] \in Seq(AllKinds), NEW data \in Seq(Unit),
           Len(data) >= 1, data[1][1] \in 1 .. Len(written[c])
    PROVE  LET r == Respond(c, data).reply IN
           /\ r \in HttpReply
           /\ r.to # 0 => r.to = data[1][1] /\ data[1][2] = "line"
           /\ r.status = 201 => r.to # 0 /\ written[c][r.to] = "post"
<1> DEFINE r == Respond(c, data).reply
           n == data[1][1]
           kind == written[c][n]
           code == Status(data, kind)
<1>1. n \in Nat /\ n # 0 /\ kind \in AllKinds
  BY DEF AllKinds
<1>2. CASE ~ Parses(data)
  <2>1. r = [to |-> 0, status |-> 400]
    BY <1>2 DEF Respond, BuildResponse
  <2> QED
    BY <2>1 DEF HttpReply
<1>3. CASE Parses(data)
  <2>1. r = [to |-> n, status |-> code]
    BY <1>3 DEF Respond, BuildResponse
  <2>2. code \in {200, 201, 400, 500} /\ (code = 201 => kind \in {"post", "odd"} /\ kind # "odd")
    BY DEF Status
  <2>3. data[1][2] = "line"
    BY <1>3 DEF Parses
  <2> HIDE DEF n, kind, code
  <2>4. r \in HttpReply /\ r.to = n /\ r.status = code
    BY <1>1, <2>1, <2>2 DEF HttpReply
  <2> QED
    BY <1>1, <2>2, <2>3, <2>4 DEF n, kind
<1> QED
  BY <1>2, <1>3

(* ... and a whole request is answered, a POST confirmed.                  *)
LEMMA BlockIsAnswered ==
    ASSUME NEW c \in Clients, written[c] \in Seq(HttpKinds), NEW data \in Seq(Unit), NEW n,
           IsBlock(written[c], n, data)
    PROVE  /\ Respond(c, data).reply.to = n
           /\ written[c][n] = "post" => Respond(c, data).reply.status = 201
<1> DEFINE k == written[c][n]
<1>1. k \in HttpKinds /\ k \in AllKinds /\ k # "text"
  BY DEF IsBlock, HttpKinds, AllKinds
<1>2. Len(data) = Len(PartsOf(k)) /\ Len(data) \in 2 .. 3
      /\ data[1] = <<n, "line">> /\ data[2] = <<n, "blank">>
      /\ (Len(data) = 3 => data[3] = <<n, "body">>)
      /\ (k = "post" => Len(data) = 3)
  <2>1. /\ Len(PartsOf(k)) \in 2 .. 3 /\ PartsOf(k)[1] = "line" /\ PartsOf(k)[2] = "blank"
        /\ Len(PartsOf(k)) = 3 => PartsOf(k)[3] = "body"
        /\ k = "post" => Len(PartsOf(k)) = 3
    BY <1>1, PartsFacts
  <2>2. Len(data) = Len(PartsOf(k)) /\ \A i \in 1 .. Len(data) : data[i] = <<n, PartsOf(k)[i]>>
    BY DEF IsBlock
  <2> HIDE DEF k
  <2>3. 1 \in 1 .. Len(data) /\ 2 \in 1 .. Len(data) /\ (Len(data) = 3 => 3 \in 1 .. Len(data))
    BY <2>1, <2>2
  <2> QED
    BY <2>1, <2>2, <2>3
<1>3. DOMAIN data = 1 .. Len(data) /\ 2 \in DOMAIN data
  BY <1>2
<1>4. Parses(data)
  BY <1>2, <1>3 DEF Parses
<1>5. data[1][1] = n
  BY <1>2
<1>6. Respond(c, data).reply = [to |-> n, status |-> Status(data, k)]
  BY <1>4, <1>5 DEF Respond, BuildResponse
<1>7. ASSUME k = "post"
      PROVE  Status(data, k) = 201
  <2>1. BodyOf(data) = << <<n, "body">> >>
    <3>1. Len(data) = 3 /\ data[3] = <<n, "body">>
      BY <1>2, <1>7
    <3>2. Len(SubSeq(data, 3, 3)) = 1 /\ SubSeq(data, 3, 3)[1] = data[3]
          /\ SubSeq(data, 3, 3) \in Seq(Unit)
      BY <3>1
    <3> DEFINE d == SubSeq(data, 3, 3)
    <3>3. BodyOf(data) = d
      BY <3>1 DEF BodyOf
    <3> HIDE DEF d
    <3>4. Len(d) = 1 /\ d[1] = <<n, "body">> /\ d \in Seq(Unit)
      BY <3>1, <3>2 DEF d
    <3>5. d = << <<n, "body">> >>
      <4> DEFINE e == <<n, "body">>
      <4>1. Len(d) = 1 /\ d[1] = e /\ d \in Seq(Unit)
        BY <3>4
      <4> HIDE DEF e
      <4>2. e \in Unit
        <5>1. 1 \in 1 .. Len(d) /\ d \in Seq(Unit)
          BY <4>1
        <5>2. d[1] \in Unit
          BY <5>1, ElementOfSeq
        <5> QED
          BY <4>1, <5>2
      <4>3. << e >> \in Seq(Unit) /\ Len(<< e >>) = 1 /\ << e >>[1] = e
        BY <4>2
      <4>4. d = << e >>
        BY <4>1, <4>3, SeqEqual
      <4> QED
        BY <4>4 DEF e
    <3> QED
      BY <3>3, <3>5
  <2>2. BodyOf(data) # << >> /\ BodyOf(data) = << <<data[1][1], "body">> >>
    BY <1>5, <2>1
  <2> HIDE DEF k
  <2> QED
    BY <1>7, <2>2 DEF Status
<1> QED
  BY <1>6, <1>7

LEMMA DecodedFacts ==
    ASSUME NEW data \in Seq(Unit)
    PROVE  /\ Decoded(data) \in Seq(Unit) /\ Len(Decoded(data)) = Len(data)
           /\ \A i \in 1 .. Len(data) :
                 \/ Decoded(data)[i] = data[i]
                 \/ /\ Decoded(data)[i] = <<data[i][1], "replaced">>
                    /\ \/ \A j \in 1 .. Len(data) : data[j] # <<data[i][1], "lead">>
                       \/ \A j \in 1 .. Len(data) : data[j] # <<data[i][1], "tail">>
<1> DEFINE m == Len(data)
           bytes == {data[i] : i \in DOMAIN data}
           one(i) == IF <<data[i][1], "lead">> \in bytes /\ <<data[i][1], "tail">> \in bytes
                     THEN data[i] ELSE <<data[i][1], "replaced">>
           d == [i \in 1 .. m |-> one(i)]
<1>1. DOMAIN data = 1 .. m /\ m \in Nat /\ \A i \in 1 .. m : data[i] \in Unit
  OBVIOUS
<1>2. Decoded(data) = d
  BY <1>1 DEF Decoded
<1>3. \A i \in 1 .. m : one(i) \in Unit
  <2>1. \A i \in 1 .. m : <<data[i][1], "replaced">> \in Unit
    BY <1>1 DEF Unit, Part
  <2> QED
    BY <1>1, <2>1
<1>4. \A i \in 1 .. m :
         \/ one(i) = data[i]
         \/ /\ one(i) = <<data[i][1], "replaced">>
            /\ <<data[i][1], "lead">> \notin bytes \/ <<data[i][1], "tail">> \notin bytes
  OBVIOUS
<1>5. \A x : x \notin bytes => \A j \in 1 .. m : data[j] # x
  BY <1>1
<1> HIDE DEF one, m, bytes
<1>6. d \in Seq(Unit) /\ Len(d) = m /\ \A i \in 1 .. m : d[i] = one(i)
  BY <1>1, <1>3
<1> HIDE DEF d
<1> QED
  BY <1>2, <1>4, <1>5, <1>6 DEF m

(* The end of the first k requests is the end of what was taken: the next  *)
(* whole request is the next one.                                          *)
LEMMA NextBlock ==
    ASSUME NEW ks \in Seq(HttpKinds), NEW k \in 0 .. Len(ks), NEW n, NEW data,
           IsBlock(ks, n, data), EndOf(ks, k) < Len(Units(ks)),
           data[1] = Units(ks)[EndOf(ks, k) + 1]
    PROVE  n = k + 1 /\ k + 1 \in 1 .. Len(ks) /\ EndOf(ks, k + 1) = EndOf(ks, k) + Len(data)
<1>1. ks \in Seq(AllKinds) /\ n \in 1 .. Len(ks) /\ Len(ks) \in Nat
      /\ \A j \in 1 .. Len(ks) : ks[j] \in AllKinds /\ ks[j] # "text"
  <2>1. HttpKinds \subseteq AllKinds /\ "text" \notin HttpKinds
    BY DEF HttpKinds, AllKinds
  <2>2. n \in 1 .. Len(ks)
    BY DEF IsBlock
  <2>3. ks \in Seq(AllKinds) /\ Len(ks) \in Nat /\ \A j \in 1 .. Len(ks) : ks[j] \in HttpKinds
    BY <2>1
  <2> QED
    BY <2>1, <2>2, <2>3
<1>2. k # Len(ks)
  <2>1. EndOf(ks, Len(ks)) = Len(Units(ks)) /\ EndOf(ks, k) \in Nat
    BY <1>1, EndsOf, EndsAreNat
  <2> QED
    BY <2>1
<1>3. k + 1 \in 1 .. Len(ks) /\ (k + 1) - 1 = k
  BY <1>1, <1>2
<1> DEFINE j == k + 1
<1>4. EndOf(ks, j) = EndOf(ks, k) + Len(PartsOf(ks[j]))
      /\ Units(ks)[EndOf(ks, k) + 1] = <<j, "line">>
  <2>1. Block(ks, j)
    BY <1>1, <1>3, BlocksFollow
  <2>2. Len(PartsOf(ks[j])) \in 2 .. 3 /\ PartsOf(ks[j])[1] = "line"
    BY <1>1, <1>3, PartsFacts
  <2>3. 1 \in 1 .. Len(PartsOf(ks[j]))
    BY <2>2
  <2> QED
    BY <1>3, <2>1, <2>2, <2>3 DEF Block
<1>5. data[1] = <<n, "line">> /\ Len(data) = Len(PartsOf(ks[n]))
  <2>1. Len(PartsOf(ks[n])) \in 2 .. 3 /\ PartsOf(ks[n])[1] = "line"
    BY <1>1, PartsFacts
  <2>2. Len(data) = Len(PartsOf(ks[n])) /\ \A i \in 1 .. Len(data) : data[i] = <<n, PartsOf(ks[n])[i]>>
    BY DEF IsBlock
  <2>3. 1 \in 1 .. Len(data)
    BY <2>1, <2>2
  <2> QED
    BY <2>1, <2>2, <2>3
<1>6. n = j
  BY <1>4, <1>5
<1> QED
  BY <1>3, <1>4, <1>5, <1>6

LEMMA HttpReceives ==
    ASSUME SocketsAssumption, SocketsInv, server = "http", NEW c \in Clients, Receive(c)
    PROVE  /\ ClientInv(c)'
           /\ Respond(c, Received(c)).reply \in HttpReply
<1> DEFINE ks == written[c]
           u == Units(ks)
           t == taken[c]
           m == Smaller(arrived[c], t + BufferSize)
           data == Received(c)
           r == Respond(c, data).reply
           old == answers[c]
           k == Len(old)
           new == Append(old, r)
<1>1. SocketsTypeOK /\ ReplyTypes /\ InStream(c) /\ LinesTaken(c) /\ AnsweredOnce(c)
      /\ (c \notin torn => WholeSoFar(c))
  BY DEF SocketsInv, ClientInv, HttpAnswers
<1>2. t < arrived[c]
  BY DEF Receive
<1>3. /\ server' = server /\ written' = written /\ arrived' = arrived
      /\ taken'[c] = m /\ answers'[c] = new
      /\ torn' = IF Whole(c, data) THEN torn ELSE torn \union {c}
  BY <1>1 DEF Receive, Take, Handled, SocketsTypeOK, ReplyTypes
<1>4. ks \in Seq(AllKinds) /\ ks \in Seq(HttpKinds) /\ u \in Seq(Unit) /\ t \in Nat
      /\ Len(ks) \in Nat
  <2>1. ks \in Seq(AllKinds) /\ u \in Seq(Unit)
    BY <1>1, WrittenType, UnitsType
  <2>2. ks \in Seq(HttpKinds) /\ t \in Nat
    BY <1>1 DEF SocketsTypeOK, Kinds
  <2> QED
    BY <2>1, <2>2
<1>5. /\ data \in Seq(Unit) /\ m \in Nat /\ t < m /\ m <= arrived[c] /\ m <= Len(u)
      /\ Len(data) = m - t /\ \A i \in 1 .. Len(data) : data[i] = u[t + i]
  BY <1>2, ReceivedIs
<1> HIDE DEF ks, u, t, m, data
<1>6. Len(data) >= 1 /\ t + 1 \in 1 .. Len(u) /\ data[1] = u[t + 1]
  <2>1. Len(u) \in Nat
    BY <1>4
  <2> QED
    BY <1>4, <1>5, <2>1
<1>7. data[1] \in (1 .. Len(ks)) \X Part
  BY <1>4, <1>6, LinesHold DEF LinesAscend, u
<1>8. data[1] = <<data[1][1], data[1][2]>> /\ data[1][1] \in 1 .. Len(ks)
  BY <1>7
<1>9. /\ r \in HttpReply
      /\ r.to # 0 => r.to = data[1][1] /\ data[1][2] = "line"
      /\ r.status = 201 => r.to # 0 /\ ks[r.to] = "post"
  <2>1. written[c] \in Seq(AllKinds) /\ data[1][1] \in 1 .. Len(written[c])
    BY <1>4, <1>8 DEF ks
  <2>2. data \in Seq(Unit) /\ Len(data) >= 1
    BY <1>5, <1>6
  <2> QED
    BY <2>1, <2>2, RespondFacts DEF ks
<1>10. old \in Seq(HttpReply) /\ k \in Nat /\ DOMAIN old = 1 .. k
  BY <1>1 DEF ReplyTypes
<1> HIDE DEF r, old
<1>11. /\ new \in Seq(HttpReply) /\ Len(new) = k + 1 /\ DOMAIN new = 1 .. k + 1
       /\ new[k + 1] = r /\ \A i \in 1 .. k : new[i] = old[i]
  BY <1>9, <1>10
<1>12. \A i \in DOMAIN new : i \in 1 .. k \/ i = k + 1
  BY <1>10, <1>11
<1> HIDE DEF new, k
<1>13. LinesTaken(c)'
  <2> SUFFICES ASSUME NEW i \in DOMAIN new
               PROVE  /\ new[i].to # 0 => \E p \in 1 .. m : u[p] = <<new[i].to, "line">>
                      /\ new[i].status = 201 => new[i].to # 0
    BY <1>3 DEF LinesTaken, u, ks
  <2>1. CASE i \in 1 .. k
    <3>1. /\ old[i].to # 0 => \E p \in 1 .. t : u[p] = <<old[i].to, "line">>
          /\ old[i].status = 201 => old[i].to # 0
      BY <1>1, <1>10, <2>1 DEF LinesTaken, old, t, u, ks
    <3>2. \A p \in 1 .. t : p \in 1 .. m
      BY <1>4, <1>5
    <3> QED
      BY <1>11, <2>1, <3>1, <3>2
  <2>2. CASE i = k + 1
    <3>1. t + 1 \in 1 .. m
      BY <1>4, <1>5
    <3>2. new[i] = r
      BY <1>11, <2>2
    <3>3. r.to # 0 => u[t + 1] = <<r.to, "line">>
      BY <1>6, <1>8, <1>9
    <3> QED
      BY <1>9, <3>1, <3>2, <3>3
  <2> QED
    BY <1>12, <2>1, <2>2
<1>14. AnsweredOnce(c)'
  <2>1. ASSUME NEW i \in DOMAIN new, NEW j \in DOMAIN new, i < j, new[i].to # 0, new[j].to # 0
        PROVE  new[i].to < new[j].to
    <3>1. CASE j \in 1 .. k
      <4>1. i \in 1 .. k
        BY <1>10, <1>12, <2>1, <3>1
      <4>2. new[i] = old[i] /\ new[j] = old[j]
        BY <1>11, <3>1, <4>1
      <4> QED
        BY <1>1, <1>10, <2>1, <3>1, <4>1, <4>2 DEF AnsweredOnce, old
    <3>2. CASE j = k + 1
      <4>1. i \in 1 .. k
        BY <1>10, <1>12, <2>1, <3>2
      <4>2. new[i] = old[i] /\ new[j] = r
        BY <1>11, <3>2, <4>1
      <4>3. PICK p \in 1 .. t : u[p] = <<old[i].to, "line">>
        BY <1>1, <1>10, <2>1, <4>1, <4>2 DEF LinesTaken, old, t, u, ks
      <4>4. u[t + 1] = <<r.to, "line">>
        BY <1>6, <1>8, <1>9, <2>1, <4>2
      <4>5. p < t + 1 /\ p \in 1 .. Len(u)
        BY <1>4, <1>5, <1>6, <4>3
      <4>6. u[p][1] < u[t + 1][1]
        <5>1. LinesAscend(ks)
          BY <1>4, LinesHold
        <5>2. u[p][2] = "line" /\ u[t + 1][2] = "line"
          BY <4>3, <4>4
        <5> QED
          BY <1>6, <4>5, <5>1, <5>2 DEF LinesAscend, u
      <4> QED
        BY <4>2, <4>3, <4>4, <4>6
    <3> QED
      BY <1>12, <3>1, <3>2
  <2>2. ASSUME NEW i \in DOMAIN new, new[i].status = 201
        PROVE  ks[new[i].to] = "post"
    <3>1. CASE i \in 1 .. k
      <4>1. new[i] = old[i]
        BY <1>11, <3>1
      <4> QED
        BY <1>1, <1>10, <2>2, <3>1, <4>1 DEF AnsweredOnce, old, ks
    <3>2. CASE i = k + 1
      BY <1>9, <1>11, <2>2, <3>2
    <3> QED
      BY <1>12, <3>1, <3>2
  <2> QED
    BY <1>3, <2>1, <2>2 DEF AnsweredOnce, ks
<1>15. ASSUME c \notin torn'
       PROVE  WholeSoFar(c)'
  <2>1. c \notin torn /\ Whole(c, data)
    BY <1>3, <1>15
  <2>2. k <= Len(ks) /\ t = EndOf(ks, k) /\ AnsweredRight(c)
    BY <1>1, <2>1 DEF WholeSoFar, k, old, ks, t
  <2>3. PICK n : IsBlock(ks, n, data)
    BY <1>1, <2>1, WholeIsBlock DEF ks
  <2>4. k \in 0 .. Len(ks) /\ EndOf(ks, k) < Len(u) /\ data[1] = u[EndOf(ks, k) + 1]
    <3>1. t < Len(u)
      BY <1>4, <1>5
    <3> QED
      BY <1>4, <1>6, <1>10, <2>2, <3>1
  <2>5. n = k + 1 /\ k + 1 \in 1 .. Len(ks) /\ EndOf(ks, k + 1) = EndOf(ks, k) + Len(data)
    BY <1>4, <2>3, <2>4, NextBlock DEF u
  <2>6. m = EndOf(ks, k + 1)
    BY <1>4, <1>5, <2>2, <2>5
  <2>7. r.to = n /\ (ks[n] = "post" => r.status = 201)
    BY <1>4, <1>5, <2>3, BlockIsAnswered DEF r, ks
  <2>8. \A i \in DOMAIN new : new[i].to = i /\ (ks[i] = "post" => new[i].status = 201)
    <3> SUFFICES ASSUME NEW i \in DOMAIN new
                 PROVE  new[i].to = i /\ (ks[i] = "post" => new[i].status = 201)
      OBVIOUS
    <3>1. CASE i \in 1 .. k
      <4>1. new[i] = old[i]
        BY <1>11, <3>1
      <4> QED
        BY <1>10, <2>2, <3>1, <4>1 DEF AnsweredRight, old, ks
    <3>2. CASE i = k + 1
      BY <1>11, <2>5, <2>7, <3>2
    <3> QED
      BY <1>12, <3>1, <3>2
  <2>9. AnsweredRight(c)'
    BY <1>3, <2>8 DEF AnsweredRight, ks
  <2>10. (Len(answers[c]) <= Len(written[c]))'
    <3>1. k + 1 <= Len(ks)
      BY <1>4, <2>5
    <3> QED
      BY <1>3, <1>11, <3>1 DEF ks
  <2>11. EndOf(written[c], Len(answers[c]))' = EndOf(ks, k + 1)
    BY <1>3, <1>11 DEF EndOf, ks
  <2> QED
    BY <1>3, <2>6, <2>9, <2>10, <2>11 DEF WholeSoFar
<1>16. InStream(c)'
  <2>1. arrived[c] <= Len(u)
    BY <1>1 DEF InStream, u, ks
  <2> QED
    BY <1>3, <1>5, <2>1 DEF InStream, u, ks
<1>17. HttpAnswers(c)'
  BY <1>13, <1>14, <1>15 DEF HttpAnswers
<1> QED
  BY <1>3, <1>9, <1>16, <1>17 DEF ClientInv, r, data

LEMMA EchoReceives ==
    ASSUME SocketsAssumption, SocketsInv, server = "echo", NEW c \in Clients, Receive(c)
    PROVE  /\ ClientInv(c)'
           /\ Decoded(Received(c)) \in Seq(Unit)
<1> DEFINE ks == written[c]
           u == Units(ks)
           t == taken[c]
           m == Smaller(arrived[c], t + BufferSize)
           data == Received(c)
           r == Decoded(data)
           old == answers[c]
           echo == FlattenSeq(old)
<1>1. SocketsTypeOK /\ ReplyTypes /\ InStream(c) /\ EchoedBack(c)
  BY DEF SocketsInv, ClientInv
<1>2. t < arrived[c]
  BY DEF Receive
<1>3. /\ server' = server /\ written' = written /\ arrived' = arrived
      /\ taken'[c] = m /\ answers'[c] = Append(old, r)
      /\ torn' = IF Whole(c, data) THEN torn ELSE torn \union {c}
  BY <1>1 DEF Receive, Take, Handled, Echo, SocketsTypeOK, ReplyTypes
<1>4. ks \in Seq(AllKinds) /\ u \in Seq(Unit) /\ t \in Nat /\ Len(ks) \in Nat
      /\ \A n \in 1 .. Len(ks) : ks[n] = "text"
  <2>1. ks \in Seq(AllKinds) /\ u \in Seq(Unit)
    BY <1>1, WrittenType, UnitsType
  <2>2. ks \in Seq({"text"}) /\ t \in Nat
    BY <1>1 DEF SocketsTypeOK, Kinds
  <2> QED
    BY <2>1, <2>2
<1>5. /\ data \in Seq(Unit) /\ m \in Nat /\ t < m /\ m <= arrived[c] /\ m <= Len(u)
      /\ Len(data) = m - t /\ \A i \in 1 .. Len(data) : data[i] = u[t + i]
  BY <1>2, ReceivedIs
<1> HIDE DEF ks, u, t, m, data
<1>6. /\ r \in Seq(Unit) /\ Len(r) = m - t
      /\ \A i \in 1 .. m - t :
            \/ r[i] = data[i]
            \/ /\ r[i] = <<data[i][1], "replaced">>
               /\ \/ \A j \in 1 .. Len(data) : data[j] # <<data[i][1], "lead">>
                  \/ \A j \in 1 .. Len(data) : data[j] # <<data[i][1], "tail">>
  BY <1>5, DecodedFacts
<1>7. old \in Seq(Seq(Unit)) /\ echo \in Seq(Unit)
  <2>1. old \in Seq(Seq(Unit))
    BY <1>1 DEF ReplyTypes
  <2> QED
    BY <2>1, FlattenType
<1>8. Len(echo) = t /\ \A i \in 1 .. t :
         echo[i] = u[i] \/ (c \in torn /\ echo[i] = <<u[i][1], "replaced">>)
  <2>1. DOMAIN echo = 1 .. Len(echo)
    BY <1>7
  <2> QED
    BY <1>1, <2>1 DEF EchoedBack, u, ks, t
<1>9. FlattenSeq(Append(old, r)) = echo \o r
  <2> HIDE DEF r, old
  <2> QED
    BY <1>6, <1>7, FlattenAppend
<1> HIDE DEF r, old, echo
<1> DEFINE new == echo \o r
<1>10. /\ Len(new) = m /\ DOMAIN new = 1 .. m
       /\ \A i \in 1 .. t : new[i] = echo[i]
       /\ \A i \in 1 .. m - t : new[t + i] = r[i]
  <2>1. new \in Seq(Unit) /\ Len(new) = Len(echo) + Len(r)
        /\ \A i \in 1 .. Len(echo) + Len(r) :
              new[i] = IF i <= Len(echo) THEN echo[i] ELSE r[i - Len(echo)]
    BY <1>6, <1>7, ConcatProperties
  <2> HIDE DEF new
  <2>2. t + (m - t) = m /\ (\A i \in 1 .. t : i \in 1 .. m /\ i <= t)
        /\ \A i \in 1 .. m - t : t + i \in 1 .. m /\ ~ (t + i <= t) /\ (t + i) - t = i
    BY <1>4, <1>5
  <2>3. \A i \in 1 .. m : new[i] = IF i <= t THEN echo[i] ELSE r[i - t]
    BY <1>6, <1>8, <2>1, <2>2
  <2> QED
    BY <1>6, <1>8, <2>1, <2>2, <2>3
<1> HIDE DEF new
<1>11. ASSUME NEW i \in 1 .. m - t, r[i] # data[i]
       PROVE  c \in torn' /\ r[i] = <<data[i][1], "replaced">>
  <2>1. /\ r[i] = <<data[i][1], "replaced">>
        /\ \/ \A j \in 1 .. Len(data) : data[j] # <<data[i][1], "lead">>
           \/ \A j \in 1 .. Len(data) : data[j] # <<data[i][1], "tail">>
    BY <1>6, <1>11
  <2>2. ASSUME Whole(c, data)
        PROVE  FALSE
    <3>1. PICK n : IsBlock(ks, n, data)
      BY <1>1, <2>2, WholeIsBlock DEF ks
    <3>2. n \in 1 .. Len(ks) /\ Len(data) = Len(PartsOf(ks[n]))
          /\ \A j \in 1 .. Len(data) : data[j] = <<n, PartsOf(ks[n])[j]>>
      BY <3>1 DEF IsBlock
    <3>3. PartsOf(ks[n]) = <<"lead", "tail">>
      BY <1>4, <3>2 DEF PartsOf
    <3>4. Len(data) = 2 /\ 1 \in 1 .. Len(data) /\ 2 \in 1 .. Len(data) /\ i \in 1 .. Len(data)
      <4>1. Len(<<"lead", "tail">>) = 2
        OBVIOUS
      <4>2. Len(data) = 2
        BY <3>2, <3>3, <4>1
      <4>3. 1 \in 1 .. Len(data) /\ 2 \in 1 .. Len(data)
        BY <4>2
      <4>4. i \in 1 .. Len(data)
        BY <1>5
      <4> QED
        BY <4>2, <4>3, <4>4
    <3>5. data[1] = <<n, "lead">> /\ data[2] = <<n, "tail">> /\ data[i][1] = n
      BY <3>2, <3>3, <3>4
    <3> QED
      BY <2>1, <3>4, <3>5
  <2> QED
    BY <1>3, <2>1, <2>2
<1>12. \A i \in 1 .. m : new[i] = u[i] \/ (c \in torn' /\ new[i] = <<u[i][1], "replaced">>)
  <2> SUFFICES ASSUME NEW i \in 1 .. m
               PROVE  new[i] = u[i] \/ (c \in torn' /\ new[i] = <<u[i][1], "replaced">>)
    OBVIOUS
  <2>1. CASE i \in 1 .. t
    <3>1. c \in torn => c \in torn'
      BY <1>3
    <3> QED
      BY <1>8, <1>10, <2>1, <3>1
  <2>2. CASE i \notin 1 .. t
    <3>1. i - t \in 1 .. m - t /\ t + (i - t) = i
      BY <1>4, <1>5, <2>2
    <3>2. new[i] = r[i - t] /\ data[i - t] = u[i]
      BY <1>5, <1>10, <3>1
    <3> QED
      BY <1>11, <3>1, <3>2
  <2> QED
    BY <2>1, <2>2
<1>13. EchoedBack(c)'
  <2>1. FlattenSeq(answers'[c]) = new
    BY <1>3, <1>9 DEF new
  <2>2. Units(written'[c]) = u /\ taken'[c] = m
    BY <1>3 DEF u, ks
  <2> QED
    BY <1>10, <1>12, <2>1, <2>2 DEF EchoedBack
<1>14. InStream(c)'
  <2>1. arrived[c] <= Len(u)
    BY <1>1 DEF InStream, u, ks
  <2> QED
    BY <1>3, <1>5, <2>1 DEF InStream, u, ks
<1> QED
  BY <1>3, <1>6, <1>13, <1>14 DEF ClientInv, r, data

LEMMA ReceiveKeeps ==
    ASSUME SocketsAssumption, SocketsInv, NEW c \in Clients, Receive(c)
    PROVE  SocketsInv'
<1>1. SocketsTypeOK /\ ReplyTypes
  BY DEF SocketsInv
<1>2. /\ server' = server /\ written' = written /\ arrived' = arrived
      /\ UNCHANGED <<listening, queue, serving, sock>>
  BY DEF Receive
<1> DEFINE result == Handled(c, Received(c))
           m == Smaller(arrived[c], taken[c] + BufferSize)
<1>3. /\ answers' = [answers EXCEPT ![c] = Append(@, result.reply)]
      /\ closing' = result.closes
      /\ unread' = [unread EXCEPT ![c] = @ + 1]
      /\ taken' = [taken EXCEPT ![c] = m]
      /\ torn' = torn \/ torn' = torn \union {c}
  BY DEF Receive, Take
<1>4. ClientInv(c)' /\ result.reply \in (IF server = "http" THEN HttpReply ELSE Seq(Unit))
  <2>1. CASE server = "http"
    BY <2>1, HttpReceives DEF Handled
  <2>2. CASE server = "echo"
    BY <2>2, EchoReceives DEF Handled, Echo
  <2> QED
    BY <1>1, <2>1, <2>2 DEF SocketsTypeOK
<1>5. m \in Nat /\ result.closes \in BOOLEAN
  <2>1. m \in Nat
    BY <1>1 DEF Smaller, SocketsTypeOK, SocketsAssumption
  <2>2. result.closes \in BOOLEAN
    BY DEF Handled, Echo, Respond
  <2> QED
    BY <2>1, <2>2
<1> HIDE DEF result, m
<1>6. SocketsTypeOK'
  <2>1. taken' \in [Clients -> Nat] /\ unread' \in [Clients -> Nat]
    BY <1>1, <1>3, <1>5 DEF SocketsTypeOK
  <2>2. torn' \subseteq Clients /\ closing' \in BOOLEAN
    BY <1>1, <1>3, <1>5 DEF SocketsTypeOK
  <2>3. written' \in [Clients -> Seq(Kinds')] /\ Kinds' = Kinds
    BY <1>1, <1>2 DEF SocketsTypeOK, Kinds
  <2> QED
    BY <1>1, <1>2, <2>1, <2>2, <2>3 DEF SocketsTypeOK
<1>7. ReplyTypes'
  <2> DEFINE R == IF server = "http" THEN HttpReply ELSE Seq(Unit)
  <2>1. answers \in [Clients -> Seq(R)] /\ result.reply \in R
    BY <1>1, <1>4 DEF ReplyTypes
  <2> HIDE DEF R
  <2>2. answers' \in [Clients -> Seq(R)]
    BY <1>3, <2>1
  <2> QED
    BY <1>2, <2>2 DEF ReplyTypes, R
<1>8. \A d \in Clients \ {c} : ClientInv(d)'
  <2> SUFFICES ASSUME NEW d \in Clients \ {c}
               PROVE  ClientInv(d)'
    OBVIOUS
  <2>1. ClientInv(d) /\ taken'[d] = taken[d] /\ answers'[d] = answers[d]
    BY <1>1, <1>3 DEF SocketsInv, SocketsTypeOK, ReplyTypes
  <2>2. (d \in torn)' <=> d \in torn
    BY <1>3
  <2> QED
    BY <1>2, <2>1, <2>2, SameClient
<1> QED
  BY <1>4, <1>6, <1>7, <1>8 DEF SocketsInv

LEMMA SocketsStep ==
    SocketsAssumption /\ SocketsInv /\ [SocketsNext]_socketVars => SocketsInv'
<1> SUFFICES ASSUME SocketsAssumption, SocketsInv, [SocketsNext]_socketVars
             PROVE  SocketsInv'
  OBVIOUS
<1>1. SocketsTypeOK
  BY DEF SocketsInv
<1>2. ASSUME NEW c \in Clients, Connect(c)
      PROVE  SocketsInv'
  <2>1. queue' \in Seq(Clients)
        /\ sock' \in [Clients -> {"new", "open", "eof", "reset", "lost", "closed"}]
    BY <1>2, ServerTyped, <1>1 DEF Connect, ServerTypes
  <2>2. ServerTypes'
    BY <1>1, <1>2, <2>1, ServerTyped DEF Connect, ServerTypes
  <2> QED
    BY <1>2, <2>2, QuietKeeps DEF Connect
<1>3. ASSUME NEW c \in Clients, HangUp(c) \/ Read(c)
      PROVE  SocketsInv'
  <2>1. CASE HangUp(c)
    <3>1. sock' \in [Clients -> {"new", "open", "eof", "reset", "lost", "closed"}]
      BY <2>1, ServerTyped, <1>1 DEF HangUp, ServerTypes
    <3>2. ServerTypes'
      BY <1>1, <2>1, <3>1, ServerTyped DEF HangUp, ServerTypes
    <3> QED
      BY <2>1, <3>2, QuietKeeps DEF HangUp
  <2>2. CASE Read(c)
    <3>1. unread' \in [Clients -> Nat]
      BY <2>2, ServerTyped, <1>1 DEF Read, ServerTypes
    <3>2. ServerTypes'
      BY <1>1, <2>2, <3>1, ServerTyped DEF Read, ServerTypes
    <3> QED
      BY <2>2, <3>2, QuietKeeps DEF Read
  <2> QED
    BY <1>3, <2>1, <2>2
<1>4. CASE Accept
  <2>1. queue \in Seq(Clients) /\ queue # << >>
    BY <1>1, <1>4 DEF Accept, SocketsTypeOK
  <2>2. Head(queue) \in Clients /\ Tail(queue) \in Seq(Clients)
    BY <2>1
  <2>3. ServerTypes /\ UNCHANGED <<closing, unread>> /\ UNCHANGED streamVars
    BY <1>1, <1>4, ServerTyped DEF Accept
  <2>4. CASE ServerEnds
    <3>1. ServerTypes'
      BY <2>3, <2>4, EndingTyped DEF ServerTypes
    <3> QED
      BY <2>3, <3>1, QuietKeeps
  <2>5. CASE serving' = Head(queue) /\ queue' = Tail(queue) /\ UNCHANGED <<listening, sock>>
    <3>1. ServerTypes'
      BY <2>2, <2>3, <2>5 DEF ServerTypes
    <3> QED
      BY <2>3, <3>1, QuietKeeps
  <2> QED
    BY <1>4, <2>4, <2>5 DEF Accept
<1>5. ASSUME NEW c \in Clients, Leave(c)
      PROVE  SocketsInv'
  <2>1. ServerTypes /\ closing' = FALSE /\ UNCHANGED unread /\ UNCHANGED streamVars
    BY <1>1, <1>5, ServerTyped DEF Leave
  <2>2. CASE ServerEnds
    <3>1. ServerTypes'
      BY <2>1, <2>2, EndingTyped
    <3> QED
      BY <2>1, <3>1, QuietKeeps
  <2>3. CASE /\ serving' = NoClient
             /\ sock' = [sock EXCEPT ![c] = "closed"]
             /\ UNCHANGED <<listening, queue>>
    <3>1. sock' \in [Clients -> {"new", "open", "eof", "reset", "lost", "closed"}]
      BY <2>1, <2>3 DEF ServerTypes
    <3>2. ServerTypes'
      BY <2>1, <2>3, <3>1 DEF ServerTypes
    <3> QED
      BY <2>1, <3>2, QuietKeeps
  <2> QED
    BY <1>5, <2>2, <2>3 DEF Leave
<1>6. CASE UNCHANGED socketVars
  <2>1. ServerTypes'
    BY <1>1, <1>6, ServerTyped DEF socketVars, ServerTypes
  <2> QED
    BY <1>6, <2>1, QuietKeeps DEF socketVars
<1> QED
  BY <1>2, <1>3, <1>4, <1>5, <1>6, SegmentKeeps, WriteKeeps, ReceiveKeeps
     DEF SocketsNext, ServerStep, ClientStep

LEMMA SocketsInvariance == SocketsSpec => []SocketsInv
<1>1. SocketsInit => SocketsInv
  BY SocketsStart
<1>2. SocketsInv /\ [SocketsNext]_socketVars => SocketsInv'
  BY SocketsAssumption, SocketsStep
<1>3. SocketsSpec => SocketsInit /\ [][SocketsNext]_socketVars
  BY PTL DEF SocketsSpec
<1> QED
  BY <1>1, <1>2, <1>3, PTL

(* Every reachable state of the two socket servers is well typed.          *)
THEOREM SocketsTyped == SocketsSpec => []SocketsTypeOK
<1>1. SocketsInv => SocketsTypeOK
  BY DEF SocketsInv
<1> QED
  BY <1>1, SocketsInvariance, PTL

(* However the stream is cut and joined, in whatever buffer: a request is  *)
(* answered at most once and in its order, an order is confirmed only for  *)
(* a POST, whole requests get the right answer each, and the echo returns  *)
(* every byte in its place, but for characters that were cut in two.       *)
THEOREM StreamsAreAnswered == SocketsSpec => []AnswersMatch
<1>1. SocketsInv => AnswersMatch
  BY DEF SocketsInv, ClientInv, HttpAnswers, WholeSoFar, AnswersMatch
<1> QED
  BY <1>1, SocketsInvariance, PTL
=============================================================================
