------------------------ MODULE HonConnectionProofs ------------------------
(***************************************************************************)
(* Proofs about HonConnection, for any number of requests and any bounds.  *)
(* An asyncio.Lock that is queued for, handed on, left on an exception and *)
(* queued for again by the recursion of _intercept admits one request at a *)
(* time to the token exchanges.  As long as every exchange is answered, no *)
(* spent token is presented; the login is the last resort and no request   *)
(* fails, unless create() swaps the tokens under a sibling's call.         *)
(* Every step of a request brings it nearer its end, and the lock is       *)
(* handed on in turn.                                                      *)
(***************************************************************************)
EXTENDS HonConnection, TLAPS

PcTypes == [Requests -> {"idle", "lock", "sent"} \cup InCall \cup Ended]
Waiting == {"lock"} \cup InCall

Queued(r, q) == \E i \in 1 .. Len(q) : q[i] = r
Distinct(q) == \A i, j \in 1 .. Len(q) : q[i] = q[j] => i = j

\* The requests that come before r in the queue q.
Ahead(r, q) == {s \in Requests : \E i, j \in 1 .. Len(q) : i < j /\ q[i] = s /\ q[j] = r}

\* A request is in the queue, once, exactly while it waits for the lock or holds
\* it, and one inside an exchange is the holder.
LockInv ==
  /\ Distinct(queue)
  /\ \A r \in Requests : Queued(r, queue) <=> pc[r] \in Waiting
  /\ \A r \in Requests : pc[r] \in InCall => HoldsLock(r)

IInv == TypeOK /\ LockInv

\* In this step nobody gets in front of a request that waits for the lock.
InTurn ==
  \A r \in Requests : pc[r] \in Waiting /\ ~HoldsLock(r) => Ahead(r, queue') \subseteq Ahead(r, queue)

-----------------------------------------------------------------------------
(* The queue of the lock.                                                  *)

LEMMA AppendQueue ==
  ASSUME NEW q \in Seq(Requests), NEW r \in Requests, Distinct(q), ~Queued(r, q)
  PROVE  /\ Append(q, r) \in Seq(Requests)
         /\ Distinct(Append(q, r))
         /\ \A x \in Requests : Queued(x, Append(q, r)) <=> Queued(x, q) \/ x = r
         /\ \A x \in Requests \ {r} : Ahead(x, Append(q, r)) \subseteq Ahead(x, q)
         /\ q # <<>> => Append(q, r) # <<>> /\ Head(Append(q, r)) = Head(q)
<1>1. /\ Append(q, r) \in Seq(Requests) /\ Len(Append(q, r)) = Len(q) + 1
      /\ \A i \in 1 .. Len(q) : Append(q, r)[i] = q[i]
      /\ Append(q, r)[Len(q) + 1] = r
      /\ Len(q) \in Nat
  OBVIOUS
<1>2. Distinct(Append(q, r))
  BY <1>1 DEF Distinct, Queued
<1>3. \A x \in Requests : Queued(x, Append(q, r)) <=> Queued(x, q) \/ x = r
  BY <1>1 DEF Queued
<1>4. \A x \in Requests \ {r} : Ahead(x, Append(q, r)) \subseteq Ahead(x, q)
  BY <1>1 DEF Ahead
<1>5. q # <<>> => Append(q, r) # <<>> /\ Head(Append(q, r)) = Head(q)
  OBVIOUS
<1> QED
  BY <1>1, <1>2, <1>3, <1>4, <1>5

LEMMA TailQueue ==
  ASSUME NEW q \in Seq(Requests), q # <<>>, Distinct(q)
  PROVE  /\ Tail(q) \in Seq(Requests)
         /\ Distinct(Tail(q))
         /\ \A x \in Requests : Queued(x, Tail(q)) <=> Queued(x, q) /\ x # Head(q)
         /\ \A x \in Requests : Ahead(x, Tail(q)) \subseteq Ahead(x, q)
<1>1. /\ Tail(q) \in Seq(Requests) /\ Len(Tail(q)) = Len(q) - 1
      /\ \A i \in 1 .. Len(q) - 1 : Tail(q)[i] = q[i + 1]
      /\ Len(q) \in Nat \ {0} /\ Head(q) = q[1]
  OBVIOUS
<1>2. Distinct(Tail(q))
  BY <1>1 DEF Distinct
<1>3. ASSUME NEW x \in Requests, Queued(x, q), x # Head(q) PROVE Queued(x, Tail(q))
  <2>1. PICK i \in 1 .. Len(q) : q[i] = x
    BY <1>3 DEF Queued
  <2>2. i # 1 /\ i - 1 \in 1 .. Len(q) - 1 /\ (i - 1) + 1 = i
    BY <1>1, <1>3, <2>1
  <2>3. Tail(q)[i - 1] = x
    BY <1>1, <2>1, <2>2
  <2> QED
    BY <1>1, <2>2, <2>3 DEF Queued
<1>4. \A x \in Requests : Queued(x, Tail(q)) => Queued(x, q) /\ x # Head(q)
  BY <1>1 DEF Distinct, Queued
<1>5. \A x \in Requests : Ahead(x, Tail(q)) \subseteq Ahead(x, q)
  <2> SUFFICES ASSUME NEW x \in Requests, NEW y \in Ahead(x, Tail(q)) PROVE y \in Ahead(x, q)
    OBVIOUS
  <2>1. PICK i, j \in 1 .. Len(q) - 1 : i < j /\ Tail(q)[i] = y /\ Tail(q)[j] = x
    BY <1>1 DEF Ahead
  <2>2. i + 1 \in 1 .. Len(q) /\ j + 1 \in 1 .. Len(q) /\ i + 1 < j + 1
    BY <1>1, <2>1
  <2>3. q[i + 1] = y /\ q[j + 1] = x
    BY <1>1, <2>1
  <2> QED
    BY <2>2, <2>3 DEF Ahead
<1> QED
  BY <1>1, <1>2, <1>3, <1>4, <1>5

LEMMA DequeueQueue ==
  ASSUME NEW r \in Requests, queue \in Seq(Requests), Distinct(queue)
  PROVE  /\ Dequeued(r) \in Seq(Requests)
         /\ Distinct(Dequeued(r))
         /\ \A x \in Requests : Queued(x, Dequeued(r)) <=> Queued(x, queue) /\ x # r
         /\ \A x \in Requests : Ahead(x, Dequeued(r)) \subseteq Ahead(x, queue)
         /\ queue # <<>> /\ Head(queue) # r
              => Dequeued(r) # <<>> /\ Head(Dequeued(r)) = Head(queue)
<1>1. CASE ~Queued(r, queue)
  <2>1. Dequeued(r) = queue
    BY <1>1 DEF Dequeued, Queued
  <2> QED
    BY <2>1, <1>1
<1>2. CASE Queued(r, queue)
  <2> DEFINE k == CHOOSE i \in 1 .. Len(queue) : queue[i] = r
             d == [j \in 1 .. Len(queue) - 1 |-> queue[IF j < k THEN j ELSE j + 1]]
  <2>1. k \in 1 .. Len(queue) /\ queue[k] = r
    BY <1>2 DEF Queued
  <2>2. Dequeued(r) = d
    BY <1>2 DEF Dequeued, Queued
  <2> HIDE DEF k
  <2>3. Len(queue) \in Nat /\ Len(queue) - 1 \in Nat
    BY <2>1
  <2>4. d \in Seq(Requests) /\ Len(d) = Len(queue) - 1
    BY <2>1, <2>3
  <2>5. \A j \in 1 .. Len(d) : d[j] = queue[IF j < k THEN j ELSE j + 1]
    BY <2>3, <2>4
  <2>6. \A j \in 1 .. Len(d) : (IF j < k THEN j ELSE j + 1) \in 1 .. Len(queue) \ {k}
    BY <2>1, <2>3, <2>4
  <2> HIDE DEF d
  <2>7. Distinct(d)
    BY <2>1, <2>3, <2>4, <2>5, <2>6 DEF Distinct
  <2>8. \A x \in Requests : Queued(x, d) => Queued(x, queue) /\ x # r
    BY <2>1, <2>4, <2>5, <2>6 DEF Queued, Distinct
  <2>10. ASSUME NEW x \in Requests, Queued(x, queue), x # r PROVE Queued(x, d)
    <3>1. PICK i \in 1 .. Len(queue) : queue[i] = x
      BY <2>10 DEF Queued
    <3>2. i # k
      BY <2>1, <2>10, <3>1
    <3>3. CASE i < k
      <4>1. i \in 1 .. Len(d)
        BY <2>1, <2>3, <2>4, <3>3
      <4>2. d[i] = x
        BY <2>5, <3>1, <3>3, <4>1
      <4> QED
        BY <4>1, <4>2 DEF Queued
    <3>4. CASE ~(i < k)
      <4>1. i - 1 \in 1 .. Len(d) /\ ~(i - 1 < k) /\ (i - 1) + 1 = i
        BY <2>1, <2>3, <2>4, <3>2, <3>4
      <4>2. d[i - 1] = queue[(i - 1) + 1]
        BY <2>5, <4>1
      <4> QED
        BY <3>1, <4>1, <4>2 DEF Queued
    <3> QED
      BY <3>3, <3>4
  <2>11. \A x \in Requests : Ahead(x, d) \subseteq Ahead(x, queue)
    <3> SUFFICES ASSUME NEW x \in Requests, NEW y \in Ahead(x, d) PROVE y \in Ahead(x, queue)
      OBVIOUS
    <3> DEFINE at(j) == IF j < k THEN j ELSE j + 1
    <3>1. PICK i, j \in 1 .. Len(d) : i < j /\ d[i] = y /\ d[j] = x
      BY DEF Ahead
    <3>2. at(i) \in 1 .. Len(queue) /\ at(j) \in 1 .. Len(queue)
      BY <2>6, <3>1
    <3>3. at(i) < at(j)
      BY <2>1, <2>3, <2>4, <3>1
    <3>4. queue[at(i)] = y /\ queue[at(j)] = x
      BY <2>5, <3>1
    <3> QED
      BY <3>2, <3>3, <3>4 DEF Ahead
  <2>9. queue # <<>> /\ Head(queue) # r => d # <<>> /\ Head(d) = Head(queue)
    <3> SUFFICES ASSUME queue # <<>>, Head(queue) # r
                 PROVE  d # <<>> /\ Head(d) = Head(queue)
      OBVIOUS
    <3>1. k > 1
      BY <2>1
    <3>2. 1 \in 1 .. Len(d)
      BY <2>1, <2>3, <2>4, <3>1
    <3>3. d[1] = queue[1]
      BY <2>5, <3>1, <3>2
    <3> QED
      BY <2>4, <3>2, <3>3
  <2> QED
    BY <2>2, <2>4, <2>7, <2>8, <2>9, <2>10, <2>11
<1> QED
  BY <1>1, <1>2

-----------------------------------------------------------------------------
(* What one step may do to the lock.                                       *)

Joins(r) == pc[r] \notin Waiting /\ pc' = [pc EXCEPT ![r] = "lock"] /\ queue' = Append(queue, r)
Holds(r, label) ==
  HoldsLock(r) /\ pc' = [pc EXCEPT ![r] = label] /\ label \in InCall /\ queue' = queue
Leaves(r, label) ==
  HoldsLock(r) /\ pc' = [pc EXCEPT ![r] = label] /\ label \notin Waiting /\ queue' = Tail(queue)
Rejoins(r) ==
  HoldsLock(r) /\ pc' = [pc EXCEPT ![r] = "lock"] /\ queue' = Append(Tail(queue), r)
Drops(r) == pc' = [pc EXCEPT ![r] = "failed"] /\ queue' = Dequeued(r)
Elsewhere(r, label) ==
  pc[r] \notin Waiting /\ pc' = [pc EXCEPT ![r] = label] /\ label \notin Waiting /\ queue' = queue

LEMMA JoinsKeeps ==
  ASSUME IInv, NEW r \in Requests, Joins(r)  PROVE LockInv' /\ InTurn
<1>1. ~Queued(r, queue) /\ Distinct(queue) /\ queue \in Seq(Requests) /\ pc \in PcTypes
  BY DEF IInv, LockInv, Joins, TypeOK, PcTypes
<1>2. Distinct(queue') /\ \A x \in Requests : Queued(x, queue') <=> pc'[x] \in Waiting
  <2>1. /\ Distinct(queue')
        /\ \A x \in Requests : Queued(x, queue') <=> Queued(x, queue) \/ x = r
    BY <1>1, AppendQueue DEF Joins
  <2>2. \A x \in Requests : pc'[x] = IF x = r THEN "lock" ELSE pc[x]
    BY <1>1 DEF Joins, PcTypes
  <2> QED
    BY <2>1, <2>2 DEF IInv, LockInv, Waiting
<1>3. \A x \in Requests : pc'[x] \in InCall => HoldsLock(x)'
  <2>1. \A x \in Requests : pc'[x] \in InCall => x # r /\ HoldsLock(x)
    BY <1>1 DEF IInv, LockInv, Joins, Waiting, InCall
  <2> QED
    BY <1>1, <2>1, AppendQueue DEF Joins, HoldsLock
<1>4. InTurn
  BY <1>1, AppendQueue DEF Joins, InTurn
<1> QED
  BY <1>2, <1>3, <1>4 DEF LockInv

LEMMA HoldsKeeps ==
  ASSUME IInv, NEW r \in Requests, NEW label, Holds(r, label)  PROVE LockInv' /\ InTurn
<1>1. LockInv'
  <2>1. Queued(r, queue)
    BY DEF IInv, TypeOK, Holds, HoldsLock, Queued
  <2> QED
    BY <2>1 DEF IInv, TypeOK, LockInv, Holds, HoldsLock, Waiting
<1> QED
  BY <1>1 DEF Holds, InTurn

LEMMA LeavesKeeps ==
  ASSUME IInv, NEW r \in Requests, NEW label, Leaves(r, label)  PROVE LockInv' /\ InTurn
<1>1. \A s \in Requests \ {r} : pc[s] \notin InCall
  BY DEF IInv, LockInv, Leaves, HoldsLock
<1>2. queue # <<>> /\ Head(queue) = r /\ queue \in Seq(Requests) /\ Distinct(queue)
  BY DEF IInv, TypeOK, LockInv, Leaves, HoldsLock
<1>3. /\ Distinct(queue')
      /\ \A x \in Requests : Queued(x, queue') <=> Queued(x, queue) /\ x # r
      /\ \A x \in Requests : Ahead(x, queue') \subseteq Ahead(x, queue)
  BY <1>2, TailQueue DEF Leaves
<1>4. LockInv'
  BY <1>1, <1>3 DEF IInv, TypeOK, LockInv, Leaves, Waiting
<1> QED
  BY <1>3, <1>4 DEF InTurn

LEMMA RejoinsKeeps ==
  ASSUME IInv, NEW r \in Requests, Rejoins(r)  PROVE LockInv' /\ InTurn
<1>1. \A s \in Requests \ {r} : pc[s] \notin InCall
  BY DEF IInv, LockInv, Rejoins, HoldsLock
<1>2. queue # <<>> /\ Head(queue) = r /\ queue \in Seq(Requests) /\ Distinct(queue)
  BY DEF IInv, TypeOK, LockInv, Rejoins, HoldsLock
<1>3. /\ Tail(queue) \in Seq(Requests) /\ Distinct(Tail(queue))
      /\ \A x \in Requests : Queued(x, Tail(queue)) <=> Queued(x, queue) /\ x # r
      /\ \A x \in Requests : Ahead(x, Tail(queue)) \subseteq Ahead(x, queue)
  BY <1>2, TailQueue
<1>4. /\ Distinct(queue')
      /\ \A x \in Requests : Queued(x, queue') <=> Queued(x, Tail(queue)) \/ x = r
      /\ \A x \in Requests \ {r} : Ahead(x, queue') \subseteq Ahead(x, Tail(queue))
  BY <1>3, AppendQueue DEF Rejoins
<1>5. \A x \in Requests : Queued(x, queue') <=> Queued(x, queue) \/ x = r
  BY <1>3, <1>4
<1>6. LockInv'
  BY <1>1, <1>4, <1>5 DEF IInv, TypeOK, LockInv, Rejoins, Waiting, InCall
<1>7. InTurn
  BY <1>3, <1>4 DEF InTurn, Rejoins
<1> QED
  BY <1>6, <1>7

LEMMA DropsKeeps ==
  ASSUME IInv, NEW r \in Requests, Drops(r)  PROVE LockInv' /\ InTurn
<1>1. /\ Distinct(queue')
      /\ \A x \in Requests : Queued(x, queue') <=> Queued(x, queue) /\ x # r
      /\ \A x \in Requests : Ahead(x, queue') \subseteq Ahead(x, queue)
      /\ queue # <<>> /\ Head(queue) # r => queue' # <<>> /\ Head(queue') = Head(queue)
  BY DequeueQueue DEF IInv, TypeOK, LockInv, Drops
<1>2. LockInv'
  BY <1>1 DEF IInv, TypeOK, LockInv, Drops, HoldsLock, Waiting, InCall
<1> QED
  BY <1>1, <1>2 DEF InTurn

LEMMA ElsewhereKeeps ==
  ASSUME IInv, NEW r \in Requests, NEW label, Elsewhere(r, label)  PROVE LockInv' /\ InTurn
<1>1. LockInv'
  BY DEF IInv, TypeOK, LockInv, Elsewhere, HoldsLock, Waiting
<1> QED
  BY <1>1 DEF Elsewhere, InTurn

-----------------------------------------------------------------------------
(* Types, operator by operator.                                            *)

USE BoundsAssumption

LEMMA AuthFields ==
  ASSUME NEW a \in Auth
  PROVE  a.id \in Token /\ a.cognito \in Token /\ a.refresh \in Token /\ a.age \in 0 .. 2
BY DEF Auth

LEMMA BlankIsAuth ==
  /\ BlankAuth \in Auth
  /\ \A n \in 0 .. 2 : [BlankAuth EXCEPT !.age = n] \in Auth
BY DEF BlankAuth, Auth, Token, Nothing

\* A HonAuth that takes over a new grant.
LEMMA AdoptIsAuth ==
  ASSUME NEW a \in Auth, NEW t \in Token
  PROVE  Adopt(a, t) \in Auth
BY AuthFields DEF Auth, Adopt

\* Either the request is sent, or it queues for the lock.
LEMMA CheckHeadersTypes ==
  ASSUME TypeOK, NEW r \in Requests, NEW l \in 0 .. 2, NEW a \in Auth, NEW rt,
         NEW g \in Nat, NEW others \in Seq(Requests), CheckHeaders(r, l, a, rt, g, others)
  PROVE  /\ pc' \in PcTypes /\ loop' \in [Requests -> 0 .. 2]
         /\ why' \in [Requests -> {"headers", "rejection"}]
         /\ header' \in [Requests -> Token] /\ genAtSend' \in [Requests -> Nat]
         /\ queue' \in Seq(Requests)
         /\ \/ pc' = [pc EXCEPT ![r] = "lock"] /\ queue' = Append(others, r)
            \/ pc' = [pc EXCEPT ![r] = "sent"] /\ queue' = others
<1>1. a.cognito \in Token
  BY AuthFields
<1>2. loop' \in [Requests -> 0 .. 2]
  BY DEF TypeOK, CheckHeaders
<1>3. CASE NeedRefresh(a, rt) \/ NeedAuth(a)
  <2>1. /\ pc' = [pc EXCEPT ![r] = "lock"] /\ queue' = Append(others, r)
        /\ why' = [why EXCEPT ![r] = "headers"] /\ UNCHANGED <<header, genAtSend>>
    BY <1>3 DEF CheckHeaders, Goto
  <2>2. queue' \in Seq(Requests)
    BY <2>1
  <2> QED
    BY <1>2, <2>1, <2>2 DEF TypeOK, PcTypes
<1>4. CASE ~(NeedRefresh(a, rt) \/ NeedAuth(a))
  <2>1. /\ pc' = [pc EXCEPT ![r] = "sent"] /\ queue' = others
        /\ header' = [header EXCEPT ![r] = a.cognito]
        /\ genAtSend' = [genAtSend EXCEPT ![r] = g] /\ UNCHANGED why
    BY <1>4 DEF CheckHeaders, Send, Goto
  <2> QED
    BY <1>1, <1>2, <2>1 DEF TypeOK, PcTypes
<1> QED
  BY <1>3, <1>4

LEMMA StartRefreshTypes ==
  ASSUME TypeOK, NEW r \in Requests, StartRefresh(r)
  PROVE  /\ auths' \in [Auths -> Auth] /\ obj' \in [Requests -> Auths]
         /\ pc' = [pc EXCEPT ![r] = "refresh"] /\ pc' \in PcTypes
         /\ UNCHANGED <<loop, header, genAtSend, queue>>
<1>1. auths[cur] \in Auth /\ cur \in Auths
  BY DEF TypeOK
<1>2. [auths[cur] EXCEPT !.refresh = refreshToken] \in Auth
  BY <1>1 DEF TypeOK, Auth
<1>3. auths' \in [Auths -> Auth]
  BY <1>2 DEF TypeOK, StartRefresh
<1> QED
  BY <1>3 DEF TypeOK, StartRefresh, Goto, PcTypes, InCall

LEMMA StartLoginTypes ==
  ASSUME TypeOK, NEW r \in Requests, NEW as \in [Auths -> Auth], StartLogin(r, as)
  PROVE  /\ auths' \in [Auths -> Auth] /\ obj' \in [Requests -> Auths]
         /\ pc' = [pc EXCEPT ![r] = "login"] /\ pc' \in PcTypes
         /\ UNCHANGED <<loop, header, genAtSend, queue>>
<1>1. cur \in Auths /\ as[cur].age \in 0 .. 2
  BY AuthFields DEF TypeOK
<1>2. [BlankAuth EXCEPT !.age = as[cur].age] \in Auth
  BY <1>1, BlankIsAuth
<1> QED
  BY <1>1, <1>2 DEF TypeOK, StartLogin, Goto, PcTypes, InCall

LEMMA SendUnlockedTypes ==
  ASSUME TypeOK, NEW r \in Requests, NEW as \in [Auths -> Auth], NEW g \in Nat,
         HoldsLock(r), SendUnlocked(r, as, g)
  PROVE  /\ auths' = as /\ pc' = [pc EXCEPT ![r] = "sent"] /\ pc' \in PcTypes
         /\ header' \in [Requests -> Token] /\ genAtSend' \in [Requests -> Nat]
         /\ queue' = Tail(queue) /\ queue' \in Seq(Requests)
         /\ UNCHANGED <<obj, loop>>
<1>1. as[cur] \in Auth
  BY DEF TypeOK
<1>2. as[cur].cognito \in Token
  BY <1>1, AuthFields
<1>3. /\ auths' = as /\ queue' = Tail(queue) /\ UNCHANGED <<obj, loop>>
      /\ pc' = [pc EXCEPT ![r] = "sent"]
      /\ header' = [header EXCEPT ![r] = as[cur].cognito]
      /\ genAtSend' = [genAtSend EXCEPT ![r] = g]
  BY DEF SendUnlocked, Send, Goto
<1>4. Tail(queue) \in Seq(Requests)
  BY DEF TypeOK, HoldsLock
<1> QED
  BY <1>2, <1>3, <1>4 DEF TypeOK, PcTypes

\* What the rest of the state keeps of its type in every case below.
RequestTypes ==
  /\ auths' \in [Auths -> Auth] /\ obj' \in [Requests -> Auths]
  /\ pc' \in PcTypes /\ loop' \in [Requests -> 0 .. 2]
  /\ why' \in [Requests -> {"headers", "rejection"}]
  /\ header' \in [Requests -> Token] /\ genAtSend' \in [Requests -> Nat]
  /\ queue' \in Seq(Requests)

\* After refresh(): the holder goes on to the login, sends, or queues again.
LEMMA RefreshReturnsStep ==
  ASSUME IInv, NEW r \in Requests, pc[r] \in InCall, NEW as \in [Auths -> Auth],
         RefreshReturns(r, as)
  PROVE  /\ RequestTypes /\ refreshToken' \in Token /\ refreshGen' \in Nat
         /\ LockInv' /\ InTurn
<1>1. TypeOK /\ HoldsLock(r) /\ queue # <<>> /\ queue \in Seq(Requests)
  BY DEF IInv, LockInv, HoldsLock, TypeOK
<1>2. as[cur] \in Auth /\ as[cur].refresh \in Token /\ refreshGen + 1 \in Nat
  <2>1. as[cur] \in Auth /\ refreshGen \in Nat
    BY <1>1 DEF TypeOK
  <2>2. as[cur].refresh \in Token
    BY <2>1, AuthFields
  <2>3. refreshGen + 1 \in Nat
    BY <2>1
  <2> QED
    BY <2>1, <2>2, <2>3
<1>3. refreshToken' \in Token /\ refreshGen' \in Nat
  BY <1>2 DEF RefreshReturns
<1>4. CASE why[r] = "headers" /\ NeedAuth(as[cur])
  <2>1. StartLogin(r, as) /\ UNCHANGED why
    BY <1>4 DEF RefreshReturns
  <2>2. RequestTypes
    BY <1>1, <2>1, StartLoginTypes DEF RequestTypes, TypeOK
  <2>3. Holds(r, "login")
    BY <1>1, <2>1, StartLoginTypes DEF Holds, InCall
  <2> QED
    BY <1>3, <2>2, <2>3, HoldsKeeps
<1>5. CASE why[r] = "headers" /\ ~NeedAuth(as[cur])
  <2>1. SendUnlocked(r, as, refreshGen + 1) /\ UNCHANGED why
    BY <1>5 DEF RefreshReturns
  <2>2. RequestTypes
    BY <1>1, <1>2, <2>1, SendUnlockedTypes DEF RequestTypes, TypeOK
  <2>3. Leaves(r, "sent")
    BY <1>1, <1>2, <2>1, SendUnlockedTypes DEF Leaves, Waiting, InCall
  <2> QED
    BY <1>3, <2>2, <2>3, LeavesKeeps
<1>6. CASE why[r] # "headers"
  <2>1. /\ CheckHeaders(r, 1, as[cur], as[cur].refresh, refreshGen + 1, Tail(queue))
        /\ auths' = as /\ UNCHANGED obj
    BY <1>6 DEF RefreshReturns
  <2>2. Tail(queue) \in Seq(Requests) /\ 1 \in 0 .. 2
    BY <1>1
  <2>3. RequestTypes
    BY <1>1, <1>2, <2>1, <2>2, CheckHeadersTypes DEF RequestTypes, TypeOK
  <2>4. Rejoins(r) \/ Leaves(r, "sent")
    BY <1>1, <1>2, <2>1, <2>2, CheckHeadersTypes DEF Rejoins, Leaves, Waiting, InCall
  <2> QED
    BY <1>3, <2>3, <2>4, RejoinsKeeps, LeavesKeeps
<1> QED
  BY <1>4, <1>5, <1>6

LEMMA LoginReturnsStep ==
  ASSUME IInv, NEW r \in Requests, pc[r] \in InCall, NEW as \in [Auths -> Auth],
         LoginReturns(r, as)
  PROVE  /\ RequestTypes /\ refreshToken' \in Token /\ refreshGen' \in Nat
         /\ LockInv' /\ InTurn
<1>1. TypeOK /\ HoldsLock(r)
  BY DEF IInv, LockInv
<1>2. as[cur].refresh \in Token /\ refreshGen + 1 \in Nat
  <2>1. as[cur] \in Auth /\ refreshGen \in Nat
    BY <1>1 DEF TypeOK
  <2>2. as[cur].refresh \in Token
    BY <2>1, AuthFields
  <2>3. refreshGen + 1 \in Nat
    BY <2>1
  <2> QED
    BY <2>1, <2>2, <2>3
<1>3. RequestTypes
  BY <1>1, <1>2, SendUnlockedTypes DEF LoginReturns, RequestTypes, TypeOK
<1>4. Leaves(r, "sent")
  BY <1>1, <1>2, SendUnlockedTypes DEF LoginReturns, Leaves, Waiting, InCall
<1> QED
  BY <1>2, <1>3, <1>4, LeavesKeeps DEF LoginReturns

-----------------------------------------------------------------------------
LEMMA InitIInv == Init => IInv
<1> SUFFICES ASSUME Init PROVE IInv
  OBVIOUS
<1>1. TypeOK
  <2>1. refreshToken \in Token /\ liveRefresh \subseteq Grants /\ 1 \in Auths /\ 1 \in Token
    BY DEF Init, Token, Grants, Nothing, Auths
  <2>2. queue \in Seq(Requests) /\ refreshGen \in Nat
    BY DEF Init
  <2>3. auths \in [Auths -> Auth]
    BY BlankIsAuth DEF Init
  <2>4. header \in [Requests -> Token] /\ obj \in [Requests -> Auths]
    BY <2>1 DEF Init, Token
  <2>5. 0 \in 0 .. MaxUpsets /\ 0 \in 0 .. MaxFaults
    OBVIOUS
  <2>6. loop \in [Requests -> 0 .. 2] /\ genAtSend \in [Requests -> Nat]
    BY DEF Init
  <2> QED
    BY <2>1, <2>2, <2>3, <2>4, <2>5, <2>6 DEF Init, TypeOK
<1>2. LockInv
  BY DEF Init, LockInv, Distinct, Queued, HoldsLock, Waiting, InCall
<1> QED
  BY <1>1, <1>2 DEF IInv

\* One step per action.
LEMMA NextInTurn == IInv /\ [Next]_vars => IInv' /\ InTurn
<1> SUFFICES ASSUME IInv, [Next]_vars PROVE IInv' /\ InTurn
  OBVIOUS
<1> USE DEF connVars, reqVars, srvVars, bounds
<1>0. /\ TypeOK /\ LockInv
      /\ \A a \in Auths : auths[a] \in Auth
      /\ cur \in Auths
  BY DEF IInv, TypeOK
<1>1. ASSUME NEW r \in Requests, Enter(r) PROVE IInv' /\ InTurn
  <2>1. CheckHeaders(r, 0, auths[cur], refreshToken, refreshGen, queue)
    BY <1>1 DEF Enter
  <2>2. 0 \in 0 .. 2 /\ auths[cur] \in Auth /\ refreshGen \in Nat /\ queue \in Seq(Requests)
    BY <1>0 DEF TypeOK
  <2>3. TypeOK'
    BY <1>0, <1>1, <2>1, <2>2, CheckHeadersTypes DEF Enter, TypeOK, PcTypes
  <2>4. pc[r] \notin Waiting
    BY <1>1 DEF Enter, Waiting, InCall
  <2>5. Joins(r) \/ Elsewhere(r, "sent")
    BY <1>0, <2>1, <2>2, <2>4, CheckHeadersTypes DEF Joins, Elsewhere, Waiting, InCall
  <2> QED
    BY <2>3, <2>5, JoinsKeeps, ElsewhereKeeps DEF IInv
<1>2. ASSUME NEW r \in Requests, LockedHeaders(r) PROVE IInv' /\ InTurn
  <2>0. HoldsLock(r) /\ refreshGen \in Nat /\ auths \in [Auths -> Auth]
    BY <1>0, <1>2 DEF LockedHeaders, TypeOK
  <2>1. CASE StartRefresh(r)
    <3>1. TypeOK'
      BY <1>0, <1>2, <2>1, StartRefreshTypes DEF LockedHeaders, TypeOK, PcTypes
    <3>2. Holds(r, "refresh")
      BY <1>0, <2>0, <2>1, StartRefreshTypes DEF Holds, InCall
    <3> QED
      BY <3>1, <3>2, HoldsKeeps DEF IInv
  <2>2. CASE StartLogin(r, auths)
    <3>1. TypeOK'
      BY <1>0, <1>2, <2>0, <2>2, StartLoginTypes DEF LockedHeaders, TypeOK, PcTypes
    <3>2. Holds(r, "login")
      BY <1>0, <2>0, <2>2, StartLoginTypes DEF Holds, InCall
    <3> QED
      BY <3>1, <3>2, HoldsKeeps DEF IInv
  <2>3. CASE SendUnlocked(r, auths, refreshGen)
    <3>1. TypeOK'
      BY <1>0, <1>2, <2>0, <2>3, SendUnlockedTypes DEF LockedHeaders, TypeOK, PcTypes
    <3>2. Leaves(r, "sent")
      BY <1>0, <2>0, <2>3, SendUnlockedTypes DEF Leaves, Waiting, InCall
    <3> QED
      BY <3>1, <3>2, LeavesKeeps DEF IInv
  <2> QED
    BY <1>2, <2>1, <2>2, <2>3 DEF LockedHeaders
<1>3. ASSUME NEW r \in Requests, LockedRejection(r) PROVE IInv' /\ InTurn
  <2>0. HoldsLock(r) /\ refreshGen \in Nat /\ auths[cur] \in Auth /\ 1 \in 0 .. 2
        /\ Tail(queue) \in Seq(Requests)
    BY <1>0, <1>3 DEF LockedRejection, HoldsLock, TypeOK
  <2>1. CASE refreshGen # genAtSend[r]
    <3>1. CheckHeaders(r, 1, auths[cur], refreshToken, refreshGen, Tail(queue))
          /\ UNCHANGED <<auths, obj>>
      BY <1>3, <2>1 DEF LockedRejection
    <3>2. TypeOK'
      BY <1>0, <1>3, <2>0, <3>1, CheckHeadersTypes DEF LockedRejection, TypeOK, PcTypes
    <3>3. Rejoins(r) \/ Leaves(r, "sent")
      BY <1>0, <2>0, <3>1, CheckHeadersTypes DEF Rejoins, Leaves, Waiting, InCall
    <3> QED
      BY <3>2, <3>3, RejoinsKeeps, LeavesKeeps DEF IInv
  <2>2. CASE refreshGen = genAtSend[r]
    <3>1. StartRefresh(r) /\ UNCHANGED why
      BY <1>3, <2>2 DEF LockedRejection
    <3>2. TypeOK'
      BY <1>0, <1>3, <3>1, StartRefreshTypes DEF LockedRejection, TypeOK, PcTypes
    <3>3. Holds(r, "refresh")
      BY <1>0, <2>0, <3>1, StartRefreshTypes DEF Holds, InCall
    <3> QED
      BY <3>2, <3>3, HoldsKeeps DEF IInv
  <2> QED
    BY <2>1, <2>2
<1>4. ASSUME NEW r \in Requests, RefreshRefused(r) PROVE IInv' /\ InTurn
  <2>1. RefreshReturns(r, auths) /\ pc[r] \in InCall /\ auths \in [Auths -> Auth]
    BY <1>0, <1>4 DEF RefreshRefused, InCall, TypeOK
  <2>2. RequestTypes /\ refreshToken' \in Token /\ refreshGen' \in Nat /\ LockInv' /\ InTurn
    BY <2>1, RefreshReturnsStep
  <2>3. faults' \in 0 .. MaxFaults
    BY <1>0, <1>4 DEF RefreshRefused, Fault, TypeOK
  <2>4. TypeOK'
    BY <1>0, <1>4, <2>2, <2>3 DEF RefreshRefused, RequestTypes, TypeOK, PcTypes
  <2> QED
    BY <2>2, <2>4 DEF IInv
<1>5. ASSUME NEW r \in Requests, RefreshGranted(r) PROVE IInv' /\ InTurn
  <2>0. HoldsLock(r)
    BY <1>0, <1>5 DEF RefreshGranted, LockInv, InCall
  <2>1. granted + 1 \in Grants /\ granted + 1 \in Token /\ obj[r] \in Auths
    <3>1. granted \in Nat /\ granted < MaxGrants /\ MaxGrants \in Nat
      BY <1>0, <1>5 DEF RefreshGranted, Rotate, TypeOK, Token, Grants, Nothing
    <3>2. granted + 1 \in Grants
      BY <3>1 DEF Grants
    <3> QED
      BY <1>0, <3>2 DEF Token, TypeOK
  <2>2. auths[obj[r]] \in Auth
    BY <1>0, <2>1
  <2>3. Adopt(auths[obj[r]], granted + 1) \in Auth
    BY <2>1, <2>2, AdoptIsAuth
  <2>4. auths' \in [Auths -> Auth]
    BY <1>0, <1>5, <2>3 DEF RefreshGranted, TypeOK
  <2>5. granted' \in Token /\ liveRefresh' \subseteq Grants /\ spent' \subseteq Grants
        /\ accepted' = accepted
    BY <1>0, <1>5, <2>1 DEF RefreshGranted, Rotate, TypeOK
  <2>6. pc' = [pc EXCEPT ![r] = "api_auth"] /\ pc' \in PcTypes
    BY <1>0, <1>5 DEF RefreshGranted, Goto, TypeOK, PcTypes, InCall
  <2>7. TypeOK'
    BY <1>0, <1>5, <2>4, <2>5, <2>6 DEF RefreshGranted, TypeOK, PcTypes
  <2>8. Holds(r, "api_auth")
    BY <1>5, <2>0, <2>6 DEF RefreshGranted, Holds, InCall
  <2> QED
    BY <2>7, <2>8, HoldsKeeps DEF IInv
<1>6. ASSUME NEW r \in Requests, RefreshRaises(r) PROVE IInv' /\ InTurn
  <2>1. HoldsLock(r) /\ Leaves(r, "failed") /\ pc' \in PcTypes /\ Tail(queue) \in Seq(Requests)
    BY <1>0, <1>6 DEF RefreshRaises, LockInv, InCall, Raise, Goto, Leaves, Waiting,
                      HoldsLock, TypeOK, PcTypes, Ended
  <2>2. granted' \in Token /\ liveRefresh' \subseteq Grants /\ accepted' = accepted
    <3>1. CASE UNCHANGED <<granted, liveRefresh, accepted>>
      BY <1>0, <3>1 DEF TypeOK
    <3>2. CASE Rotate(auths[obj[r]].refresh)
      <4>1. granted \in Nat /\ granted < MaxGrants /\ MaxGrants \in Nat
        BY <1>0, <3>2 DEF Rotate, TypeOK, Token, Grants, Nothing
      <4>2. granted + 1 \in Grants
        BY <4>1 DEF Grants
      <4> QED
        BY <1>0, <3>2, <4>2 DEF Rotate, TypeOK, Token
    <3> QED
      BY <1>6, <3>1, <3>2 DEF RefreshRaises
  <2>3. faults' \in 0 .. MaxFaults
    BY <1>0, <1>6 DEF RefreshRaises, Fault, TypeOK
  <2>4. TypeOK'
    BY <1>0, <1>6, <2>1, <2>2, <2>3 DEF RefreshRaises, Raise, TypeOK, PcTypes
  <2> QED
    BY <2>1, <2>4, LeavesKeeps DEF IInv
<1>7. ASSUME NEW r \in Requests, ApiAuthGranted(r) PROVE IInv' /\ InTurn
  <2> DEFINE as == [auths EXCEPT ![obj[r]].cognito = auths[obj[r]].id]
  <2>1. obj[r] \in Auths /\ auths[obj[r]] \in Auth /\ auths[obj[r]].id \in Token
    <3>1. obj[r] \in Auths
      BY <1>0 DEF TypeOK
    <3> QED
      BY <1>0, <3>1, AuthFields
  <2>2. [auths[obj[r]] EXCEPT !.cognito = auths[obj[r]].id] \in Auth
    BY <2>1 DEF Auth
  <2>3. as \in [Auths -> Auth]
    BY <1>0, <2>2 DEF TypeOK
  <2>4. pc[r] \in InCall /\ (RefreshReturns(r, as) \/ LoginReturns(r, as))
    BY <1>7 DEF ApiAuthGranted, InCall
  <2> HIDE DEF as
  <2>5. RequestTypes /\ refreshToken' \in Token /\ refreshGen' \in Nat /\ LockInv' /\ InTurn
    BY <2>3, <2>4, RefreshReturnsStep, LoginReturnsStep
  <2>6. accepted' \subseteq Token
    BY <1>0, <1>7, <2>1 DEF ApiAuthGranted, TypeOK
  <2>7. TypeOK'
    BY <1>0, <1>7, <2>5, <2>6 DEF ApiAuthGranted, RequestTypes, TypeOK, PcTypes
  <2> QED
    BY <2>5, <2>7 DEF IInv
<1>8. ASSUME NEW r \in Requests, ApiAuthRaises(r) PROVE IInv' /\ InTurn
  <2>1. HoldsLock(r) /\ Leaves(r, "failed") /\ pc' \in PcTypes /\ Tail(queue) \in Seq(Requests)
    BY <1>0, <1>8 DEF ApiAuthRaises, LockInv, InCall, Raise, Goto, Leaves, Waiting,
                      HoldsLock, TypeOK, PcTypes, Ended
  <2>2. faults' \in 0 .. MaxFaults
    BY <1>0, <1>8 DEF ApiAuthRaises, Fault, TypeOK
  <2>3. auths' \in [Auths -> Auth]
    <3>1. obj[r] \in Auths /\ auths[obj[r]] \in Auth
      BY <1>0 DEF TypeOK
    <3>2. [auths[obj[r]] EXCEPT !.cognito = Nothing] \in Auth
      BY <3>1 DEF Auth, Token
    <3> QED
      BY <1>0, <1>8, <3>2 DEF ApiAuthRaises, TypeOK
  <2>4. TypeOK'
    BY <1>0, <1>8, <2>1, <2>2, <2>3 DEF ApiAuthRaises, Raise, TypeOK, PcTypes
  <2> QED
    BY <2>1, <2>4, LeavesKeeps DEF IInv
<1>9. ASSUME NEW r \in Requests, LoginGranted(r) PROVE IInv' /\ InTurn
  <2>0. HoldsLock(r)
    BY <1>0, <1>9 DEF LoginGranted, LockInv, InCall
  <2>1. granted + 1 \in Grants /\ granted + 1 \in Token /\ obj[r] \in Auths
    <3>1. granted \in Nat /\ granted < MaxGrants /\ MaxGrants \in Nat
      BY <1>0, <1>9 DEF LoginGranted, TypeOK, Token, Grants, Nothing
    <3>2. granted + 1 \in Grants
      BY <3>1 DEF Grants
    <3> QED
      BY <1>0, <3>2 DEF Token, TypeOK
  <2>2. auths[obj[r]] \in Auth
    BY <1>0, <2>1
  <2>3. Adopt(auths[obj[r]], granted + 1) \in Auth
    BY <2>1, <2>2, AdoptIsAuth
  <2>4. auths' \in [Auths -> Auth]
    BY <1>0, <1>9, <2>3 DEF LoginGranted, TypeOK
  <2>5. granted' \in Token /\ liveRefresh' \subseteq Grants
    BY <1>0, <1>9, <2>1 DEF LoginGranted, TypeOK
  <2>6. pc' = [pc EXCEPT ![r] = "api_auth"] /\ pc' \in PcTypes
    BY <1>0, <1>9 DEF LoginGranted, Goto, TypeOK, PcTypes, InCall
  <2>7. TypeOK'
    BY <1>0, <1>9, <2>4, <2>5, <2>6 DEF LoginGranted, TypeOK, PcTypes
  <2>8. Holds(r, "api_auth")
    BY <1>9, <2>0, <2>6 DEF LoginGranted, Holds, InCall
  <2> QED
    BY <2>7, <2>8, HoldsKeeps DEF IInv
<1>10. ASSUME NEW r \in Requests, LoginRaises(r) PROVE IInv' /\ InTurn
  <2>1. HoldsLock(r) /\ Leaves(r, "failed") /\ pc' \in PcTypes /\ Tail(queue) \in Seq(Requests)
    BY <1>0, <1>10 DEF LoginRaises, LockInv, InCall, Raise, Goto, Leaves, Waiting,
                      HoldsLock, TypeOK, PcTypes, Ended
  <2>2. faults' \in 0 .. MaxFaults
    BY <1>0, <1>10 DEF LoginRaises, Fault, TypeOK
  <2>3. auths' \in [Auths -> Auth]
    <3>1. obj[r] \in Auths /\ auths[obj[r]] \in Auth
      BY <1>0 DEF TypeOK
    <3>2. [auths[obj[r]] EXCEPT !.age = 0] \in Auth
      BY <3>1 DEF Auth
    <3> QED
      BY <1>0, <1>10, <3>2 DEF LoginRaises, TypeOK
  <2>4. TypeOK'
    BY <1>0, <1>10, <2>1, <2>2, <2>3 DEF LoginRaises, Raise, TypeOK, PcTypes
  <2> QED
    BY <2>1, <2>4, LeavesKeeps DEF IInv
<1>11. ASSUME NEW r \in Requests, Rejected(r) PROVE IInv' /\ InTurn
  <2>1. Joins(r)
    BY <1>11 DEF Rejected, Joins, Goto, Waiting, InCall
  <2>2. queue' \in Seq(Requests) /\ pc' \in PcTypes
    BY <1>0, <1>11 DEF Rejected, Goto, TypeOK, PcTypes
  <2>3. TypeOK'
    BY <1>0, <1>11, <2>2 DEF Rejected, TypeOK, PcTypes
  <2> QED
    BY <2>1, <2>3, JoinsKeeps DEF IInv
<1>12. ASSUME NEW r \in Requests, Recreate(r) PROVE IInv' /\ InTurn
  <2>1. CheckHeaders(r, 2, BlankAuth, refreshToken, refreshGen, queue)
    BY <1>12 DEF Recreate
  <2>2. 2 \in 0 .. 2 /\ BlankAuth \in Auth /\ refreshGen \in Nat /\ queue \in Seq(Requests)
    BY <1>0, BlankIsAuth DEF TypeOK
  <2>3. cur' \in Auths
    BY <1>0, <1>12 DEF Recreate, Auths
  <2>4. TypeOK'
    BY <1>0, <1>12, <2>1, <2>2, <2>3, CheckHeadersTypes DEF Recreate, TypeOK, PcTypes
  <2>5. pc[r] \notin Waiting
    BY <1>12 DEF Recreate, Waiting, InCall
  <2>6. Joins(r) \/ Elsewhere(r, "sent")
    BY <1>0, <2>1, <2>2, <2>5, CheckHeadersTypes DEF Joins, Elsewhere, Waiting, InCall
  <2> QED
    BY <2>4, <2>6, JoinsKeeps, ElsewhereKeeps DEF IInv
<1>13. ASSUME NEW r \in Requests, GiveUp(r) PROVE IInv' /\ InTurn
  <2>1. Elsewhere(r, "failed")
    BY <1>13 DEF GiveUp, Elsewhere, Goto, Waiting, InCall
  <2>2. TypeOK'
    BY <1>0, <1>13 DEF GiveUp, Goto, TypeOK, Ended
  <2> QED
    BY <2>1, <2>2, ElsewhereKeeps DEF IInv
<1>14. ASSUME NEW r \in Requests, Answered(r) PROVE IInv' /\ InTurn
  <2>1. Elsewhere(r, "done")
    BY <1>14 DEF Answered, Elsewhere, Goto, Waiting, InCall
  <2>2. TypeOK'
    BY <1>0, <1>14 DEF Answered, Goto, TypeOK, Ended
  <2> QED
    BY <2>1, <2>2, ElsewhereKeeps DEF IInv
<1>15. ASSUME NEW r \in Requests, Cancel(r) PROVE IInv' /\ InTurn
  <2>1. Drops(r)
    BY <1>15 DEF Cancel, Drops, Goto
  <2>2. queue' \in Seq(Requests)
    BY <1>0, <2>1, DequeueQueue DEF Drops, TypeOK, LockInv
  <2>3. faults' \in 0 .. MaxFaults /\ pc' \in PcTypes
    BY <1>0, <1>15 DEF Cancel, Fault, Goto, TypeOK, PcTypes, Ended
  <2>4. TypeOK'
    BY <1>0, <1>15, <2>2, <2>3 DEF Cancel, TypeOK, PcTypes
  <2> QED
    BY <2>1, <2>4, DropsKeeps DEF IInv
<1>16. CASE Revoke
  BY <1>0, <1>16 DEF Revoke, IInv, TypeOK, LockInv, HoldsLock, InTurn
<1>17. CASE Age
  <2>1. auths[cur].age \in 0 .. 2
    BY <1>0, AuthFields
  <2>2. auths[cur].age + 1 \in 0 .. 2
    BY <1>17, <2>1 DEF Age
  <2>3. [auths[cur] EXCEPT !.age = @ + 1] \in Auth
    BY <1>0, <2>2 DEF Auth
  <2>4. auths' \in [Auths -> Auth]
    BY <1>0, <1>17, <2>3 DEF Age, TypeOK
  <2>5. upsets' \in 0 .. MaxUpsets
    BY <1>0, <1>17 DEF Age, TypeOK
  <2>6. TypeOK'
    BY <1>0, <1>17, <2>4, <2>5 DEF Age, TypeOK
  <2>7. LockInv'
    BY <1>0, <1>17 DEF Age, LockInv, HoldsLock
  <2> QED
    BY <1>17, <2>6, <2>7 DEF Age, IInv, InTurn
<1>18. CASE UNCHANGED vars
  BY <1>0, <1>18 DEF vars, IInv, TypeOK, LockInv, HoldsLock, InTurn
<1> QED
  BY <1>1, <1>2, <1>3, <1>4, <1>5, <1>6, <1>7, <1>8, <1>9, <1>10, <1>11, <1>12, <1>13,
     <1>14, <1>15, <1>16, <1>17, <1>18 DEF Next, Advance

LEMMA NextIInv == IInv /\ [Next]_vars => IInv'
BY NextInTurn

\* The inductive invariant holds in every behaviour of the connection.
LEMMA Invariance == Spec => []IInv
<1> QED
  BY InitIInv, NextIInv, PTL DEF Spec

\* The connection's state keeps its types.
THEOREM TypeCorrect == Spec => []TypeOK
<1>1. IInv => TypeOK
  BY DEF IInv
<1> QED
  BY <1>1, Invariance, PTL

\* For any number of concurrent requests, cancelled and failing anywhere, at
\* most one is inside a token exchange.
THEOREM TokenCallsExclude == Spec => []OneTokenCall
<1>1. IInv => OneTokenCall
  BY DEF IInv, LockInv, HoldsLock, OneTokenCall
<1> QED
  BY <1>1, Invariance, PTL

-----------------------------------------------------------------------------
(* The tokens: what holds whatever fails.                                  *)

InACall == \E r \in Requests : pc[r] \in InCall

\* Every grant was minted, the API only knows tokens it traded, create() leaves
\* the objects beyond the current one blank, and the one it swaps in under an
\* exchange stays without tokens for as long as the exchange lasts.
ObjectInv ==
  /\ \A t \in liveRefresh \cup spent : t <= granted
  /\ Nothing \notin accepted
  /\ \A a \in Auths : a > cur => auths[a] = BlankAuth
  /\ \A r \in Requests : pc[r] = "api_auth" => auths[obj[r]].id # Nothing
  /\ \A r \in Requests : pc[r] \in InCall /\ obj[r] # cur =>
       obj[r] < cur /\ auths[cur].refresh = Nothing /\ auths[cur].cognito = Nothing

\* The refresh token the next exchange would present is not a spent one, except
\* between the rotation and the copy-back.
ReplayInv ==
  Undisturbed =>
    /\ auths[cur].refresh \notin spent
    /\ refreshToken \in spent => \E r \in Requests : pc[r] = "api_auth"
    /\ \A r \in Requests : pc[r] = "refresh" => auths[obj[r]].refresh \notin spent

Turned(r) == pc[r] = "lock" /\ why[r] = "rejection"

\* As long as _refresh_gen stands where it stood when the request was sent, the
\* cognito token in use is the one it was sent with; if it was turned away for
\* it, the token is still no good.
RejectionInv ==
  /\ \A r \in Requests : genAtSend[r] <= refreshGen
  /\ \A r \in Requests :
       (pc[r] = "sent" \/ Turned(r)) /\ genAtSend[r] = refreshGen
         => auths[cur].cognito \in {header[r], Nothing}
  /\ Undisturbed => \A r \in Requests :
       Turned(r) /\ genAtSend[r] = refreshGen /\ ~InACall
         => \/ header[r] \notin accepted \/ auths[cur].age >= 1
            \/ auths[cur].cognito = Nothing

\* The password login: what the provider still honours is in the process's hands.
CustodyInv ==
  Undisturbed =>
    /\ \A r \in Requests : pc[r] \in InCall => obj[r] = cur
    /\ ~InACall => liveRefresh \subseteq {refreshToken}
    /\ \A r \in Requests : pc[r] \in {"refresh", "api_auth"} =>
         liveRefresh \subseteq {auths[cur].refresh}
    /\ \A r \in Requests : pc[r] = "login" => liveRefresh = {}

\* The cognito token in use was revoked and nobody has replaced it yet.
Dead == auths[cur].cognito \notin accepted \cup {Nothing}

\* The cognito token in use is the one every request in flight was sent with:
\* nothing has happened to it yet, or it was revoked and not replaced yet.
InUse == (upsets = 0 /\ auths[cur].cognito # Nothing) \/ Dead

\* At most one upset: a request that is sent again is sent with a token the API
\* accepts.
OnceInv ==
  /\ \A r \in Requests : loop[r] <= upsets /\ obj[r] = cur
  /\ auths[cur].age <= upsets
  /\ \A r \in Requests : pc[r] = "sent" /\ loop[r] = 1 => header[r] \in accepted
  /\ \A r \in Requests : pc[r] = "api_auth" => auths[cur].refresh \in liveRefresh

CalmInv ==
  upsets = 0 =>
    /\ ~Dead
    /\ \A r \in Requests : why[r] = "headers" /\ (pc[r] = "sent" => header[r] \in accepted)
    /\ auths[cur].cognito = Nothing =>
         accepted = {} /\ \A r \in Requests : pc[r] # "sent"

InUseInv ==
  InUse =>
    /\ auths[cur].age = 0
    /\ \A r \in Requests : loop[r] = 0
    /\ \A r \in Requests : pc[r] = "sent" \/ Turned(r) => genAtSend[r] = refreshGen
    /\ ~InACall => refreshToken \in liveRefresh /\ auths[cur].id # Nothing
    /\ \A r \in Requests : pc[r] \in InCall =>
         /\ Dead /\ why[r] = "rejection" /\ pc[r] # "login"
         /\ auths[cur].refresh \in liveRefresh

UpsetInv == Undisturbed => OnceInv /\ CalmInv /\ InUseInv

-----------------------------------------------------------------------------
(* What one step of a request does, field by field.                        *)

Others(r) ==
  \A s \in Requests \ {r} :
    /\ pc'[s] = pc[s] /\ loop'[s] = loop[s] /\ why'[s] = why[s] /\ via'[s] = via[s]
    /\ obj'[s] = obj[s] /\ header'[s] = header[s] /\ genAtSend'[s] = genAtSend[s]

Queues(r) ==
  /\ pc'[r] = "lock" /\ why'[r] = "headers"
  /\ header'[r] = header[r] /\ genAtSend'[r] = genAtSend[r]

Sends(r, a, gen) ==
  /\ pc'[r] = "sent" /\ why'[r] = why[r]
  /\ header'[r] = a.cognito /\ genAtSend'[r] = gen

BeginsRefresh(r) ==
  /\ pc'[r] = "refresh" /\ obj'[r] = cur
  /\ \A a \in Auths \ {cur} : auths'[a] = auths[a]
  /\ auths'[cur].id = auths[cur].id /\ auths'[cur].cognito = auths[cur].cognito
  /\ auths'[cur].age = auths[cur].age
  /\ auths'[cur].refresh = IF refreshToken = Nothing THEN auths[cur].refresh ELSE refreshToken
  /\ loop'[r] = loop[r] /\ header'[r] = header[r] /\ genAtSend'[r] = genAtSend[r]
  /\ why'[r] = why[r] /\ via'[r] = via[r]

BeginsLogin(r, as) ==
  /\ pc'[r] = "login" /\ obj'[r] = cur
  /\ \A a \in Auths \ {cur} : auths'[a] = as[a]
  /\ auths'[cur].id = Nothing /\ auths'[cur].cognito = Nothing
  /\ auths'[cur].refresh = Nothing /\ auths'[cur].age = as[cur].age
  /\ loop'[r] = loop[r] /\ header'[r] = header[r] /\ genAtSend'[r] = genAtSend[r]
  /\ why'[r] = why[r] /\ via'[r] = via[r]

LEMMA HolderOnly ==
  ASSUME IInv, NEW r \in Requests, HoldsLock(r)
  PROVE  \A s \in Requests \ {r} : pc[s] \notin InCall
BY DEF IInv, LockInv, HoldsLock

LEMMA CheckHeadersStep ==
  ASSUME TypeOK, NEW r \in Requests, NEW l, NEW a, NEW rt, NEW g, NEW others,
         CheckHeaders(r, l, a, rt, g, others), UNCHANGED <<via, obj>>
  PROVE  /\ Others(r) /\ loop'[r] = l /\ via'[r] = via[r] /\ obj'[r] = obj[r]
         /\ Queues(r) \/ (Sends(r, a, g) /\ ~NeedAuth(a))
<1>1. loop' = [loop EXCEPT ![r] = l]
  BY DEF CheckHeaders
<1>2. CASE NeedRefresh(a, rt) \/ NeedAuth(a)
  <2>1. /\ pc' = [pc EXCEPT ![r] = "lock"]
        /\ why' = [why EXCEPT ![r] = "headers"] /\ UNCHANGED <<header, genAtSend>>
    BY <1>2 DEF CheckHeaders, Goto
  <2> QED
    BY <1>1, <2>1 DEF TypeOK, Others, Queues
<1>3. CASE ~(NeedRefresh(a, rt) \/ NeedAuth(a))
  <2>1. /\ pc' = [pc EXCEPT ![r] = "sent"]
        /\ header' = [header EXCEPT ![r] = a.cognito]
        /\ genAtSend' = [genAtSend EXCEPT ![r] = g] /\ UNCHANGED why
    BY <1>3 DEF CheckHeaders, Send, Goto
  <2> QED
    BY <1>1, <1>3, <2>1 DEF TypeOK, Others, Sends
<1> QED
  BY <1>2, <1>3

LEMMA StartRefreshStep ==
  ASSUME TypeOK, NEW r \in Requests, StartRefresh(r), UNCHANGED <<why, via>>
  PROVE  Others(r) /\ BeginsRefresh(r)
<1>1. cur \in Auths /\ auths[cur] \in Auth
  BY DEF TypeOK
<1>2. /\ pc' = [pc EXCEPT ![r] = "refresh"] /\ obj' = [obj EXCEPT ![r] = cur]
      /\ UNCHANGED <<loop, header, genAtSend>>
  BY DEF StartRefresh, Goto
<1>3. Others(r)
  BY <1>2 DEF TypeOK, Others
<1>4. CASE refreshToken = Nothing
  <2>1. auths' = auths
    BY <1>4 DEF StartRefresh
  <2>2. /\ pc'[r] = "refresh" /\ obj'[r] = cur /\ loop'[r] = loop[r]
        /\ header'[r] = header[r] /\ genAtSend'[r] = genAtSend[r]
    BY <1>2 DEF TypeOK
  <2> QED
    BY <1>3, <1>4, <2>1, <2>2 DEF BeginsRefresh
<1>5. CASE refreshToken # Nothing
  <2>1. auths' = [auths EXCEPT ![cur].refresh = refreshToken]
    BY <1>5 DEF StartRefresh
  <2>2. auths'[cur] = [auths[cur] EXCEPT !.refresh = refreshToken]
    BY <1>1, <2>1 DEF TypeOK
  <2>3. /\ auths'[cur].id = auths[cur].id /\ auths'[cur].cognito = auths[cur].cognito
        /\ auths'[cur].age = auths[cur].age /\ auths'[cur].refresh = refreshToken
    BY <1>1, <2>2 DEF Auth
  <2>4. \A a \in Auths \ {cur} : auths'[a] = auths[a]
    BY <2>1 DEF TypeOK
  <2> QED
    BY <1>2, <1>3, <1>5, <2>3, <2>4 DEF TypeOK, BeginsRefresh
<1> QED
  BY <1>3, <1>4, <1>5

LEMMA StartLoginStep ==
  ASSUME TypeOK, NEW r \in Requests, NEW as \in [Auths -> Auth], StartLogin(r, as),
         UNCHANGED <<why, via>>
  PROVE  Others(r) /\ BeginsLogin(r, as)
<1>1. cur \in Auths /\ as[cur] \in Auth
  BY DEF TypeOK
<1>2. /\ pc' = [pc EXCEPT ![r] = "login"] /\ obj' = [obj EXCEPT ![r] = cur]
      /\ UNCHANGED <<loop, header, genAtSend>>
      /\ auths' = [as EXCEPT ![cur] = [BlankAuth EXCEPT !.age = as[cur].age]]
  BY DEF StartLogin, Goto
<1>3. auths'[cur] = [BlankAuth EXCEPT !.age = as[cur].age]
  BY <1>1, <1>2
<1>4. /\ auths'[cur].id = Nothing /\ auths'[cur].cognito = Nothing
      /\ auths'[cur].refresh = Nothing /\ auths'[cur].age = as[cur].age
  BY <1>3 DEF BlankAuth
<1>5. \A a \in Auths \ {cur} : auths'[a] = as[a]
  BY <1>2
<1> QED
  BY <1>2, <1>4, <1>5 DEF TypeOK, Others, BeginsLogin

LEMMA SendUnlockedStep ==
  ASSUME TypeOK, NEW r \in Requests, NEW as, NEW g, SendUnlocked(r, as, g),
         UNCHANGED <<why, via>>
  PROVE  /\ Others(r) /\ Sends(r, as[cur], g) /\ auths' = as
         /\ loop'[r] = loop[r] /\ via'[r] = via[r] /\ obj'[r] = obj[r]
BY DEF SendUnlocked, Send, Goto, TypeOK, Others, Sends

\* After refresh(): the new generation, and one of three ways to go on.
LEMMA RefreshReturnsEffect ==
  ASSUME TypeOK, NEW r \in Requests, NEW as \in [Auths -> Auth],
         RefreshReturns(r, as), UNCHANGED via
  PROVE  /\ refreshToken' = as[cur].refresh /\ refreshGen' = refreshGen + 1 /\ Others(r)
         /\ \/ BeginsLogin(r, as) /\ why[r] = "headers" /\ NeedAuth(as[cur])
            \/ /\ auths' = as /\ obj'[r] = obj[r] /\ via'[r] = via[r]
               /\ loop'[r] = IF why[r] = "headers" THEN loop[r] ELSE 1
               /\ \/ Queues(r) /\ why[r] # "headers"
                  \/ Sends(r, as[cur], refreshGen + 1) /\ ~NeedAuth(as[cur])
<1>1. refreshToken' = as[cur].refresh /\ refreshGen' = refreshGen + 1
  BY DEF RefreshReturns
<1>2. CASE why[r] = "headers" /\ NeedAuth(as[cur])
  BY <1>1, <1>2, StartLoginStep DEF RefreshReturns
<1>3. CASE why[r] = "headers" /\ ~NeedAuth(as[cur])
  BY <1>1, <1>3, SendUnlockedStep DEF RefreshReturns
<1>4. CASE why[r] # "headers"
  BY <1>1, <1>4, CheckHeadersStep DEF RefreshReturns
<1> QED
  BY <1>2, <1>3, <1>4
\* A request in a class below leaves its own fields alone but for those named.
Same(r) ==
  /\ loop'[r] = loop[r] /\ via'[r] = via[r] /\ obj'[r] = obj[r]
  /\ header'[r] = header[r] /\ genAtSend'[r] = genAtSend[r]

Connection == <<auths, cur, refreshToken, refreshGen>>

\* Every step of the module is of one of these kinds.
Asks(r) ==
  /\ Others(r) /\ via'[r] = via[r] /\ obj'[r] = obj[r]
  /\ Queues(r) \/ (Sends(r, auths[cur], refreshGen) /\ ~NeedAuth(auths[cur]))
  /\ \/ pc[r] = "idle" /\ loop'[r] = 0
     \/ pc[r] = "lock" /\ why[r] = "headers" /\ loop'[r] = loop[r] /\ pc'[r] = "sent"
     \/ Turned(r) /\ refreshGen # genAtSend[r] /\ loop'[r] = 1
  /\ UNCHANGED <<Connection, srvVars, bounds>>

TurnsAway(r) ==
  /\ Others(r) /\ Same(r)
  /\ pc[r] = "sent" /\ loop[r] = 0
  /\ header[r] \notin accepted \/ auths[cur].age >= 1
  /\ pc'[r] = "lock" /\ why'[r] = "rejection"
  /\ UNCHANGED <<Connection, srvVars, bounds>>

Ends(r) ==
  /\ Others(r) /\ Same(r)
  /\ why'[r] = why[r] /\ pc[r] \notin Ended /\ pc'[r] \in Ended
  /\ \/ pc[r] = "sent" /\ faults' = faults /\ (pc'[r] = "failed" => loop[r] = 2)
     \/ faults' = faults + 1
  /\ UNCHANGED <<Connection, srvVars, upsets>>

CreatesAgain(r) ==
  /\ Others(r) /\ via'[r] = via[r] /\ obj'[r] = obj[r]
  /\ pc[r] = "sent" /\ loop[r] = 1 /\ loop'[r] = 2
  /\ header[r] \notin accepted \/ auths[cur].age = 2
  /\ cur < MaxAuths /\ cur' = cur + 1
  /\ Queues(r)
  /\ UNCHANGED <<auths, refreshToken, refreshGen, srvVars, bounds>>

StartsRefresh(r) ==
  /\ Others(r) /\ HoldsLock(r) /\ pc[r] = "lock" /\ BeginsRefresh(r)
  /\ \/ why[r] = "headers" /\ NeedRefresh(auths[cur], refreshToken)
     \/ why[r] = "rejection" /\ genAtSend[r] = refreshGen
  /\ UNCHANGED <<cur, refreshToken, refreshGen, srvVars, bounds>>

StartsLogin(r) ==
  /\ Others(r) /\ HoldsLock(r) /\ pc[r] = "lock" /\ BeginsLogin(r, auths)
  /\ why[r] = "headers" /\ refreshToken = Nothing /\ NeedAuth(auths[cur])
  /\ UNCHANGED <<cur, refreshToken, refreshGen, srvVars, bounds>>

\* A call comes back, leaving the HonAuth objects as: the new generation, and
\* one of three ways to go on.
Returns(r, as) ==
  /\ Others(r) /\ HoldsLock(r) /\ via'[r] = via[r]
  /\ refreshToken' = as[cur].refresh /\ refreshGen' = refreshGen + 1
  /\ \/ BeginsLogin(r, as) /\ why[r] = "headers" /\ NeedAuth(as[cur])
     \/ /\ auths' = as /\ obj'[r] = obj[r]
        /\ \/ loop'[r] = loop[r] /\ (why[r] = "headers" \/ (pc[r] = "api_auth" /\ via[r] # "refresh"))
           \/ loop'[r] = 1 /\ why[r] # "headers"
        /\ \/ Queues(r) /\ why[r] # "headers" /\ loop'[r] = 1
           \/ /\ Sends(r, as[cur], refreshGen + 1)
              /\ NeedAuth(as[cur]) => pc[r] = "api_auth" /\ via[r] # "refresh"
  /\ UNCHANGED <<cur, granted, liveRefresh, spent, upsets>>

Refused(r) ==
  /\ pc[r] = "refresh" /\ Returns(r, auths)
  /\ \/ auths[obj[r]].refresh \notin liveRefresh /\ faults' = faults
     \/ faults' = faults + 1
  /\ UNCHANGED accepted

\* The HonAuth objects once object o has its cognito token.
Traded(o) == [auths EXCEPT ![o].cognito = auths[o].id]

TradesId(r) ==
  /\ pc[r] = "api_auth" /\ Returns(r, Traded(obj[r]))
  /\ via[r] # "refresh" => ~BeginsLogin(r, Traded(obj[r]))
  /\ accepted' = accepted \cup {auths[obj[r]].id}
  /\ UNCHANGED faults

\* A new grant reaches the object the call runs on.
Adopts(r) ==
  /\ Others(r) /\ HoldsLock(r) /\ pc'[r] = "api_auth" /\ why'[r] = why[r]
  /\ loop'[r] = loop[r] /\ obj'[r] = obj[r]
  /\ header'[r] = header[r] /\ genAtSend'[r] = genAtSend[r]
  /\ granted < MaxGrants /\ granted' = granted + 1
  /\ \A a \in Auths \ {obj[r]} : auths'[a] = auths[a]
  /\ auths'[obj[r]].id = granted + 1 /\ auths'[obj[r]].refresh = granted + 1
  /\ auths'[obj[r]].cognito = auths[obj[r]].cognito /\ auths'[obj[r]].age = 0
  /\ UNCHANGED <<cur, refreshToken, refreshGen, accepted, bounds>>

RefreshAdopts(r) ==
  /\ pc[r] = "refresh" /\ Adopts(r) /\ via'[r] = "refresh"
  /\ auths[obj[r]].refresh \in liveRefresh
  /\ liveRefresh' = (liveRefresh \ {auths[obj[r]].refresh}) \cup {granted + 1}
  /\ spent' = spent \cup {auths[obj[r]].refresh}

LoginAdopts(r) ==
  /\ pc[r] = "login" /\ Adopts(r) /\ via'[r] = "login"
  /\ liveRefresh' = liveRefresh \cup {granted + 1}
  /\ UNCHANGED spent

\* An exchange raises.
Breaks(r) ==
  /\ Others(r) /\ Same(r) /\ HoldsLock(r) /\ pc[r] \in InCall
  /\ pc'[r] = "failed" /\ why'[r] = why[r] /\ faults' = faults + 1
  /\ \A a \in Auths \ {obj[r]} : auths'[a] = auths[a]
  /\ auths'[obj[r]].id = auths[obj[r]].id /\ auths'[obj[r]].refresh = auths[obj[r]].refresh
  /\ auths'[obj[r]].cognito \in {auths[obj[r]].cognito, Nothing}
  /\ granted' \in {granted, granted + 1} /\ liveRefresh' \subseteq liveRefresh \cup {granted'}
  /\ UNCHANGED <<cur, refreshToken, refreshGen, spent, accepted, upsets>>

Ages ==
  /\ upsets' = upsets + 1
  /\ \A a \in Auths \ {cur} : auths'[a] = auths[a]
  /\ auths'[cur].id = auths[cur].id /\ auths'[cur].refresh = auths[cur].refresh
  /\ auths'[cur].cognito = auths[cur].cognito /\ auths'[cur].age = auths[cur].age + 1
  /\ UNCHANGED <<cur, refreshToken, refreshGen, reqVars, srvVars, faults>>

Kind(r) ==
  \/ Asks(r) \/ TurnsAway(r) \/ Ends(r) \/ CreatesAgain(r) \/ StartsRefresh(r) \/ StartsLogin(r)
  \/ Refused(r) \/ TradesId(r) \/ RefreshAdopts(r) \/ LoginAdopts(r) \/ Breaks(r)

\* The record a grant is adopted into.
LEMMA AdoptFields ==
  ASSUME TypeOK, NEW o \in Auths, NEW g, auths' = [auths EXCEPT ![o] = Adopt(@, g)]
  PROVE  /\ \A a \in Auths \ {o} : auths'[a] = auths[a]
         /\ auths'[o].id = g /\ auths'[o].refresh = g
         /\ auths'[o].cognito = auths[o].cognito /\ auths'[o].age = 0
<1>1. auths'[o] = Adopt(auths[o], g)
  BY DEF TypeOK
<1> QED
  BY <1>1 DEF TypeOK, Adopt

LEMMA TradedFields ==
  ASSUME TypeOK, NEW o \in Auths
  PROVE  /\ Traded(o) \in [Auths -> Auth]
         /\ \A a \in Auths \ {o} : Traded(o)[a] = auths[a]
         /\ Traded(o)[o].id = auths[o].id /\ Traded(o)[o].refresh = auths[o].refresh
         /\ Traded(o)[o].cognito = auths[o].id /\ Traded(o)[o].age = auths[o].age
<1>1. auths[o] \in Auth /\ auths[o].id \in Token
  BY AuthFields DEF TypeOK
<1>2. [auths[o] EXCEPT !.cognito = auths[o].id] \in Auth
  BY <1>1 DEF Auth
<1>3. Traded(o) = [auths EXCEPT ![o] = [auths[o] EXCEPT !.cognito = auths[o].id]]
  BY DEF Traded
<1>4. Traded(o) \in [Auths -> Auth]
  BY <1>2, <1>3 DEF TypeOK
<1>5. Traded(o)[o] = [auths[o] EXCEPT !.cognito = auths[o].id]
  BY <1>3 DEF TypeOK
<1>6. \A a \in Auths \ {o} : Traded(o)[a] = auths[a]
  BY <1>3 DEF TypeOK
<1> QED
  BY <1>1, <1>4, <1>5, <1>6 DEF Auth

\* The steps of one request.
RequestStep(r) ==
  Advance(r) \/ RefreshRaises(r) \/ ApiAuthRaises(r) \/ LoginRaises(r) \/ Cancel(r)

LEMMA RequestStepHasAKind ==
  ASSUME IInv, NEW r \in Requests, RequestStep(r)
  PROVE  Kind(r)
<1> USE DEF connVars, reqVars, srvVars, bounds, Connection
<1>0. TypeOK /\ LockInv /\ cur \in Auths /\ auths \in [Auths -> Auth] /\ faults \in Nat
  BY DEF IInv, TypeOK
<1>1. ASSUME Enter(r) PROVE Asks(r)
  BY <1>0, <1>1, CheckHeadersStep DEF Enter, Asks
<1>2. ASSUME LockedHeaders(r)
      PROVE  StartsRefresh(r) \/ StartsLogin(r) \/ Asks(r)
  <2>1. CASE NeedRefresh(auths[cur], refreshToken)
    BY <1>0, <1>2, <2>1, StartRefreshStep DEF LockedHeaders, StartsRefresh
  <2>2. CASE ~NeedRefresh(auths[cur], refreshToken) /\ NeedAuth(auths[cur])
    BY <1>0, <1>2, <2>2, StartLoginStep DEF LockedHeaders, StartsLogin, NeedRefresh
  <2>3. CASE ~NeedRefresh(auths[cur], refreshToken) /\ ~NeedAuth(auths[cur])
    <3>1. /\ SendUnlocked(r, auths, refreshGen) /\ pc[r] = "lock" /\ why[r] = "headers"
          /\ UNCHANGED <<cur, refreshToken, refreshGen, why, via, srvVars, bounds>>
      BY <1>2, <2>3 DEF LockedHeaders
    <3>2. /\ Others(r) /\ Sends(r, auths[cur], refreshGen) /\ auths' = auths
          /\ loop'[r] = loop[r] /\ via'[r] = via[r] /\ obj'[r] = obj[r]
      BY <1>0, <3>1, SendUnlockedStep
    <3>3. pc'[r] = "sent"
      BY <3>2 DEF Sends
    <3> QED
      BY <2>3, <3>1, <3>2, <3>3 DEF Asks
  <2> QED
    BY <2>1, <2>2, <2>3
<1>3. ASSUME LockedRejection(r) PROVE StartsRefresh(r) \/ Asks(r)
  <2>1. CASE refreshGen # genAtSend[r]
    BY <1>0, <1>3, <2>1, CheckHeadersStep DEF LockedRejection, Asks, Turned
  <2>2. CASE refreshGen = genAtSend[r]
    BY <1>0, <1>3, <2>2, StartRefreshStep DEF LockedRejection, StartsRefresh
  <2> QED
    BY <2>1, <2>2
<1>4. ASSUME RefreshRefused(r) PROVE Refused(r)
  <2>1. HoldsLock(r)
    BY <1>0, <1>4 DEF RefreshRefused, LockInv, InCall
  <2>2. RefreshReturns(r, auths) /\ UNCHANGED <<via, cur, granted, liveRefresh, spent, upsets>>
    BY <1>4 DEF RefreshRefused
  <2>3. Returns(r, auths)
    BY <1>0, <2>1, <2>2, RefreshReturnsEffect DEF Returns
  <2> QED
    BY <1>4, <2>3 DEF RefreshRefused, Refused, Fault
<1>5. ASSUME RefreshGranted(r) PROVE RefreshAdopts(r)
  <2>1. HoldsLock(r) /\ obj[r] \in Auths
    BY <1>0, <1>5 DEF RefreshGranted, LockInv, InCall, TypeOK
  <2>2. auths' = [auths EXCEPT ![obj[r]] = Adopt(@, granted + 1)]
    BY <1>5 DEF RefreshGranted
  <2>3. /\ pc' = [pc EXCEPT ![r] = "api_auth"] /\ via' = [via EXCEPT ![r] = "refresh"]
        /\ UNCHANGED <<loop, why, obj, header, genAtSend>>
    BY <1>5 DEF RefreshGranted, Goto
  <2>4. Others(r) /\ pc'[r] = "api_auth" /\ via'[r] = "refresh"
    BY <1>0, <2>3 DEF Others, TypeOK
  <2>5. Adopts(r)
    BY <1>0, <1>5, <2>1, <2>2, <2>3, <2>4, AdoptFields DEF RefreshGranted, Rotate, Adopts
  <2> QED
    BY <1>5, <2>4, <2>5 DEF RefreshGranted, Rotate, RefreshAdopts
<1>6. ASSUME RefreshRaises(r) \/ ApiAuthRaises(r) \/ LoginRaises(r)
      PROVE  Breaks(r)
  <2>1. pc[r] \in InCall /\ Raise(r) /\ faults' = faults + 1 /\ UNCHANGED upsets
    BY <1>6 DEF RefreshRaises, ApiAuthRaises, LoginRaises, Fault, InCall
  <2>2. HoldsLock(r) /\ obj[r] \in Auths
    BY <1>0, <2>1 DEF LockInv, TypeOK
  <2>3. /\ pc' = [pc EXCEPT ![r] = "failed"]
        /\ UNCHANGED <<loop, why, via, obj, header, genAtSend, cur, refreshToken, refreshGen>>
    BY <2>1 DEF Raise, Goto
  <2>4. Others(r) /\ Same(r) /\ pc'[r] = "failed" /\ why'[r] = why[r]
    BY <1>0, <2>3 DEF Others, Same, TypeOK
  <2>5. /\ \A a \in Auths \ {obj[r]} : auths'[a] = auths[a]
        /\ auths'[obj[r]].id = auths[obj[r]].id
        /\ auths'[obj[r]].refresh = auths[obj[r]].refresh
        /\ auths'[obj[r]].cognito \in {auths[obj[r]].cognito, Nothing}
    <3>0. auths[obj[r]] \in Auth
      BY <1>0, <2>2
    <3>1. CASE UNCHANGED auths
      BY <3>1
    <3>2. CASE auths' = [auths EXCEPT ![obj[r]].cognito = Nothing]
      <4>1. auths'[obj[r]] = [auths[obj[r]] EXCEPT !.cognito = Nothing]
        BY <1>0, <2>2, <3>2
      <4>2. \A a \in Auths \ {obj[r]} : auths'[a] = auths[a]
        BY <1>0, <3>2
      <4> QED
        BY <3>0, <4>1, <4>2 DEF Auth
    <3>3. CASE auths' = [auths EXCEPT ![obj[r]].age = 0]
      <4>1. auths'[obj[r]] = [auths[obj[r]] EXCEPT !.age = 0]
        BY <1>0, <2>2, <3>3
      <4>2. \A a \in Auths \ {obj[r]} : auths'[a] = auths[a]
        BY <1>0, <3>3
      <4> QED
        BY <3>0, <4>1, <4>2 DEF Auth
    <3> QED
      BY <1>6, <3>1, <3>2, <3>3 DEF RefreshRaises, ApiAuthRaises, LoginRaises
  <2>6. /\ granted' \in {granted, granted + 1}
        /\ liveRefresh' \subseteq liveRefresh \cup {granted'}
        /\ UNCHANGED <<spent, accepted>>
    BY <1>6 DEF RefreshRaises, ApiAuthRaises, LoginRaises, Rotate
  <2> QED
    BY <2>1, <2>2, <2>3, <2>4, <2>5, <2>6 DEF Breaks
<1>7. ASSUME ApiAuthGranted(r) PROVE TradesId(r)
  <2>1. HoldsLock(r) /\ obj[r] \in Auths /\ pc[r] = "api_auth"
    BY <1>0, <1>7 DEF ApiAuthGranted, LockInv, InCall, TypeOK
  <2>2. Traded(obj[r]) \in [Auths -> Auth]
    BY <1>0, <2>1, TradedFields
  <2>3. /\ IF via[r] = "refresh" THEN RefreshReturns(r, Traded(obj[r]))
                                 ELSE LoginReturns(r, Traded(obj[r]))
        /\ accepted' = accepted \cup {auths[obj[r]].id}
        /\ UNCHANGED <<via, cur, granted, liveRefresh, spent, bounds>>
    BY <1>7 DEF ApiAuthGranted, Traded
  <2>4. CASE via[r] = "refresh"
    <3>1. Returns(r, Traded(obj[r]))
      BY <1>0, <2>1, <2>2, <2>3, <2>4, RefreshReturnsEffect DEF Returns
    <3> QED
      BY <2>1, <2>3, <2>4, <3>1 DEF TradesId
  <2>5. CASE via[r] # "refresh"
    <3>1. LoginReturns(r, Traded(obj[r]))
      BY <2>3, <2>5
    <3>2. /\ Others(r) /\ Sends(r, Traded(obj[r])[cur], refreshGen + 1)
          /\ auths' = Traded(obj[r])
          /\ loop'[r] = loop[r] /\ via'[r] = via[r] /\ obj'[r] = obj[r]
      BY <1>0, <2>3, <3>1, SendUnlockedStep DEF LoginReturns
    <3>3. Returns(r, Traded(obj[r]))
      BY <2>1, <2>3, <2>5, <3>1, <3>2 DEF Returns, LoginReturns
    <3>4. ~BeginsLogin(r, Traded(obj[r]))
      BY <3>2 DEF Sends, BeginsLogin
    <3> QED
      BY <2>1, <2>3, <3>3, <3>4 DEF TradesId
  <2> QED
    BY <2>4, <2>5
<1>8. ASSUME LoginGranted(r) PROVE LoginAdopts(r)
  <2>1. HoldsLock(r) /\ obj[r] \in Auths
    BY <1>0, <1>8 DEF LoginGranted, LockInv, InCall, TypeOK
  <2>2. auths' = [auths EXCEPT ![obj[r]] = Adopt(@, granted + 1)]
    BY <1>8 DEF LoginGranted
  <2>3. /\ pc' = [pc EXCEPT ![r] = "api_auth"] /\ via' = [via EXCEPT ![r] = "login"]
        /\ UNCHANGED <<loop, why, obj, header, genAtSend>>
    BY <1>8 DEF LoginGranted, Goto
  <2>4. Others(r) /\ pc'[r] = "api_auth" /\ via'[r] = "login"
    BY <1>0, <2>3 DEF Others, TypeOK
  <2>5. Adopts(r)
    BY <1>0, <1>8, <2>1, <2>2, <2>3, <2>4, AdoptFields DEF LoginGranted, Adopts
  <2> QED
    BY <1>8, <2>4, <2>5 DEF LoginGranted, LoginAdopts
<1>9. ASSUME Rejected(r) PROVE TurnsAway(r)
  BY <1>0, <1>9 DEF Rejected, Goto, Authorized, TurnsAway, Others, Same, TypeOK
<1>10. ASSUME Recreate(r) PROVE CreatesAgain(r)
  <2>1. NeedAuth(BlankAuth)
    BY DEF NeedAuth, BlankAuth
  <2> QED
    BY <1>0, <1>10, <2>1, CheckHeadersStep DEF Recreate, CreatesAgain, Sends, Authorized
<1>11. ASSUME GiveUp(r) \/ Answered(r) \/ Cancel(r) PROVE Ends(r)
  <2>1. \E e \in Ended : pc' = [pc EXCEPT ![r] = e]
    BY <1>11 DEF GiveUp, Answered, Cancel, Goto, Ended
  <2>2. Others(r) /\ Same(r) /\ why'[r] = why[r] /\ pc'[r] \in Ended
    BY <1>0, <1>11, <2>1 DEF GiveUp, Answered, Cancel, Others, Same, TypeOK
  <2>3. Answered(r) => pc'[r] = "done"
    BY <1>0 DEF Answered, Goto, TypeOK
  <2>4. pc[r] \notin Ended
    BY <1>11 DEF GiveUp, Answered, Cancel, InCall, Ended
  <2> QED
    BY <1>11, <2>2, <2>3, <2>4 DEF GiveUp, Answered, Cancel, Fault, Ends
<1> QED
  BY <1>1, <1>2, <1>3, <1>4, <1>5, <1>6, <1>7, <1>8, <1>9, <1>10, <1>11
     DEF RequestStep, Advance, Kind

LEMMA EveryStepHasAKind ==
  ASSUME IInv, [Next]_vars
  PROVE  (\E r \in Requests : Kind(r)) \/ Revoke \/ Ages \/ UNCHANGED vars
<1> USE DEF connVars, reqVars, srvVars, bounds, Connection
<1>0. TypeOK /\ cur \in Auths /\ auths \in [Auths -> Auth]
  BY DEF IInv, TypeOK
<1>1. CASE Age
  <2>1. auths[cur] \in Auth /\ auths' = [auths EXCEPT ![cur].age = @ + 1]
    BY <1>0, <1>1 DEF Age
  <2>2. auths'[cur] = [auths[cur] EXCEPT !.age = @ + 1]
    BY <1>0, <2>1
  <2>3. \A a \in Auths \ {cur} : auths'[a] = auths[a]
    BY <1>0, <2>1
  <2>4. Ages
    BY <1>1, <2>1, <2>2, <2>3 DEF Age, Ages, Auth
  <2> QED
    BY <2>4
<1>2. (\E r \in Requests : RequestStep(r)) \/ Revoke \/ Age \/ UNCHANGED vars
  BY DEF Next, RequestStep
<1> QED
  BY <1>1, <1>2, RequestStepHasAKind

-----------------------------------------------------------------------------
(* Steps preserve ObjectInv.                                               *)

LEMMA InitObject == Init => ObjectInv
BY DEF Init, ObjectInv, InCall, Nothing

LEMMA ObjectStep == IInv /\ ObjectInv /\ [Next]_vars => ObjectInv'
<1> SUFFICES ASSUME IInv, ObjectInv, [Next]_vars PROVE ObjectInv'
  OBVIOUS
<1> USE DEF Connection, connVars, reqVars, srvVars, bounds
<1>0. /\ TypeOK /\ cur \in Auths /\ granted \in Nat
      /\ liveRefresh \subseteq Nat /\ spent \subseteq Nat
      /\ \A r \in Requests : obj[r] \in Auths
      /\ MaxAuths \in Nat /\ Auths \subseteq Nat
      /\ cur \in Nat /\ \A r \in Requests : obj[r] \in Nat
  BY DEF IInv, TypeOK, Token, Grants, Nothing, Auths
<1>1. ASSUME NEW r \in Requests, Asks(r) PROVE ObjectInv'
  BY <1>0, <1>1 DEF Asks, Queues, Sends, Others, ObjectInv, InCall
<1>2. ASSUME NEW r \in Requests, TurnsAway(r) PROVE ObjectInv'
  BY <1>0, <1>2 DEF TurnsAway, Others, Same, ObjectInv, InCall
<1>3. ASSUME NEW r \in Requests, Ends(r) PROVE ObjectInv'
  BY <1>0, <1>3 DEF Ends, Others, Same, ObjectInv, InCall, Ended
<1>4. ASSUME NEW r \in Requests, CreatesAgain(r) PROVE ObjectInv'
  <2>1. /\ cur' = cur + 1 /\ UNCHANGED <<auths, srvVars>> /\ cur + 1 \in Auths
        /\ pc'[r] = "lock" /\ Others(r)
    BY <1>0, <1>4 DEF CreatesAgain, Queues, Auths
  <2>2. auths[cur + 1] = BlankAuth
    BY <1>0, <2>1 DEF ObjectInv
  <2>3. auths[cur + 1].refresh = Nothing /\ auths[cur + 1].cognito = Nothing
    BY <2>2 DEF BlankAuth
  <2>4. \A s \in Requests : pc'[s] \in InCall => pc'[s] = pc[s] /\ obj'[s] = obj[s] /\ obj[s] <= cur
    BY <1>0, <2>1 DEF Others, InCall, ObjectInv
  <2>5. /\ \A t \in (liveRefresh \cup spent)' : t <= granted'
        /\ Nothing \notin accepted'
    BY <2>1 DEF ObjectInv
  <2>6. \A a \in Auths : a > cur' => auths'[a] = BlankAuth
    BY <1>0, <2>1 DEF ObjectInv
  <2>7. \A s \in Requests : pc'[s] = "api_auth" => auths'[obj'[s]].id # Nothing
    BY <2>1, <2>4 DEF ObjectInv, InCall
  <2>8. \A s \in Requests : pc'[s] \in InCall /\ obj'[s] # cur' =>
          obj'[s] < cur' /\ auths'[cur'].refresh = Nothing /\ auths'[cur'].cognito = Nothing
    BY <1>0, <2>1, <2>3, <2>4
  <2> QED
    BY <2>5, <2>6, <2>7, <2>8 DEF ObjectInv
<1>5. ASSUME NEW r \in Requests, StartsRefresh(r) PROVE ObjectInv'
  <2>1. \A s \in Requests \ {r} : pc'[s] \notin InCall
    BY <1>5, HolderOnly DEF StartsRefresh, Others
  <2> QED
    BY <1>0, <1>5, <2>1 DEF StartsRefresh, BeginsRefresh, ObjectInv, InCall
<1>6. ASSUME NEW r \in Requests, NEW as, BeginsLogin(r, as), HoldsLock(r), Others(r),
             UNCHANGED <<cur, granted, liveRefresh, spent>>, Nothing \notin accepted',
             \A a \in Auths : a > cur => as[a] = BlankAuth
      PROVE  ObjectInv'
  <2>1. \A s \in Requests \ {r} : pc'[s] \notin InCall
    BY <1>6, HolderOnly DEF Others
  <2>2. \A a \in Auths : a > cur => auths'[a] = BlankAuth
    <3>1. \A a \in Auths \ {cur} : auths'[a] = as[a]
      BY <1>6 DEF BeginsLogin
    <3>2. \A a \in Auths : a > cur => a # cur
      BY <1>0
    <3> QED
      BY <1>6, <3>1, <3>2
  <2>3. pc'[r] = "login" /\ obj'[r] = cur'
    BY <1>6 DEF BeginsLogin
  <2>4. \A s \in Requests : pc'[s] # "api_auth" /\ (pc'[s] \in InCall => obj'[s] = cur')
    BY <2>1, <2>3 DEF InCall
  <2> QED
    BY <1>0, <1>6, <2>2, <2>4 DEF ObjectInv
<1>7. ASSUME NEW r \in Requests, StartsLogin(r) PROVE ObjectInv'
  BY <1>6, <1>7 DEF StartsLogin, ObjectInv
<1>8. ASSUME NEW r \in Requests, NEW as, Returns(r, as), Nothing \notin accepted',
             \A a \in Auths : a > cur => as[a] = BlankAuth
      PROVE  ObjectInv'
  <2>1. CASE BeginsLogin(r, as)
    BY <1>6, <1>8, <2>1 DEF Returns
  <2>2. CASE ~BeginsLogin(r, as)
    <3>1. auths' = as /\ pc'[r] \notin InCall
      BY <1>8, <2>2 DEF Returns, Queues, Sends, InCall
    <3>2. \A s \in Requests : pc'[s] \notin InCall
      BY <1>8, <3>1, HolderOnly DEF Returns, Others
    <3> QED
      BY <1>0, <1>8, <3>1, <3>2 DEF Returns, ObjectInv, InCall
  <2> QED
    BY <2>1, <2>2
<1>9. ASSUME NEW r \in Requests, Refused(r) PROVE ObjectInv'
  BY <1>8, <1>9 DEF Refused, ObjectInv
<1>10. ASSUME NEW r \in Requests, TradesId(r) PROVE ObjectInv'
  <2>1. Nothing \notin accepted'
    <3>1. accepted' = accepted \cup {auths[obj[r]].id} /\ pc[r] = "api_auth"
      BY <1>10 DEF TradesId
    <3> QED
      BY <3>1 DEF ObjectInv
  <2>2. obj[r] <= cur
    BY <1>0, <1>10 DEF TradesId, ObjectInv, InCall
  <2>3. \A a \in Auths : a > cur => Traded(obj[r])[a] = BlankAuth
    BY <1>0, <2>2, TradedFields DEF ObjectInv
  <2> QED
    BY <1>8, <1>10, <2>1, <2>3 DEF TradesId
<1>11. ASSUME NEW r \in Requests, pc[r] \in InCall, Adopts(r),
              liveRefresh' \subseteq liveRefresh \cup {granted + 1},
              spent' \subseteq spent \cup liveRefresh
       PROVE  ObjectInv'
  <2>1. \A s \in Requests \ {r} : pc'[s] \notin InCall
    BY <1>11, HolderOnly DEF Adopts, Others
  <2>2. obj[r] <= cur
    BY <1>0, <1>11 DEF ObjectInv
  <2>3. \A t \in liveRefresh' \cup spent' : t <= granted'
    BY <1>0, <1>11 DEF Adopts, ObjectInv
  <2>4. \A a \in Auths : a > cur => auths'[a] = BlankAuth
    BY <1>0, <1>11, <2>2 DEF Adopts, ObjectInv
  <2>5. granted + 1 # Nothing
    BY <1>0 DEF Nothing
  <2> QED
    BY <1>0, <1>11, <2>1, <2>2, <2>3, <2>4, <2>5 DEF Adopts, ObjectInv, InCall
<1>12. ASSUME NEW r \in Requests, RefreshAdopts(r) \/ LoginAdopts(r) PROVE ObjectInv'
  BY <1>11, <1>12 DEF RefreshAdopts, LoginAdopts, InCall
<1>13. ASSUME NEW r \in Requests, Breaks(r) PROVE ObjectInv'
  <2>1. \A s \in Requests : pc'[s] \notin InCall
    BY <1>13, HolderOnly DEF Breaks, Others, InCall
  <2>2. obj[r] <= cur
    BY <1>0, <1>13 DEF Breaks, ObjectInv
  <2>3. \A a \in Auths : a > cur => auths'[a] = BlankAuth
    BY <1>0, <1>13, <2>2 DEF Breaks, ObjectInv
  <2>4. \A t \in liveRefresh' \cup spent' : t <= granted'
    BY <1>0, <1>13 DEF Breaks, ObjectInv
  <2> QED
    BY <1>0, <1>13, <2>1, <2>3, <2>4 DEF Breaks, ObjectInv, InCall
<1>14. CASE Revoke
  BY <1>0, <1>14 DEF Revoke, ObjectInv
<1>15. CASE Ages
  BY <1>0, <1>15 DEF Ages, ObjectInv
<1>16. CASE UNCHANGED vars
  BY <1>0, <1>16 DEF vars, ObjectInv
<1> QED
  BY <1>1, <1>2, <1>3, <1>4, <1>5, <1>7, <1>9, <1>10, <1>12, <1>13, <1>14, <1>15, <1>16,
     EveryStepHasAKind DEF Kind

-----------------------------------------------------------------------------
(* Refresh tokens are presented once.                                      *)

LEMMA InitReplay == Init => ReplayInv
BY DEF Init, ReplayInv, BlankAuth, Nothing

\* With an undisturbed successor, the step itself was undisturbed.
LEMMA StaysUndisturbed ==
  ASSUME IInv, [Next]_vars, Undisturbed'  PROVE Undisturbed /\ UNCHANGED faults
<1> USE DEF bounds
<1>0. faults \in Nat
  BY DEF IInv, TypeOK
<1>1. ASSUME NEW r \in Requests, Kind(r) PROVE faults' = faults \/ faults' = faults + 1
  BY <1>1 DEF Kind, Asks, TurnsAway, Ends, CreatesAgain, StartsRefresh, StartsLogin, Refused,
              TradesId, RefreshAdopts, LoginAdopts, Adopts, Breaks
<1>2. faults' = faults \/ faults' = faults + 1
  BY <1>1, EveryStepHasAKind DEF Revoke, Ages, vars
<1> QED
  BY <1>0, <1>2 DEF Undisturbed

LEMMA ReplayStep == IInv /\ ObjectInv /\ ReplayInv /\ [Next]_vars => ReplayInv'
<1> SUFFICES ASSUME IInv, ObjectInv, ReplayInv, [Next]_vars, Undisturbed' PROVE ReplayInv'
  BY DEF ReplayInv
<1> USE DEF Connection, connVars, reqVars, srvVars, bounds
<1>0. /\ TypeOK /\ cur \in Auths /\ granted \in Nat
      /\ liveRefresh \subseteq Nat \ {Nothing} /\ spent \subseteq Nat \ {Nothing}
      /\ \A r \in Requests : obj[r] \in Auths
      /\ Undisturbed /\ faults = 0 /\ faults' = 0
  BY StaysUndisturbed DEF IInv, TypeOK, Token, Grants, Nothing, Auths, Undisturbed
<1>1. ASSUME NEW r \in Requests, Asks(r) PROVE ReplayInv'
  BY <1>0, <1>1 DEF Asks, Queues, Sends, Others, ReplayInv, Turned
<1>2. ASSUME NEW r \in Requests, TurnsAway(r) PROVE ReplayInv'
  BY <1>0, <1>2 DEF TurnsAway, Others, Same, ReplayInv
<1>3. ASSUME NEW r \in Requests, Ends(r) PROVE ReplayInv'
  BY <1>0, <1>3 DEF Ends, Others, Same, ReplayInv, Ended
<1>4. ASSUME NEW r \in Requests, CreatesAgain(r) PROVE ReplayInv'
  <2>1. cur' \in Auths /\ auths'[cur'] = BlankAuth
    BY <1>0, <1>4 DEF CreatesAgain, ObjectInv, Auths
  <2>2. auths'[cur'].refresh \notin spent'
    <3>1. auths'[cur'].refresh = Nothing
      BY <2>1 DEF BlankAuth
    <3> QED
      BY <1>0, <1>4, <3>1 DEF CreatesAgain
  <2> QED
    BY <1>0, <1>4, <2>2 DEF CreatesAgain, Queues, Others, ReplayInv
<1>5. ASSUME NEW r \in Requests, HoldsLock(r), pc[r] # "api_auth", Undisturbed
      PROVE  refreshToken \notin spent
  BY <1>5, HolderOnly DEF ReplayInv, InCall
<1>6. ASSUME NEW r \in Requests, StartsRefresh(r) PROVE ReplayInv'
  <2>1. refreshToken \notin spent /\ auths'[cur].refresh \notin spent
    BY <1>0, <1>5, <1>6 DEF StartsRefresh, BeginsRefresh, ReplayInv
  <2>2. \A s \in Requests \ {r} : pc'[s] # "refresh"
    BY <1>6, HolderOnly DEF StartsRefresh, Others, InCall
  <2> QED
    BY <1>0, <1>6, <2>1, <2>2 DEF StartsRefresh, BeginsRefresh, ReplayInv
<1>7. ASSUME NEW r \in Requests, StartsLogin(r) PROVE ReplayInv'
  <2>1. refreshToken \notin spent
    BY <1>0, <1>5, <1>7 DEF StartsLogin
  <2>2. \A s \in Requests : pc'[s] # "refresh"
    BY <1>7, HolderOnly DEF StartsLogin, BeginsLogin, Others, InCall
  <2> QED
    BY <1>0, <1>7, <2>1, <2>2 DEF StartsLogin, BeginsLogin, ReplayInv
<1>8. ASSUME NEW r \in Requests, NEW as, Returns(r, as), as[cur].refresh \notin spent
      PROVE  ReplayInv'
  <2>1. pc'[r] # "refresh" /\ auths'[cur].refresh \notin spent
    BY <1>0, <1>8 DEF Returns, BeginsLogin, Queues, Sends
  <2>2. \A s \in Requests : pc'[s] # "refresh"
    BY <1>8, <2>1, HolderOnly DEF Returns, Others, InCall
  <2> QED
    BY <1>8, <2>1, <2>2 DEF Returns, ReplayInv
<1>9. ASSUME NEW r \in Requests, Refused(r) PROVE ReplayInv'
  BY <1>0, <1>8, <1>9 DEF Refused, ReplayInv
<1>10. ASSUME NEW r \in Requests, TradesId(r) PROVE ReplayInv'
  <2>1. Traded(obj[r])[cur].refresh = auths[cur].refresh
    BY <1>0, TradedFields
  <2> QED
    BY <1>0, <1>8, <1>10, <2>1 DEF TradesId, ReplayInv
<1>11. ASSUME NEW r \in Requests, RefreshAdopts(r) PROVE ReplayInv'
  <2>1. \A s \in Requests : pc'[s] # "refresh"
    BY <1>11, HolderOnly DEF RefreshAdopts, Adopts, Others, InCall
  <2>2. granted + 1 \notin spent'
    BY <1>0, <1>11 DEF RefreshAdopts, ObjectInv
  <2>3. auths'[cur].refresh \in {granted + 1, Nothing}
    <3>1. CASE obj[r] = cur
      BY <1>11, <3>1 DEF RefreshAdopts, Adopts
    <3>2. CASE obj[r] # cur
      BY <1>0, <1>11, <3>2 DEF RefreshAdopts, Adopts, ObjectInv, InCall
    <3> QED
      BY <3>1, <3>2
  <2>4. auths'[cur'].refresh \notin spent'
    BY <1>0, <1>11, <2>2, <2>3 DEF RefreshAdopts, Adopts
  <2> QED
    BY <1>11, <2>1, <2>4 DEF RefreshAdopts, Adopts, ReplayInv
<1>12. ASSUME NEW r \in Requests, LoginAdopts(r) PROVE ReplayInv'
  <2>1. refreshToken \notin spent
    BY <1>0, <1>5, <1>12 DEF LoginAdopts, Adopts
  <2>2. \A s \in Requests : pc'[s] # "refresh"
    BY <1>12, HolderOnly DEF LoginAdopts, Adopts, Others, InCall
  <2>3. auths'[cur].refresh \in {granted + 1, auths[cur].refresh}
    BY <1>0, <1>12 DEF LoginAdopts, Adopts
  <2>4. granted + 1 \notin spent
    BY <1>0 DEF ObjectInv
  <2> QED
    BY <1>0, <1>12, <2>1, <2>2, <2>3, <2>4 DEF LoginAdopts, Adopts, ReplayInv
<1>13. ASSUME NEW r \in Requests, Breaks(r) PROVE FALSE
  BY <1>0, <1>13 DEF Breaks
<1>14. CASE Revoke
  BY <1>0, <1>14 DEF Revoke, ReplayInv
<1>15. CASE Ages
  <2>1. \A a \in Auths : auths'[a].refresh = auths[a].refresh
    BY <1>0, <1>15 DEF Ages
  <2> QED
    BY <1>0, <1>15, <2>1 DEF Ages, ReplayInv
<1>16. CASE UNCHANGED vars
  BY <1>0, <1>16 DEF vars, ReplayInv
<1> QED
  BY <1>1, <1>2, <1>3, <1>4, <1>6, <1>7, <1>9, <1>10, <1>11, <1>12, <1>13, <1>14, <1>15, <1>16,
     EveryStepHasAKind DEF Kind

-----------------------------------------------------------------------------
(* A burst of rejections is one refresh.                                   *)

LEMMA InitRejection == Init => RejectionInv
BY DEF Init, RejectionInv, Turned

LEMMA RejectionStep == IInv /\ ObjectInv /\ RejectionInv /\ [Next]_vars => RejectionInv'
<1> SUFFICES ASSUME IInv, ObjectInv, RejectionInv, [Next]_vars PROVE RejectionInv'
  OBVIOUS
<1> USE DEF Connection, connVars, reqVars, srvVars, bounds
<1>0. /\ TypeOK /\ cur \in Auths /\ refreshGen \in Nat
      /\ \A r \in Requests : obj[r] \in Auths /\ genAtSend[r] \in Nat
      /\ \A a \in Auths : auths[a].age \in Nat
  <2>1. TypeOK /\ \A a \in Auths : auths[a] \in Auth
    BY DEF IInv, TypeOK
  <2>2. \A a \in Auths : auths[a].age \in 0 .. 2
    BY <2>1, AuthFields
  <2>3. \A a \in Auths : auths[a].age \in Nat
    BY <2>2
  <2> QED
    BY <2>1, <2>3 DEF TypeOK
<1>1. ASSUME NEW r \in Requests, Asks(r) PROVE RejectionInv'
  <2>1. pc[r] \notin InCall /\ pc'[r] \notin InCall
    BY <1>1 DEF Asks, Queues, Sends, Turned, InCall
  <2>2. InACall' <=> InACall
    BY <1>1, <2>1 DEF Asks, Others, InACall
  <2> QED
    BY <1>0, <1>1, <2>2 DEF Asks, Queues, Sends, Others, RejectionInv, Turned, Undisturbed
<1>2. ASSUME NEW r \in Requests, TurnsAway(r) PROVE RejectionInv'
  <2>1. pc[r] \notin InCall /\ pc'[r] \notin InCall
    BY <1>2 DEF TurnsAway, InCall
  <2>2. InACall' <=> InACall
    BY <1>2, <2>1 DEF TurnsAway, Others, InACall
  <2> QED
    BY <1>0, <1>2, <2>2 DEF TurnsAway, Same, Others, RejectionInv, Turned, Undisturbed
<1>3. ASSUME NEW r \in Requests, Ends(r) PROVE RejectionInv'
  <2>1. Undisturbed' => InACall' = InACall
    <3> SUFFICES ASSUME Undisturbed' PROVE InACall' <=> InACall
      BY DEF InACall
    <3>1. pc[r] = "sent" /\ pc'[r] \in Ended
      BY <1>3, StaysUndisturbed DEF Ends, Undisturbed
    <3>2. pc[r] \notin InCall /\ pc'[r] \notin InCall
      BY <3>1 DEF InCall, Ended
    <3> QED
      BY <1>3, <3>2 DEF Ends, Others, InACall
  <2>2. Undisturbed' => Undisturbed
    BY StaysUndisturbed
  <2> QED
    BY <1>0, <1>3, <2>1, <2>2 DEF Ends, Same, Others, RejectionInv, Turned, Ended
<1>4. ASSUME NEW r \in Requests, CreatesAgain(r) PROVE RejectionInv'
  <2>1. cur' \in Auths /\ auths'[cur'] = BlankAuth
    BY <1>0, <1>4 DEF CreatesAgain, ObjectInv, Auths
  <2>2. auths'[cur'].cognito = Nothing
    BY <2>1 DEF BlankAuth
  <2> QED
    BY <1>0, <1>4, <2>2 DEF CreatesAgain, Queues, Others, RejectionInv, Turned
<1>5. ASSUME NEW r \in Requests, StartsRefresh(r) PROVE RejectionInv'
  <2>1. InACall'
    BY <1>5 DEF StartsRefresh, BeginsRefresh, InACall, InCall
  <2> QED
    BY <1>0, <1>5, <2>1 DEF StartsRefresh, BeginsRefresh, Others, RejectionInv, Turned
<1>6. ASSUME NEW r \in Requests, StartsLogin(r) PROVE RejectionInv'
  BY <1>0, <1>6 DEF StartsLogin, BeginsLogin, Others, RejectionInv, Turned
<1>7. ASSUME NEW r \in Requests, NEW as, Returns(r, as) PROVE RejectionInv'
  <2>1. \A s \in Requests \ {r} : genAtSend'[s] < refreshGen'
    BY <1>0, <1>7 DEF Returns, Others, RejectionInv
  <2>2. refreshGen' \in Nat /\ refreshGen' = refreshGen + 1
    BY <1>0, <1>7 DEF Returns
  <2>3. genAtSend'[r] <= refreshGen' /\ ~Turned(r)'
    <3>1. genAtSend[r] <= refreshGen /\ genAtSend[r] \in Nat
      BY <1>0 DEF RejectionInv
    <3>2. genAtSend'[r] \in {genAtSend[r], refreshGen + 1}
      BY <1>7 DEF Returns, BeginsLogin, Queues, Sends
    <3>3. ~Turned(r)'
      BY <1>7 DEF Returns, BeginsLogin, Queues, Sends, Turned
    <3> QED
      BY <1>0, <2>2, <3>1, <3>2, <3>3
  <2>4. pc'[r] = "sent" => auths'[cur].cognito = header'[r]
    BY <1>7 DEF Returns, BeginsLogin, Queues, Sends
  <2>5. cur' = cur
    BY <1>7 DEF Returns
  <2>6. \A s \in Requests : genAtSend'[s] \in Nat /\ genAtSend'[s] <= refreshGen'
    <3>1. genAtSend'[r] \in {genAtSend[r], refreshGen + 1}
      BY <1>7 DEF Returns, BeginsLogin, Queues, Sends
    <3>2. \A s \in Requests \ {r} : genAtSend'[s] = genAtSend[s]
      BY <1>7 DEF Returns, Others
    <3>3. \A s \in Requests : genAtSend'[s] \in Nat
      BY <1>0, <3>1, <3>2
    <3>4. \A s \in Requests : genAtSend'[s] <= refreshGen'
      BY <1>0, <2>1, <2>2, <2>3, <3>3
    <3> QED
      BY <3>3, <3>4
  <2>7. \A s \in Requests \ {r} : genAtSend'[s] # refreshGen'
    BY <2>1, <2>2, <2>6
  <2> QED
    BY <2>3, <2>4, <2>5, <2>6, <2>7 DEF RejectionInv, Turned
<1>8. ASSUME NEW r \in Requests, Refused(r) \/ TradesId(r) PROVE RejectionInv'
  BY <1>7, <1>8 DEF Refused, TradesId
<1>9. ASSUME NEW r \in Requests, RefreshAdopts(r) \/ LoginAdopts(r) PROVE RejectionInv'
  <2>1. Adopts(r) /\ InACall'
    BY <1>9 DEF RefreshAdopts, LoginAdopts, Adopts, InACall, InCall
  <2>2. auths'[cur].cognito = auths[cur].cognito
    BY <1>0, <2>1 DEF Adopts
  <2> QED
    BY <1>0, <2>1, <2>2 DEF Adopts, Others, RejectionInv, Turned
<1>10. ASSUME NEW r \in Requests, Breaks(r) PROVE RejectionInv'
  <2>1. ~Undisturbed'
    BY <1>10, StaysUndisturbed DEF Breaks, Undisturbed
  <2>2. auths'[cur].cognito \in {auths[cur].cognito, Nothing}
    BY <1>0, <1>10 DEF Breaks
  <2> QED
    BY <1>0, <1>10, <2>1, <2>2 DEF Breaks, Same, Others, RejectionInv, Turned
<1>11. CASE Revoke
  BY <1>0, <1>11 DEF Revoke, RejectionInv, Turned, Undisturbed, InACall
<1>12. CASE Ages
  BY <1>0, <1>12 DEF Ages, RejectionInv, Turned, Undisturbed, InACall
<1>13. CASE UNCHANGED vars
  BY <1>0, <1>13 DEF vars, RejectionInv, Turned, Undisturbed, InACall
<1> QED
  BY <1>1, <1>2, <1>3, <1>4, <1>5, <1>6, <1>8, <1>9, <1>10, <1>11, <1>12, <1>13,
     EveryStepHasAKind DEF Kind

-----------------------------------------------------------------------------
TokenInv == IInv /\ ObjectInv /\ ReplayInv /\ RejectionInv

LEMMA TokenInvariance == Spec => []TokenInv
<1>1. Init => TokenInv
  BY InitIInv, InitObject, InitReplay, InitRejection DEF TokenInv
<1>2. TokenInv /\ [Next]_vars => TokenInv'
  BY NextIInv, ObjectStep, ReplayStep, RejectionStep DEF TokenInv
<1> QED
  BY <1>1, <1>2, PTL DEF Spec

\* A step into refresh() finds a token that is missing, old, or was rejected.
LEMMA RefreshIsNeeded ==
  ASSUME TokenInv, [Next]_vars, Undisturbed',
         NEW r \in Requests, pc[r] # "refresh", pc'[r] = "refresh"
  PROVE  ~InUseIsGood
<1> USE DEF TokenInv, Connection, connVars, reqVars, srvVars, bounds
<1>0. Undisturbed /\ \A a \in Auths : auths[a] \in Auth
  BY StaysUndisturbed DEF IInv, TypeOK
<1>1. StartsRefresh(r)
  <2>1. ASSUME NEW s \in Requests, Kind(s) PROVE StartsRefresh(r)
    <3>1. CASE s # r
      BY <2>1, <3>1 DEF Kind, Asks, TurnsAway, Ends, CreatesAgain, StartsRefresh, StartsLogin,
                        Refused, TradesId, Returns, RefreshAdopts, LoginAdopts, Adopts, Breaks, Others
    <3>2. CASE s = r
      BY <2>1, <3>2 DEF Kind, Asks, TurnsAway, Ends, CreatesAgain, StartsLogin, BeginsLogin,
                        Refused, TradesId, Returns, RefreshAdopts, LoginAdopts, Adopts, Breaks,
                        Queues, Sends, Ended
    <3> QED
      BY <3>1, <3>2
  <2>2. \E s \in Requests : Kind(s)
    BY EveryStepHasAKind DEF Revoke, Ages, vars
  <2> QED
    BY <2>1, <2>2
<1>2. CASE why[r] = "headers"
  BY <1>1, <1>2 DEF StartsRefresh, NeedRefresh, NeedAuth, InUseIsGood, ObjectInv
<1>3. CASE why[r] = "rejection" /\ genAtSend[r] = refreshGen
  <2>1. ~InACall /\ Turned(r)
    BY <1>1, <1>3, HolderOnly DEF StartsRefresh, InACall, InCall, Turned
  <2>2. auths[cur].cognito \in {header[r], Nothing}
    BY <1>3, <2>1 DEF RejectionInv
  <2>3. header[r] \notin accepted \/ auths[cur].age >= 1 \/ auths[cur].cognito = Nothing
    BY <1>0, <1>3, <2>1 DEF RejectionInv
  <2> QED
    BY <2>2, <2>3 DEF InUseIsGood, ObjectInv
<1> QED
  BY <1>1, <1>2, <1>3 DEF StartsRefresh

\* For any number of requests, revocations, expiries and calls of create(): as
\* long as every exchange is answered, no refresh token is presented after the
\* reply that rotated it away, and no refresh starts while the tokens in use are
\* good: a burst of rejected requests collapses to one refresh.
THEOREM TokensAreSpentOnce == Spec => TokensAreNotWasted
<1>1. TokenInv => NoReplay
  BY DEF TokenInv, ReplayInv, NoReplay
<1>2. TokenInv /\ [Next]_vars
        => [\A r \in Requests : Undisturbed' /\ pc[r] # "refresh" /\ pc'[r] = "refresh"
              => ~InUseIsGood]_vars
  BY RefreshIsNeeded
<1> QED
  BY <1>1, <1>2, TokenInvariance, PTL DEF Spec, TokensAreNotWasted, NoWastedRefresh

-----------------------------------------------------------------------------
(* Every request moves on.                                                 *)

\* What is left of an attempt that stands at p, wants the lock for w and came to
\* _api_auth by v: the check of the headers, or of the rejection, the exchanges,
\* the response.
Stage(p, w, v) ==
  CASE p = "lock" -> IF w = "headers" THEN 10 ELSE 4
    [] p = "refresh" -> IF w = "headers" THEN 9 ELSE 3
    [] p = "login" -> 7
    [] p = "api_auth" -> IF v = "login" THEN 6 ELSE IF w = "headers" THEN 8 ELSE 2
    [] p = "sent" -> 5

\* What is left of a request: the attempts it may still make come first.
LeftOf(p, l, w, v) ==
  CASE p = "idle" -> 40
    [] p \in Ended -> 0
    [] OTHER -> 12 * (2 - l) + Stage(p, w, v)
Left(r) == LeftOf(pc[r], loop[r], why[r], via[r])

\* Only a first attempt recovers from a rejection, and it does not log in on the
\* way.
AttemptInv ==
  /\ \A r \in Requests : pc[r] \in Waiting /\ why[r] = "rejection" => loop[r] = 0
  /\ \A r \in Requests :
       pc[r] = "login" \/ (pc[r] = "api_auth" /\ via[r] = "login") => why[r] = "headers"

LEMMA InitAttempt == Init => AttemptInv
BY DEF Init, AttemptInv, Waiting, InCall

LEMMA AttemptStep == IInv /\ AttemptInv /\ [Next]_vars => AttemptInv'
<1> SUFFICES ASSUME IInv, AttemptInv, [Next]_vars PROVE AttemptInv'
  OBVIOUS
<1>1. ASSUME NEW r \in Requests, Others(r),
             pc'[r] \in Waiting /\ why'[r] = "rejection" => loop'[r] = 0,
             pc'[r] = "login" \/ (pc'[r] = "api_auth" /\ via'[r] = "login") => why'[r] = "headers"
      PROVE  AttemptInv'
  BY <1>1 DEF AttemptInv, Others
<1>2. ASSUME NEW r \in Requests, Kind(r)
      PROVE  /\ Others(r)
             /\ pc'[r] \in Waiting /\ why'[r] = "rejection" => loop'[r] = 0
             /\ pc'[r] = "login" \/ (pc'[r] = "api_auth" /\ via'[r] = "login")
                  => why'[r] = "headers"
  <2>1. CASE Asks(r)
    BY <2>1 DEF Asks, Queues, Sends, Waiting, InCall
  <2>2. CASE TurnsAway(r)
    BY <2>2 DEF TurnsAway, Same
  <2>3. CASE Ends(r) \/ Breaks(r)
    BY <2>3 DEF Ends, Breaks, Ended, Waiting, InCall
  <2>4. CASE CreatesAgain(r)
    BY <2>4 DEF CreatesAgain, Queues
  <2>5. CASE StartsRefresh(r)
    BY <2>5 DEF StartsRefresh, BeginsRefresh, AttemptInv, Waiting
  <2>6. CASE StartsLogin(r)
    BY <2>6 DEF StartsLogin, BeginsLogin
  <2>7. CASE Refused(r) \/ TradesId(r)
    <3>1. PICK as : Returns(r, as)
      BY <2>7 DEF Refused, TradesId
    <3> QED
      BY <3>1 DEF Returns, BeginsLogin, Queues, Sends, Waiting, InCall
  <2>8. CASE RefreshAdopts(r)
    BY <2>8 DEF RefreshAdopts, Adopts, AttemptInv, Waiting, InCall
  <2>9. CASE LoginAdopts(r)
    BY <2>9 DEF LoginAdopts, Adopts, AttemptInv, Waiting, InCall
  <2> QED
    BY <1>2, <2>1, <2>2, <2>3, <2>4, <2>5, <2>6, <2>7, <2>8, <2>9 DEF Kind
<1>3. CASE Revoke \/ Ages \/ UNCHANGED vars
  BY <1>3 DEF Revoke, Ages, vars, reqVars, AttemptInv
<1> QED
  BY <1>1, <1>2, <1>3, EveryStepHasAKind

LEMMA LeftAt ==
  ASSUME NEW l \in 0 .. 2, NEW w, NEW v
  PROVE  /\ LeftOf("idle", l, w, v) = 40
         /\ \A p \in Ended : LeftOf(p, l, w, v) = 0
         /\ LeftOf("lock", l, w, v) = 12 * (2 - l) + (IF w = "headers" THEN 10 ELSE 4)
         /\ LeftOf("refresh", l, w, v) = 12 * (2 - l) + (IF w = "headers" THEN 9 ELSE 3)
         /\ LeftOf("login", l, w, v) = 12 * (2 - l) + 7
         /\ LeftOf("api_auth", l, w, v)
              = 12 * (2 - l) + (IF v = "login" THEN 6 ELSE IF w = "headers" THEN 8 ELSE 2)
         /\ LeftOf("sent", l, w, v) = 12 * (2 - l) + 5
BY DEF LeftOf, Stage, Ended

LEMMA LeftIsNat ==
  ASSUME NEW l \in 0 .. 2, NEW w, NEW v,
         NEW p \in {"idle", "lock", "sent"} \cup InCall \cup Ended
  PROVE  LeftOf(p, l, w, v) \in Nat
<1>1. 2 - l \in Nat /\ 12 * (2 - l) \in Nat
  OBVIOUS
<1>2. CASE p = "idle"
  BY <1>2, LeftAt
<1>3. CASE p \in Ended
  BY <1>3 DEF LeftOf, Ended
<1>4. CASE p = "lock" \/ p = "refresh"
  BY <1>1, <1>4, LeftAt
<1>5. CASE p = "login" \/ p = "sent"
  BY <1>1, <1>5, LeftAt
<1>6. CASE p = "api_auth"
  BY <1>1, <1>6, LeftAt
<1> QED
  BY <1>2, <1>3, <1>4, <1>5, <1>6 DEF InCall

\* A step of a request brings it nearer to its end.
LEMMA StepBringsOn ==
  ASSUME TypeOK, TypeOK', AttemptInv, NEW r \in Requests, Kind(r)
  PROVE  Left(r)' < Left(r)
<1>1. /\ loop[r] \in 0 .. 2 /\ loop'[r] \in 0 .. 2
      /\ why[r] \in {"headers", "rejection"} /\ via[r] \in {"refresh", "login"}
      /\ pc[r] \in {"idle", "lock", "sent"} \cup InCall \cup Ended
  BY DEF TypeOK
<1>2. /\ Left(r) = LeftOf(pc[r], loop[r], why[r], via[r])
      /\ Left(r)' = LeftOf(pc'[r], loop'[r], why'[r], via'[r])
  BY DEF Left
<1> DEFINE new == LeftOf(pc'[r], loop'[r], why'[r], via'[r])
           old == LeftOf(pc[r], loop[r], why[r], via[r])
<1>3. CASE Asks(r)
  <2>1. pc'[r] = "lock" /\ why'[r] = "headers" => new = 12 * (2 - loop'[r]) + 10
    BY <1>1, LeftAt
  <2>2. pc'[r] = "sent" => new = 12 * (2 - loop'[r]) + 5
    BY <1>1, LeftAt
  <2>3. pc[r] = "idle" => old = 40
    BY <1>1, LeftAt
  <2>4. pc[r] = "lock" => old = 12 * (2 - loop[r]) + (IF why[r] = "headers" THEN 10 ELSE 4)
    BY <1>1, LeftAt
  <2>5. Turned(r) => loop[r] = 0
    BY DEF Turned, AttemptInv, Waiting
  <2> HIDE DEF new, old
  <2>6. \/ pc'[r] = "lock" /\ why'[r] = "headers" /\ pc[r] # "lock"
        \/ pc'[r] = "lock" /\ why'[r] = "headers" /\ Turned(r)
        \/ pc'[r] = "sent"
    BY <1>3 DEF Asks, Queues, Sends, Turned
  <2>7. \/ pc[r] = "idle" /\ loop'[r] = 0
        \/ pc[r] = "lock" /\ why[r] = "headers" /\ loop'[r] = loop[r] /\ pc'[r] = "sent"
        \/ Turned(r) /\ loop'[r] = 1
    BY <1>3 DEF Asks
  <2>8. new < old
    BY <1>1, <2>1, <2>2, <2>3, <2>4, <2>5, <2>6, <2>7 DEF Turned
  <2> QED
    BY <1>2, <2>8 DEF new, old
<1>4. CASE TurnsAway(r)
  <2>1. /\ pc[r] = "sent" /\ loop[r] = 0 /\ loop'[r] = 0
        /\ pc'[r] = "lock" /\ why'[r] = "rejection"
    BY <1>4 DEF TurnsAway, Same
  <2>2. old = 12 * (2 - loop[r]) + 5 /\ new = 12 * (2 - loop'[r]) + 4
    BY <1>1, <2>1, LeftAt
  <2> QED
    BY <1>2, <2>1, <2>2
<1>5. CASE Ends(r) \/ Breaks(r)
  <2>1. pc'[r] \in Ended /\ pc[r] \notin Ended
    BY <1>5 DEF Ends, Breaks, Ended, InCall
  <2>2. new = 0
    BY <1>1, <2>1, LeftAt
  <2>3. old \in Nat /\ old > 0
    BY <1>1, <2>1, LeftAt DEF InCall
  <2> QED
    BY <1>2, <2>2, <2>3
<1>6. CASE CreatesAgain(r)
  <2>1. /\ pc[r] = "sent" /\ loop[r] = 1 /\ loop'[r] = 2
        /\ pc'[r] = "lock" /\ why'[r] = "headers"
    BY <1>6 DEF CreatesAgain, Queues
  <2>2. old = 12 * (2 - loop[r]) + 5 /\ new = 12 * (2 - loop'[r]) + 10
    BY <1>1, <2>1, LeftAt
  <2> QED
    BY <1>2, <2>1, <2>2
<1>7. CASE StartsRefresh(r)
  <2>1. /\ pc[r] = "lock" /\ pc'[r] = "refresh"
        /\ loop'[r] = loop[r] /\ why'[r] = why[r]
    BY <1>7 DEF StartsRefresh, BeginsRefresh
  <2>2. /\ old = 12 * (2 - loop[r]) + (IF why[r] = "headers" THEN 10 ELSE 4)
        /\ new = 12 * (2 - loop'[r]) + (IF why'[r] = "headers" THEN 9 ELSE 3)
    BY <1>1, <2>1, LeftAt
  <2> QED
    BY <1>1, <1>2, <2>1, <2>2
<1>8. CASE StartsLogin(r)
  <2>1. /\ pc[r] = "lock" /\ why[r] = "headers" /\ pc'[r] = "login" /\ loop'[r] = loop[r]
    BY <1>8 DEF StartsLogin, BeginsLogin
  <2>2. old = 12 * (2 - loop[r]) + 10 /\ new = 12 * (2 - loop'[r]) + 7
    BY <1>1, <2>1, LeftAt
  <2> QED
    BY <1>1, <1>2, <2>1, <2>2
<1>9. CASE Refused(r) \/ TradesId(r)
  <2>1. PICK as : Returns(r, as)
    BY <1>9 DEF Refused, TradesId
  <2>2. /\ pc[r] = "refresh" \/ pc[r] = "api_auth"
        /\ pc[r] = "api_auth" /\ via[r] = "login" => pc'[r] # "login"
    BY <1>9 DEF Refused, TradesId, Returns, BeginsLogin, Queues, Sends
  <2>3. why[r] # "headers" => loop[r] = 0
    BY <1>1, <2>2 DEF AttemptInv, Waiting, InCall
  <2>4. pc[r] = "api_auth" /\ via[r] = "login" => why[r] = "headers"
    BY DEF AttemptInv
  <2>5. \/ pc'[r] = "login" /\ why[r] = "headers" /\ loop'[r] = loop[r]
        \/ pc'[r] = "lock" /\ why'[r] = "headers" /\ why[r] # "headers" /\ loop'[r] = 1
        \/ pc'[r] = "sent" /\ why[r] # "headers" /\ loop'[r] = 1
        \/ pc'[r] = "sent" /\ why[r] = "headers" /\ loop'[r] = loop[r]
    BY <1>1, <2>1, <2>4 DEF Returns, BeginsLogin, Queues, Sends
  <2>6. /\ pc[r] = "refresh" => old = 12 * (2 - loop[r]) + (IF why[r] = "headers" THEN 9 ELSE 3)
        /\ pc[r] = "api_auth" =>
             old = 12 * (2 - loop[r])
                     + (IF via[r] = "login" THEN 6 ELSE IF why[r] = "headers" THEN 8 ELSE 2)
    BY <1>1, LeftAt
  <2>7. /\ pc'[r] = "login" => new = 12 * (2 - loop'[r]) + 7
        /\ pc'[r] = "sent" => new = 12 * (2 - loop'[r]) + 5
        /\ pc'[r] = "lock" /\ why'[r] = "headers" => new = 12 * (2 - loop'[r]) + 10
    BY <1>1, LeftAt
  <2> HIDE DEF new, old
  <2>8. new < old
    BY <1>1, <2>2, <2>3, <2>4, <2>5, <2>6, <2>7
  <2> QED
    BY <1>2, <2>8 DEF new, old
<1>10. CASE RefreshAdopts(r)
  <2>1. /\ pc[r] = "refresh" /\ pc'[r] = "api_auth" /\ via'[r] = "refresh"
        /\ loop'[r] = loop[r] /\ why'[r] = why[r]
    BY <1>10 DEF RefreshAdopts, Adopts
  <2>2. /\ old = 12 * (2 - loop[r]) + (IF why[r] = "headers" THEN 9 ELSE 3)
        /\ new = 12 * (2 - loop'[r]) + (IF why'[r] = "headers" THEN 8 ELSE 2)
    BY <1>1, <2>1, LeftAt
  <2> QED
    BY <1>1, <1>2, <2>1, <2>2
<1>11. CASE LoginAdopts(r)
  <2>1. /\ pc[r] = "login" /\ pc'[r] = "api_auth" /\ via'[r] = "login" /\ loop'[r] = loop[r]
    BY <1>11 DEF LoginAdopts, Adopts
  <2>2. old = 12 * (2 - loop[r]) + 7 /\ new = 12 * (2 - loop'[r]) + 6
    BY <1>1, <2>1, LeftAt
  <2> QED
    BY <1>1, <1>2, <2>1, <2>2
<1> QED
  BY <1>3, <1>4, <1>5, <1>6, <1>7, <1>8, <1>9, <1>10, <1>11 DEF Kind

\* No step of another request, or of the environment, sets a request back.
LEMMA NobodySetsBack ==
  ASSUME IInv, AttemptInv, [Next]_vars, NEW r \in Requests
  PROVE  Left(r)' <= Left(r) /\ (RequestStep(r) => Left(r)' < Left(r))
<1>0. IInv'
  BY NextIInv
<1>1. TypeOK /\ TypeOK'
  BY <1>0 DEF IInv
<1>2. Left(r) \in Nat /\ Left(r)' \in Nat
  <2>1. /\ loop[r] \in 0 .. 2 /\ pc[r] \in {"idle", "lock", "sent"} \cup InCall \cup Ended
        /\ loop'[r] \in 0 .. 2 /\ pc'[r] \in {"idle", "lock", "sent"} \cup InCall \cup Ended
    BY <1>1 DEF TypeOK
  <2>2. LeftOf(pc[r], loop[r], why[r], via[r]) \in Nat
    BY <2>1, LeftIsNat
  <2>3. LeftOf(pc'[r], loop'[r], why'[r], via'[r]) \in Nat
    BY <2>1, LeftIsNat
  <2> QED
    BY <2>2, <2>3 DEF Left
<1>3. RequestStep(r) => Left(r)' < Left(r)
  BY <1>1, RequestStepHasAKind, StepBringsOn
<1>4. CASE \E s \in Requests : Kind(s)
  <2>1. PICK s \in Requests : Kind(s)
    BY <1>4
  <2>2. CASE s = r
    BY <1>1, <1>2, <2>1, <2>2, StepBringsOn
  <2>3. CASE s # r
    <3>1. Others(s)
      BY <2>1 DEF Kind, Asks, TurnsAway, Ends, CreatesAgain, StartsRefresh, StartsLogin,
                  Refused, TradesId, Returns, RefreshAdopts, LoginAdopts, Adopts, Breaks
    <3>2. pc'[r] = pc[r] /\ loop'[r] = loop[r] /\ why'[r] = why[r] /\ via'[r] = via[r]
      BY <2>3, <3>1 DEF Others
    <3>3. Left(r)' = Left(r)
      BY <3>2 DEF Left
    <3> QED
      BY <1>2, <1>3, <3>3
  <2> QED
    BY <2>2, <2>3
<1>5. CASE Revoke \/ Ages \/ UNCHANGED vars
  <2>1. UNCHANGED reqVars
    BY <1>5 DEF Revoke, Ages, vars, reqVars
  <2>2. Left(r)' = Left(r)
    BY <2>1 DEF Left, reqVars
  <2> QED
    BY <1>2, <1>3, <2>2
<1> QED
  BY <1>2, <1>3, <1>4, <1>5, EveryStepHasAKind

\* Every step a request takes, whether its exchange is answered, refused, raises or
\* is cancelled, brings it nearer to its end, and no other step sets it back, however
\* often siblings re-create the login and tokens are revoked or age: _intercept does
\* not retry for ever.
RequestsMoveOn ==
  [][\A r \in Requests : Left(r)' <= Left(r) /\ (RequestStep(r) => Left(r)' < Left(r))]_vars

THEOREM RequestsGetOn == Spec => RequestsMoveOn
<1>1. Init => IInv /\ AttemptInv
  BY InitIInv, InitAttempt
<1>2. IInv /\ AttemptInv /\ [Next]_vars => (IInv /\ AttemptInv)'
  BY NextIInv, AttemptStep
<1>3. IInv /\ AttemptInv /\ [Next]_vars
        => [\A r \in Requests :
              Left(r)' <= Left(r) /\ (RequestStep(r) => Left(r)' < Left(r))]_vars
  BY NobodySetsBack
<1> QED
  BY <1>1, <1>2, <1>3, PTL DEF Spec, RequestsMoveOn

\* The lock is never left with a request that has ended: whoever waits for it finds
\* a live request, itself or another, at its head.
LockIsInHands ==
  \A r \in Requests : pc[r] = "lock" => \E s \in Requests : HoldsLock(s) /\ pc[s] \in Waiting

\* First come, first served: in no step does a request get in front of another that
\* waits for the lock, and RequestsGetOn counts the steps of the one at its head.
LockIsHandedOn == []LockIsInHands /\ [][InTurn]_vars

THEOREM LockGoesRound == Spec => LockIsHandedOn
<1>1. IInv => LockIsInHands
  <2> SUFFICES ASSUME IInv, NEW r \in Requests, pc[r] = "lock"
               PROVE  \E s \in Requests : HoldsLock(s) /\ pc[s] \in Waiting
    BY DEF LockIsInHands
  <2>1. Queued(r, queue) /\ queue \in Seq(Requests)
    BY DEF IInv, TypeOK, LockInv, Waiting
  <2>2. queue # <<>> /\ Len(queue) \in Nat /\ 1 \in 1 .. Len(queue)
    BY <2>1 DEF Queued
  <2>3. queue[1] \in Requests /\ Head(queue) = queue[1]
    BY <2>1, <2>2
  <2>4. Queued(queue[1], queue)
    BY <2>2 DEF Queued
  <2> QED
    BY <2>2, <2>3, <2>4 DEF IInv, LockInv, HoldsLock
<1>2. IInv /\ [Next]_vars => [InTurn]_vars
  BY NextInTurn
<1> QED
  BY <1>1, <1>2, Invariance, PTL DEF Spec, LockIsHandedOn

-----------------------------------------------------------------------------
(* The password login.                                                     *)

\* create() does not swap the HonAuth object under the exchange of a sibling.
NoCreateUnderCall == [][Undisturbed' /\ InACall => cur' = cur]_vars

LEMMA InitCustody == Init => CustodyInv
BY DEF Init, CustodyInv, InACall, InCall

LEMMA CustodyStep ==
  ASSUME IInv, ObjectInv, CustodyInv, [Next]_vars, Undisturbed' /\ InACall => cur' = cur
  PROVE  CustodyInv'
<1> SUFFICES ASSUME Undisturbed' PROVE CustodyInv'
  BY DEF CustodyInv
<1> USE DEF Connection, connVars, reqVars, srvVars, bounds
<1>0. /\ TypeOK /\ cur \in Auths /\ Undisturbed /\ faults = 0 /\ faults' = 0
      /\ Nothing \notin liveRefresh
      /\ \A r \in Requests : obj[r] \in Auths
  BY StaysUndisturbed DEF IInv, TypeOK, Grants, Nothing, Undisturbed
\* A step of a request that neither enters nor leaves an exchange.
<1>1. ASSUME NEW r \in Requests, Others(r), pc[r] \notin InCall, pc'[r] \notin InCall,
             UNCHANGED <<auths, refreshToken, liveRefresh>>
      PROVE  CustodyInv'
  <2>1. InACall' <=> InACall
    BY <1>1 DEF Others, InACall
  <2>2. \A s \in Requests : pc'[s] \in InCall => pc'[s] = pc[s] /\ obj'[s] = obj[s] /\ InACall
    BY <1>1 DEF Others, InACall
  <2>3. InACall => cur' = cur
    OBVIOUS
  <2> QED
    BY <1>0, <1>1, <2>1, <2>2, <2>3 DEF CustodyInv, InCall
<1>2. ASSUME NEW r \in Requests, Asks(r) PROVE CustodyInv'
  BY <1>1, <1>2 DEF Asks, Queues, Sends, Turned, InCall
<1>3. ASSUME NEW r \in Requests, TurnsAway(r) PROVE CustodyInv'
  BY <1>1, <1>3 DEF TurnsAway, InCall
<1>4. ASSUME NEW r \in Requests, Ends(r) PROVE CustodyInv'
  BY <1>0, <1>1, <1>4 DEF Ends, InCall, Ended
<1>5. ASSUME NEW r \in Requests, CreatesAgain(r) PROVE CustodyInv'
  BY <1>1, <1>5 DEF CreatesAgain, Queues, InCall
\* One that enters, stays in or leaves it as the holder of the lock.
<1>6. ASSUME NEW r \in Requests, Others(r), HoldsLock(r), cur' = cur
      PROVE  \A s \in Requests : pc'[s] \in InCall => s = r
  BY <1>6, HolderOnly DEF Others
<1>7. ASSUME NEW r \in Requests, StartsRefresh(r) PROVE CustodyInv'
  <2>1. ~InACall
    BY <1>7, HolderOnly DEF StartsRefresh, InACall, InCall
  <2>2. liveRefresh \subseteq {auths'[cur].refresh}
    BY <1>0, <1>7, <2>1 DEF StartsRefresh, BeginsRefresh, CustodyInv
  <2>3. \A s \in Requests : pc'[s] \in InCall => s = r
    BY <1>6, <1>7 DEF StartsRefresh
  <2>4. pc'[r] = "refresh" /\ obj'[r] = cur /\ UNCHANGED <<cur, liveRefresh>>
    BY <1>7 DEF StartsRefresh, BeginsRefresh
  <2>5. InACall'
    BY <2>4 DEF InACall, InCall
  <2> QED
    BY <2>2, <2>3, <2>4, <2>5 DEF CustodyInv, InCall
<1>8. ASSUME NEW r \in Requests, NEW as, BeginsLogin(r, as), Others(r), HoldsLock(r),
             UNCHANGED <<cur, liveRefresh>>, liveRefresh = {}
      PROVE  CustodyInv'
  <2>1. \A s \in Requests : pc'[s] \in InCall => s = r
    BY <1>6, <1>8
  <2>2. pc'[r] = "login" /\ obj'[r] = cur
    BY <1>8 DEF BeginsLogin
  <2> QED
    BY <1>8, <2>1, <2>2 DEF CustodyInv, InCall
<1>9. ASSUME NEW r \in Requests, StartsLogin(r) PROVE CustodyInv'
  <2>1. ~InACall
    BY <1>9, HolderOnly DEF StartsLogin, InACall, InCall
  <2>2. liveRefresh = {}
    BY <1>0, <1>9, <2>1 DEF StartsLogin, CustodyInv
  <2> QED
    BY <1>8, <1>9, <2>2 DEF StartsLogin
<1>10. ASSUME NEW r \in Requests, NEW as, Returns(r, as), ~BeginsLogin(r, as),
              liveRefresh \subseteq {as[cur].refresh}
       PROVE  CustodyInv'
  <2>1. pc'[r] \notin InCall
    BY <1>10 DEF Returns, Queues, Sends, InCall
  <2>2. \A s \in Requests : pc'[s] \notin InCall
    BY <1>6, <1>10, <2>1 DEF Returns
  <2>3. liveRefresh' \subseteq {refreshToken'}
    BY <1>10 DEF Returns
  <2> QED
    BY <2>2, <2>3 DEF CustodyInv, InCall
<1>11. ASSUME NEW r \in Requests, Refused(r) PROVE CustodyInv'
  <2>1. auths[cur].refresh \notin liveRefresh /\ liveRefresh \subseteq {auths[cur].refresh}
    BY <1>0, <1>11 DEF Refused, CustodyInv, InCall
  <2>2. CASE BeginsLogin(r, auths)
    BY <1>8, <1>11, <2>1, <2>2 DEF Refused, Returns
  <2>3. CASE ~BeginsLogin(r, auths)
    BY <1>10, <1>11, <2>1, <2>3 DEF Refused
  <2> QED
    BY <2>2, <2>3
<1>12. ASSUME NEW r \in Requests, TradesId(r) PROVE CustodyInv'
  <2>1. obj[r] = cur /\ liveRefresh \subseteq {auths[cur].refresh} /\ auths[cur].id # Nothing
    BY <1>0, <1>12 DEF TradesId, CustodyInv, ObjectInv, InCall
  <2>2. ~NeedAuth(Traded(obj[r])[cur]) /\ Traded(obj[r])[cur].refresh = auths[cur].refresh
    BY <1>0, <2>1, TradedFields DEF NeedAuth
  <2>3. ~BeginsLogin(r, Traded(obj[r]))
    BY <1>12, <2>2 DEF TradesId, Returns, BeginsLogin, Queues, Sends
  <2> QED
    BY <1>10, <1>12, <2>1, <2>2, <2>3 DEF TradesId
<1>13. ASSUME NEW r \in Requests, Adopts(r), obj[r] = cur, liveRefresh' = {granted + 1}
       PROVE  CustodyInv'
  <2>1. \A s \in Requests : pc'[s] \in InCall => s = r
    BY <1>6, <1>13 DEF Adopts
  <2>2. pc'[r] = "api_auth" /\ obj'[r] = cur' /\ auths'[cur'].refresh = granted + 1
    BY <1>13 DEF Adopts
  <2>3. InACall'
    BY <2>2 DEF InACall, InCall
  <2> QED
    BY <1>13, <2>1, <2>2, <2>3 DEF CustodyInv, InCall
<1>14. ASSUME NEW r \in Requests, RefreshAdopts(r) PROVE CustodyInv'
  <2>1. obj[r] = cur /\ liveRefresh \subseteq {auths[cur].refresh}
    BY <1>0, <1>14 DEF RefreshAdopts, CustodyInv, InCall
  <2> QED
    BY <1>13, <1>14, <2>1 DEF RefreshAdopts
<1>15. ASSUME NEW r \in Requests, LoginAdopts(r) PROVE CustodyInv'
  <2>1. obj[r] = cur /\ liveRefresh = {}
    BY <1>0, <1>15 DEF LoginAdopts, CustodyInv, InCall
  <2> QED
    BY <1>13, <1>15, <2>1 DEF LoginAdopts
<1>16. ASSUME NEW r \in Requests, Breaks(r) PROVE FALSE
  BY <1>0, <1>16 DEF Breaks
<1>17. CASE Revoke
  BY <1>0, <1>17 DEF Revoke, CustodyInv, InACall
<1>18. CASE Ages
  BY <1>0, <1>18 DEF Ages, CustodyInv, InACall
<1>19. CASE UNCHANGED vars
  BY <1>0, <1>19 DEF vars, CustodyInv, InACall
<1> QED
  BY <1>2, <1>3, <1>4, <1>5, <1>7, <1>9, <1>11, <1>12, <1>14, <1>15, <1>16, <1>17, <1>18, <1>19,
     EveryStepHasAKind DEF Kind

\* A step into authenticate() finds no refresh token the provider honours.
LEMMA LoginIsNeeded ==
  ASSUME IInv, CustodyInv, [Next]_vars, CustodyInv', Undisturbed',
         NEW r \in Requests, pc[r] # "login", pc'[r] = "login"
  PROVE  liveRefresh = {}
<1> USE DEF Connection, connVars, reqVars, srvVars, bounds
<1>1. liveRefresh' = {}
  BY DEF CustodyInv
<1>2. ASSUME NEW s \in Requests, Kind(s) PROVE liveRefresh' = liveRefresh
  <2>1. CASE RefreshAdopts(s) \/ LoginAdopts(s) \/ Breaks(s)
    BY <2>1 DEF RefreshAdopts, LoginAdopts, Adopts, Breaks, Others
  <2>2. CASE ~(RefreshAdopts(s) \/ LoginAdopts(s) \/ Breaks(s))
    BY <1>2, <2>2 DEF Kind, Asks, TurnsAway, Ends, CreatesAgain, StartsRefresh, StartsLogin,
                      Refused, TradesId, Returns
  <2> QED
    BY <2>1, <2>2
<1>3. liveRefresh' = liveRefresh
  BY <1>2, EveryStepHasAKind DEF Revoke, Ages, vars
<1> QED
  BY <1>1, <1>3

\* For any number of requests, revocations and expiries: as long as every
\* exchange is answered and create() swaps no HonAuth under an exchange, the
\* password login starts only when the provider honours none of the refresh
\* tokens it has granted.
THEOREM LoginWithoutCreateIsLast == Spec /\ NoCreateUnderCall => LoginIsLastResort
<1> DEFINE Quietly == Undisturbed' /\ InACall => cur' = cur
           Last == \A r \in Requests :
                     Undisturbed' /\ pc[r] # "login" /\ pc'[r] = "login" => liveRefresh = {}
<1>1. Init => CustodyInv
  BY InitCustody
<1>2. TokenInv /\ CustodyInv /\ [Next]_vars /\ [Quietly]_vars => CustodyInv'
  <2> SUFFICES ASSUME TokenInv, CustodyInv, [Next]_vars, [Quietly]_vars PROVE CustodyInv'
    OBVIOUS
  <2>1. Quietly
    BY DEF vars, connVars
  <2> QED
    BY <2>1, CustodyStep DEF TokenInv
<1>3. TokenInv /\ CustodyInv /\ [Next]_vars /\ CustodyInv' => [Last]_vars
  BY LoginIsNeeded DEF TokenInv
<1> QED
  BY <1>1, <1>2, <1>3, TokenInvariance, PTL DEF Spec, NoCreateUnderCall, LoginIsLastResort

-----------------------------------------------------------------------------
(* One upset.                                                              *)

LEMMA InitUpset == Init => UpsetInv
<1> SUFFICES ASSUME Init PROVE OnceInv /\ CalmInv /\ InUseInv
  BY DEF UpsetInv
<1>1. 1 \in Auths /\ auths[cur].cognito = Nothing /\ auths[cur].age = 0
  BY DEF Init, Auths, BlankAuth
<1> QED
  BY <1>1 DEF Init, OnceInv, CalmInv, InUseInv, InUse, Dead

LEMMA UpsetStep ==
  ASSUME MaxUpsets <= 1, IInv, ObjectInv, UpsetInv, [Next]_vars
  PROVE  UpsetInv'
<1> SUFFICES ASSUME Undisturbed' PROVE OnceInv' /\ CalmInv' /\ InUseInv'
  BY DEF UpsetInv
<1> USE DEF Connection, connVars, reqVars, srvVars, bounds
<1>0. /\ TypeOK /\ cur \in Auths /\ Undisturbed /\ faults = 0 /\ faults' = 0
      /\ OnceInv /\ CalmInv /\ InUseInv
      /\ upsets \in {0, 1} /\ Nothing \notin liveRefresh
  BY StaysUndisturbed, SMTT(30) DEF IInv, TypeOK, Grants, Nothing, Undisturbed, UpsetInv
<1>a. /\ \A r \in Requests : loop[r] \in 0 .. 2 /\ obj[r] = cur
      /\ auths[cur].age \in 0 .. 2
      /\ auths \in [Auths -> Auth]
      /\ \A r \in Requests : why[r] \in {"headers", "rejection"}
  BY <1>0, AuthFields DEF TypeOK, OnceInv
<1>1. ASSUME NEW r \in Requests, Asks(r) PROVE OnceInv' /\ CalmInv' /\ InUseInv'
  <2>1. InACall' <=> InACall
    <3>1. pc[r] \notin InCall /\ pc'[r] \notin InCall
      BY <1>1 DEF Asks, Queues, Sends, Turned, InCall
    <3> QED
      BY <1>1, <3>1 DEF Asks, Others, InACall
  <2>2. Turned(r) => upsets = 1
    BY <1>0 DEF CalmInv, Turned
  <2>3. Dead => loop'[r] = 0
    BY <1>0, <1>1 DEF Asks, InUseInv, InUse
  <2>4. pc'[r] = "sent" => auths[cur].cognito # Nothing
    BY <1>1 DEF Asks, Queues, Sends, NeedAuth
  <2>5. pc'[r] = "sent" => header'[r] = auths[cur].cognito /\ genAtSend'[r] = refreshGen
    BY <1>1 DEF Asks, Queues, Sends
  <2>6. pc'[r] \in {"lock", "sent"} /\ (why'[r] = why[r] \/ why'[r] = "headers") /\ ~Turned(r)'
    BY <1>1 DEF Asks, Queues, Sends, Turned
  <2>7. OnceInv'
    BY <1>0, <1>a, <1>1, <2>2, <2>3, <2>4, <2>5, <2>6 DEF Asks, Others, OnceInv, Dead
  <2>8. CalmInv'
    BY <1>0, <1>1, <2>4, <2>5, <2>6 DEF Asks, Others, CalmInv, Dead
  <2>9. InUseInv'
    <3> SUFFICES ASSUME InUse' PROVE InUseInv'
      BY DEF InUseInv
    <3>1. InUse
      BY <1>1 DEF Asks, InUse, Dead
    <3>2. loop'[r] = 0
      BY <1>0, <1>1, <3>1 DEF Asks, InUseInv
    <3>3. \A s \in Requests \ {r} : loop'[s] = loop[s] /\ (Turned(s)' <=> Turned(s))
      BY <1>1 DEF Asks, Others, Turned
    <3> QED
      BY <1>0, <1>1, <2>1, <2>5, <2>6, <3>1, <3>2, <3>3 DEF Asks, Others, InUseInv, InCall, Dead
  <2> QED
    BY <2>7, <2>8, <2>9
<1>2. ASSUME NEW r \in Requests, TurnsAway(r) PROVE OnceInv' /\ CalmInv' /\ InUseInv'
  <2>1. upsets = 1
    BY <1>0, <1>a, <1>2 DEF TurnsAway, CalmInv, OnceInv
  <2>2. InACall' <=> InACall
    BY <1>2 DEF TurnsAway, Others, InACall, InCall
  <2>3. OnceInv' /\ CalmInv'
    BY <1>0, <1>2, <2>1 DEF TurnsAway, Others, Same, OnceInv, CalmInv
  <2>4. InUseInv'
    BY <1>0, <1>2, <2>2 DEF TurnsAway, Others, Same, InUseInv, InUse, Dead, Turned, InCall
  <2> QED
    BY <2>3, <2>4
<1>3. ASSUME NEW r \in Requests, Ends(r) PROVE OnceInv' /\ CalmInv' /\ InUseInv'
  <2>1. pc[r] = "sent" /\ pc'[r] \in Ended
    BY <1>0, <1>3 DEF Ends
  <2>2. InACall' <=> InACall
    BY <1>3, <2>1 DEF Ends, Others, InACall, InCall, Ended
  <2>3. OnceInv' /\ CalmInv'
    BY <1>0, <1>3, <2>1 DEF Ends, Others, Same, OnceInv, CalmInv, Ended, Dead
  <2>4. InUseInv'
    BY <1>0, <1>3, <2>1, <2>2 DEF Ends, Others, Same, InUseInv, InUse, Dead, Turned, InCall, Ended
  <2> QED
    BY <2>3, <2>4
<1>4. ASSUME NEW r \in Requests, CreatesAgain(r) PROVE FALSE
  BY <1>0, <1>a, <1>4 DEF CreatesAgain, OnceInv
<1>5. ASSUME NEW r \in Requests, HoldsLock(r), pc[r] \notin InCall, InUse
      PROVE  refreshToken \in liveRefresh /\ auths[cur].id # Nothing /\ refreshToken # Nothing
  BY <1>0, <1>5, HolderOnly DEF InACall, InUseInv
<1>6. ASSUME NEW r \in Requests, StartsRefresh(r) PROVE OnceInv' /\ CalmInv' /\ InUseInv'
  <2>1. /\ pc'[r] = "refresh" /\ obj'[r] = cur /\ UNCHANGED <<cur, refreshToken, refreshGen>>
        /\ auths'[cur].id = auths[cur].id /\ auths'[cur].cognito = auths[cur].cognito
        /\ auths'[cur].age = auths[cur].age
        /\ loop'[r] = loop[r] /\ header'[r] = header[r] /\ why'[r] = why[r]
        /\ UNCHANGED <<srvVars, bounds>>
    BY <1>6 DEF StartsRefresh, BeginsRefresh
  <2>2. \A s \in Requests \ {r} : pc[s] \notin InCall
    BY <1>6, HolderOnly DEF StartsRefresh
  <2>3. OnceInv' /\ CalmInv'
    BY <1>0, <1>6, <2>1, <2>2 DEF StartsRefresh, Others, OnceInv, CalmInv, Dead, InCall
  <2>4. InUseInv'
    <3> SUFFICES ASSUME InUse' PROVE InUseInv'
      BY DEF InUseInv
    <3>1. InUse
      BY <2>1 DEF InUse, Dead
    <3>2. refreshToken \in liveRefresh /\ auths[cur].id # Nothing /\ refreshToken # Nothing
      BY <1>5, <1>6, <3>1 DEF StartsRefresh, InCall
    <3>3. why[r] = "rejection"
      BY <1>0, <1>6, <3>1, <3>2 DEF StartsRefresh, NeedRefresh, NeedAuth, InUseInv, InUse, Dead
    <3>4. Dead
      BY <1>0, <3>1, <3>3 DEF InUse, CalmInv
    <3>5. auths'[cur].refresh \in liveRefresh
      BY <1>6, <3>2 DEF StartsRefresh, BeginsRefresh
    <3>6. InACall' /\ Dead'
      BY <2>1, <3>4 DEF InACall, InCall, Dead
    <3>7. \A s \in Requests \ {r} : loop'[s] = loop[s] /\ (Turned(s)' <=> Turned(s))
      BY <1>6 DEF StartsRefresh, Others, Turned
    <3> QED
      BY <1>0, <1>6, <2>1, <2>2, <3>1, <3>3, <3>5, <3>6, <3>7
         DEF StartsRefresh, Others, InUseInv, Turned
  <2> QED
    BY <2>3, <2>4
<1>7. ASSUME NEW r \in Requests, NEW as, BeginsLogin(r, as), Others(r), HoldsLock(r), ~InUse,
             as[cur].age = auths[cur].age,
             UNCHANGED <<cur, granted, liveRefresh, spent, accepted, upsets>>
      PROVE  OnceInv' /\ CalmInv' /\ InUseInv'
  <2>1. /\ pc'[r] = "login" /\ obj'[r] = cur /\ auths'[cur].cognito = Nothing
        /\ auths'[cur].age = auths[cur].age
        /\ loop'[r] = loop[r] /\ header'[r] = header[r] /\ why'[r] = why[r]
    BY <1>7 DEF BeginsLogin
  <2>2. \A s \in Requests \ {r} : pc[s] \notin InCall
    BY <1>7, HolderOnly
  <2>3. upsets = 0 => auths[cur].cognito = Nothing
    BY <1>7 DEF InUse
  <2>4. OnceInv'
    BY <1>0, <1>7, <2>1, <2>2 DEF Others, OnceInv, InCall
  <2>5. CalmInv'
    BY <1>0, <1>7, <2>1, <2>3 DEF Others, CalmInv, Dead
  <2>6. InUseInv'
    BY <1>0, <1>7, <2>1, <2>3 DEF InUseInv, InUse, Dead
  <2> QED
    BY <2>4, <2>5, <2>6
<1>8. ASSUME NEW r \in Requests, StartsLogin(r) PROVE OnceInv' /\ CalmInv' /\ InUseInv'
  <2>1. ~InUse
    BY <1>5, <1>8 DEF StartsLogin, InCall
  <2> QED
    BY <1>7, <1>8, <2>1 DEF StartsLogin
<1>9. ASSUME NEW r \in Requests, Refused(r) PROVE OnceInv' /\ CalmInv' /\ InUseInv'
  <2>1. ~InUse
    BY <1>0, <1>a, <1>9 DEF Refused, InUseInv, InCall
  <2>2. Returns(r, auths) /\ UNCHANGED <<cur, granted, liveRefresh, spent, accepted, upsets>>
    BY <1>9 DEF Refused, Returns
  <2>3. CASE BeginsLogin(r, auths)
    BY <1>7, <2>1, <2>2, <2>3 DEF Returns
  <2>4. CASE ~BeginsLogin(r, auths)
    <3>1. /\ auths' = auths /\ obj'[r] = cur /\ Others(r)
          /\ loop'[r] = loop[r] \/ (why[r] # "headers" /\ loop'[r] = 1)
          /\ pc'[r] \in {"lock", "sent"} /\ (why'[r] = why[r] \/ why'[r] = "headers")
      BY <1>a, <2>2, <2>4 DEF Returns, Queues, Sends
    <3>2. pc'[r] = "sent" => header'[r] = auths[cur].cognito /\ ~NeedAuth(auths[cur])
      BY <1>9, <2>2, <2>4 DEF Refused, Returns, Queues, Sends
    <3>3. pc'[r] = "sent" => header'[r] \in accepted /\ upsets = 1
      BY <1>0, <2>1, <3>2 DEF NeedAuth, InUse, Dead
    <3>4. why[r] # "headers" => upsets = 1
      BY <1>0 DEF CalmInv
    <3>5. \A s \in Requests : pc'[s] \notin InCall
      BY <2>2, <3>1, HolderOnly DEF Returns, Others, InCall
    <3>6. OnceInv'
      BY <1>0, <1>a, <2>2, <3>1, <3>3, <3>4, <3>5 DEF Others, OnceInv, InCall
    <3>7. CalmInv'
      BY <1>0, <2>2, <3>1, <3>3 DEF Others, CalmInv, Dead
    <3>8. InUseInv'
      BY <2>1, <2>2, <3>1 DEF InUseInv, InUse, Dead
    <3> QED
      BY <3>6, <3>7, <3>8
  <2> QED
    BY <2>3, <2>4
<1>10. ASSUME NEW r \in Requests, TradesId(r) PROVE OnceInv' /\ CalmInv' /\ InUseInv'
  <2>1. pc[r] = "api_auth" /\ obj[r] = cur /\ auths[cur].id # Nothing
        /\ auths[cur].refresh \in liveRefresh
    BY <1>0, <1>a, <1>10 DEF TradesId, ObjectInv, OnceInv
  <2> DEFINE as == Traded(cur)
  <2>2. /\ as[cur].id = auths[cur].id /\ as[cur].cognito = auths[cur].id
        /\ as[cur].refresh = auths[cur].refresh /\ as[cur].age = auths[cur].age
    BY <1>0, TradedFields
  <2>3. Returns(r, as) /\ accepted' = accepted \cup {auths[cur].id}
        /\ UNCHANGED <<cur, granted, liveRefresh, spent, upsets>>
    BY <1>10, <2>1 DEF TradesId, Returns
  <2> HIDE DEF as
  <2>4. ~NeedAuth(as[cur])
    BY <2>1, <2>2 DEF NeedAuth
  <2>5. /\ auths' = as /\ obj'[r] = cur /\ Others(r)
        /\ loop'[r] = loop[r] \/ (why[r] # "headers" /\ loop'[r] = 1)
        /\ pc'[r] = "sent" \/ (pc'[r] = "lock" /\ why[r] # "headers")
        /\ why'[r] = why[r] \/ why'[r] = "headers"
    BY <1>a, <2>3, <2>4 DEF Returns, Queues, Sends
  <2>6. pc'[r] = "sent" => header'[r] = auths[cur].id /\ genAtSend'[r] = refreshGen'
    BY <2>2, <2>3, <2>4 DEF Returns, BeginsLogin, Queues, Sends
  <2>7. why[r] # "headers" => upsets = 1
    BY <1>0 DEF CalmInv
  <2>8. \A s \in Requests : pc'[s] \notin InCall
    BY <2>3, <2>5, HolderOnly DEF Returns, Others, InCall
  <2>9. ~Dead' /\ auths'[cur'].cognito # Nothing
    BY <2>1, <2>2, <2>3, <2>5 DEF Dead
  <2>a. auths'[cur'].age = auths[cur].age /\ auths'[cur'].id = auths[cur].id
    BY <2>2, <2>3, <2>5
  <2>10. OnceInv'
    <3>1. \A s \in Requests : loop'[s] <= upsets' /\ obj'[s] = cur'
      BY <1>0, <1>a, <2>3, <2>5, <2>7 DEF Others, OnceInv
    <3>2. \A s \in Requests : pc'[s] = "sent" /\ loop'[s] = 1 => header'[s] \in accepted'
      BY <1>0, <2>3, <2>5, <2>6 DEF Others, OnceInv
    <3>3. auths'[cur'].age <= upsets'
      BY <1>0, <2>3, <2>a DEF OnceInv
    <3> QED
      BY <2>8, <3>1, <3>2, <3>3 DEF OnceInv, InCall
  <2>11. CalmInv'
    BY <1>0, <2>3, <2>5, <2>6, <2>9 DEF Others, CalmInv
  <2>12. InUseInv'
    <3> SUFFICES ASSUME upsets = 0 PROVE InUseInv'
      BY <2>3, <2>9 DEF InUseInv, InUse
    <3>1. ~InUse
      BY <1>0, <2>1 DEF InUseInv, CalmInv, InCall
    <3>2. \A s \in Requests \ {r} : pc'[s] # "sent" /\ ~Turned(s)'
      BY <1>0, <2>5, <3>1 DEF Others, CalmInv, InUse, Turned
    <3>3. \A s \in Requests : loop'[s] = 0
      BY <1>0, <1>a, <2>5, <2>7 DEF Others, OnceInv
    <3>4. auths'[cur'].age = 0 /\ auths'[cur'].id # Nothing
      BY <1>0, <1>a, <2>1, <2>3, <2>a DEF OnceInv
    <3>5. pc'[r] = "sent"
      BY <2>5, <2>7
    <3>6. refreshToken' \in liveRefresh'
      BY <2>1, <2>2, <2>3 DEF Returns
    <3> QED
      BY <2>6, <2>8, <3>2, <3>3, <3>4, <3>5, <3>6 DEF InUseInv, Turned
  <2> QED
    BY <2>10, <2>11, <2>12
<1>11. ASSUME NEW r \in Requests, pc[r] \in InCall, Adopts(r), granted + 1 \in liveRefresh',
              pc[r] = "refresh" \/ ~InUse
       PROVE  OnceInv' /\ CalmInv' /\ InUseInv'
  <2>1. /\ pc'[r] = "api_auth" /\ why'[r] = why[r] /\ loop'[r] = loop[r] /\ obj'[r] = cur
        /\ header'[r] = header[r] /\ genAtSend'[r] = genAtSend[r] /\ Others(r)
        /\ UNCHANGED <<cur, refreshToken, refreshGen, accepted, bounds>>
        /\ auths'[cur].id = granted + 1 /\ auths'[cur].refresh = granted + 1
        /\ auths'[cur].cognito = auths[cur].cognito /\ auths'[cur].age = 0
    BY <1>a, <1>11 DEF Adopts
  <2>2. \A s \in Requests \ {r} : pc[s] \notin InCall
    BY <1>11, HolderOnly DEF Adopts
  <2>3. OnceInv' /\ CalmInv'
    BY <1>0, <1>11, <2>1, <2>2 DEF Others, OnceInv, CalmInv, Dead, InCall
  <2>4. InUseInv'
    <3> SUFFICES ASSUME InUse' PROVE InUseInv'
      BY DEF InUseInv
    <3>1. InUse
      BY <2>1 DEF InUse, Dead
    <3>2. Dead /\ why[r] = "rejection"
      BY <1>0, <1>11, <3>1 DEF InUseInv
    <3>3. InACall' /\ Dead'
      BY <2>1, <3>2 DEF InACall, InCall, Dead
    <3>4. \A s \in Requests : loop'[s] = loop[s] /\ (Turned(s)' => Turned(s))
      BY <2>1 DEF Others, Turned
    <3> QED
      BY <1>0, <1>11, <2>1, <2>2, <3>1, <3>2, <3>3, <3>4 DEF Others, InUseInv
  <2> QED
    BY <2>3, <2>4
<1>12. ASSUME NEW r \in Requests, RefreshAdopts(r) \/ LoginAdopts(r)
       PROVE  OnceInv' /\ CalmInv' /\ InUseInv'
  <2>1. pc[r] = "login" => ~InUse
    BY <1>0 DEF InUseInv, InCall
  <2> QED
    BY <1>11, <1>12, <2>1 DEF RefreshAdopts, LoginAdopts, InCall
<1>13. ASSUME NEW r \in Requests, Breaks(r) PROVE FALSE
  BY <1>0, <1>13 DEF Breaks
<1>14. CASE Revoke
  <2>1. upsets = 0 /\ upsets' = 1 /\ accepted # {}
    BY <1>0, <1>14 DEF Revoke
  <2>2. InUse
    BY <1>0, <2>1 DEF CalmInv, InUse
  <2>3. ~InACall
    BY <1>0, <2>1, <2>2 DEF InUseInv, CalmInv, InACall
  <2>4. OnceInv' /\ CalmInv'
    BY <1>0, <1>a, <1>14, <2>1, <2>3 DEF Revoke, OnceInv, CalmInv
  <2>5. InUseInv'
    BY <1>0, <1>14, <2>2, <2>3 DEF Revoke, InUseInv, Turned, InACall
  <2> QED
    BY <2>4, <2>5
<1>15. CASE Ages
  <2>1. upsets = 0 /\ upsets' = 1
    <3>1. upsets' \in 0 .. MaxUpsets
      BY NextIInv DEF IInv, TypeOK
    <3> QED
      BY <1>0, <1>15, <3>1 DEF Ages
  <2>2. OnceInv' /\ CalmInv'
    BY <1>0, <1>a, <1>15, <2>1 DEF Ages, OnceInv, CalmInv
  <2>3. ~InUse'
    BY <1>0, <1>15, <2>1 DEF Ages, CalmInv, InUse, Dead
  <2> QED
    BY <2>2, <2>3 DEF InUseInv
<1>16. CASE UNCHANGED vars
  BY <1>0, <1>16 DEF vars, OnceInv, CalmInv, InUseInv, InUse, Dead, Turned, InACall
<1> QED
  BY <1>1, <1>2, <1>3, <1>4, <1>6, <1>8, <1>9, <1>10, <1>12, <1>13, <1>14, <1>15, <1>16,
     EveryStepHasAKind DEF Kind

LEMMA UpsetInvariance == ASSUME MaxUpsets <= 1 PROVE Spec => [](TokenInv /\ UpsetInv)
<1>1. TokenInv /\ UpsetInv /\ [Next]_vars => UpsetInv'
  BY UpsetStep DEF TokenInv
<1> QED
  BY <1>1, InitUpset, TokenInvariance, PTL DEF Spec

\* What the invariant excludes: a second create(), and a request given up.
LEMMA OneUpsetStep ==
  ASSUME IInv, UpsetInv, upsets <= 1, [Next]_vars, Undisturbed'
  PROVE  /\ cur' = cur
         /\ \A r \in Requests : pc[r] # "failed" => pc'[r] # "failed"
<1> USE DEF Connection, connVars, reqVars, srvVars, bounds
<1>0. /\ Undisturbed /\ faults = 0 /\ faults' = 0 /\ upsets \in {0, 1} /\ OnceInv
      /\ \A r \in Requests : loop[r] \in 0 .. 2
      /\ auths[cur].age \in 0 .. 2
  <2>1. auths[cur] \in Auth
    BY DEF IInv, TypeOK
  <2> QED
    BY <2>1, AuthFields, StaysUndisturbed DEF IInv, TypeOK, Undisturbed, UpsetInv
<1>1. ASSUME NEW s \in Requests, Kind(s)
      PROVE  /\ cur' = cur /\ Others(s)
             /\ pc[s] # "failed" => pc'[s] # "failed"
  <2>1. ~CreatesAgain(s) /\ ~Breaks(s)
    BY <1>0 DEF CreatesAgain, OnceInv, Breaks
  <2>2. CASE Ends(s)
    <3>1. pc'[s] # "failed"
      BY <1>0, <2>2 DEF Ends, OnceInv
    <3> QED
      BY <2>2, <3>1 DEF Ends
  <2>3. CASE Asks(s) \/ TurnsAway(s) \/ StartsRefresh(s) \/ StartsLogin(s)
    BY <2>3 DEF Asks, TurnsAway, StartsRefresh, StartsLogin, BeginsRefresh, BeginsLogin, Queues, Sends
  <2>4. CASE Refused(s) \/ TradesId(s) \/ RefreshAdopts(s) \/ LoginAdopts(s)
    BY <2>4 DEF Refused, TradesId, Returns, RefreshAdopts, LoginAdopts, Adopts, BeginsLogin,
                Queues, Sends
  <2> QED
    BY <1>1, <2>1, <2>2, <2>3, <2>4 DEF Kind
<1>2. CASE \E s \in Requests : Kind(s)
  BY <1>1, <1>2 DEF Others
<1>3. CASE Revoke \/ Ages \/ UNCHANGED vars
  BY <1>3 DEF Revoke, Ages, vars
<1> QED
  BY <1>2, <1>3, EveryStepHasAKind

\* One revocation, or one token that ages, whatever the number of requests in
\* flight: no request fails as long as every exchange is answered.
THEOREM OneUpsetFailsNobody == ASSUME MaxUpsets <= 1 PROVE Spec => NoSpuriousFailure
<1> DEFINE Survives ==
      \A r \in Requests : Undisturbed' /\ pc[r] # "failed" => pc'[r] # "failed"
<1>1. TokenInv /\ UpsetInv /\ [Next]_vars => [Survives]_vars
  <2>1. TokenInv => upsets <= 1 /\ IInv
    BY DEF TokenInv, IInv, TypeOK
  <2> QED
    BY <2>1, OneUpsetStep
<1> QED
  BY <1>1, UpsetInvariance, PTL DEF Spec, NoSpuriousFailure

=============================================================================
