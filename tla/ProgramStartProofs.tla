-------------------------- MODULE ProgramStartProofs --------------------------
(***************************************************************************)
(* Proofs about ProgramStart, for every schema, set of rules and bound.    *)
(* The rules of a program come from the cloud and nothing in the code      *)
(* keeps them from triggering one another for ever: what depends on where  *)
(* they lead supposes RulesTerminate, which holds of all rules without a   *)
(* cycle (AcyclicRulesTerminate).  That they are obeyed supposes besides   *)
(* that no two of them contradict each other (RulesAreConsistent).         *)
(***************************************************************************)
EXTENDS ProgramStart, FiniteSetTheorems, TLAPS

-----------------------------------------------------------------------------
(* Induction over numbers, and over the steps of a fold.                   *)

LEMMA NatSetInduction ==
  ASSUME NEW S, S \subseteq Nat, 0 \in S, \A n \in S : n + 1 \in S
  PROVE  S = Nat
<1> SUFFICES ASSUME Nat \ S # {} PROVE FALSE
  OBVIOUS
<1> DEFINE R == OpToRel(<, Nat)
<1>1. IsWellFoundedOn(R, Nat)
  BY NatLessThanWellFounded, Zenon
<1>2. \A m, n \in Nat : m < n => <<m, n>> \in R
  BY Zenon DEF OpToRel
<1> HIDE DEF R
<1>3. PICK n \in Nat \ S : \A m \in Nat \ S : <<m, n>> \notin R
  BY <1>1, WFMin, Nat \ S \subseteq Nat
<1>4. n # 0 /\ n - 1 \in Nat /\ n - 1 < n
  OBVIOUS
<1>5. n - 1 \in S
  BY <1>2, <1>3, <1>4
<1> QED
  BY <1>4, <1>5

\* A list of N steps: the state each leads to from the one before.
IsStep(G, S, N) == G \in [(1 .. N) \X S -> S]
IsCourse(f, G, S, c, N) ==
  f \in [0 .. N -> S] /\ f[0] = c /\ \A n \in 1 .. N : f[n] = G[<<n, f[n - 1]>>]

LEMMA StepsLead ==
  ASSUME NEW S, NEW c \in S, NEW N \in Nat, NEW G, IsStep(G, S, N)
  PROVE  \E f : IsCourse(f, G, S, c, N)
<1> USE DEF IsStep
<1> DEFINE Leads(f, m) == f[0] = c /\ \A n \in 1 .. m : f[n] = G[<<n, f[n - 1]>>]
<1> DEFINE T == {m \in Nat : m <= N => \E f \in [0 .. m -> S] : Leads(f, m)}
<1>1. 0 \in T
  <2> DEFINE f == [n \in 0 .. 0 |-> c]
  <2>1. f \in [0 .. 0 -> S] /\ Leads(f, 0)
    OBVIOUS
  <2> QED
    BY <2>1
<1>2. ASSUME NEW m \in T PROVE m + 1 \in T
  <2> SUFFICES ASSUME m + 1 <= N PROVE \E f \in [0 .. m + 1 -> S] : Leads(f, m + 1)
    OBVIOUS
  <2>1. PICK f \in [0 .. m -> S] : Leads(f, m)
    OBVIOUS
  <2> DEFINE g == [n \in 0 .. m + 1 |-> IF n <= m THEN f[n] ELSE G[<<m + 1, f[m]>>]]
  <2>2. f[m] \in S /\ <<m + 1, f[m]>> \in (1 .. N) \X S
    OBVIOUS
  <2>3. g \in [0 .. m + 1 -> S]
    BY <2>2
  <2>4. \A n \in 0 .. m : g[n] = f[n]
    OBVIOUS
  <2>5. g[m + 1] = G[<<m + 1, f[m]>>]
    OBVIOUS
  <2> HIDE DEF g
  <2>6. ASSUME NEW n \in 1 .. m + 1 PROVE g[n] = G[<<n, g[n - 1]>>]
    <3>1. n - 1 \in 0 .. m /\ g[n - 1] = f[n - 1]
      BY <2>4
    <3>2. CASE n \in 1 .. m
      BY <3>1, <3>2, <2>1, <2>4
    <3>3. CASE n = m + 1
      BY <3>1, <3>3, <2>5
    <3> QED
      BY <3>2, <3>3
  <2>7. Leads(g, m + 1)
    BY <2>1, <2>4, <2>6
  <2> QED
    BY <2>3, <2>7
<1>3. T = Nat
  <2> HIDE DEF T
  <2> QED
    BY <1>1, <1>2, NatSetInduction DEF T
<1>4. N \in T /\ N <= N
  BY <1>3
<1> QED
  BY <1>4 DEF IsCourse

LEMMA EveryStep ==
  ASSUME NEW N \in Nat, NEW T, 0 \in T, \A n \in 1 .. N : n - 1 \in T => n \in T
  PROVE  \A n \in 0 .. N : n \in T
<1> DEFINE U == {n \in Nat : n <= N => n \in T}
<1>1. 0 \in U
  OBVIOUS
<1>2. ASSUME NEW n \in U PROVE n + 1 \in U
  <2>1. n + 1 <= N => n + 1 \in 1 .. N /\ (n + 1) - 1 = n
    OBVIOUS
  <2> QED
    BY <2>1
<1>3. U = Nat
  <2> HIDE DEF U
  <2> QED
    BY <1>1, <1>2, NatSetInduction DEF U
<1> QED
  BY <1>3

-----------------------------------------------------------------------------
\* What Kept keeps: t is the list of the elements at the first n positions that are
\* in P, each by its place in s.
PlacedBy(at, t, s, P, n) ==
  /\ at \in [DOMAIN t -> (1 .. n) \cap P]
  /\ \A i \in DOMAIN t : t[i] = s[at[i]]
  /\ \A i, h \in DOMAIN t : at[i] = at[h] => i = h
  /\ \A h \in (1 .. n) \cap P : \E i \in DOMAIN t : at[i] = h

LEMMA KeptIs ==
  ASSUME NEW S, NEW s \in Seq(S), NEW P
  PROVE  \E f : /\ f[0] = <<>>
                /\ \A n \in 1 .. Len(s) : f[n] = IF n \in P THEN Append(f[n - 1], s[n]) ELSE f[n - 1]
                /\ Kept(s, P) = f[Len(s)]
<1> DEFINE N == Len(s)
<1>0. N \in Nat /\ \A n \in 1 .. N : s[n] \in S
  OBVIOUS
<1> DEFINE kept[n \in 0 .. N] ==
        IF n = 0 THEN <<>>
        ELSE IF n \in P THEN Append(kept[n - 1], s[n]) ELSE kept[n - 1]
<1> DEFINE Body(f, n) == IF n = 0 THEN <<>>
        ELSE IF n \in P THEN Append(f[n - 1], s[n]) ELSE f[n - 1]
<1>1. kept = CHOOSE f : f = [n \in 0 .. N |-> Body(f, n)]
  OBVIOUS
<1> DEFINE G == [x \in (1 .. N) \X Seq(S) |-> IF x[1] \in P THEN Append(x[2], s[x[1]]) ELSE x[2]]
<1>2. IsStep(G, Seq(S), N)
  BY <1>0 DEF IsStep
<1>3. <<>> \in Seq(S)
  OBVIOUS
<1>5. \A n \in 1 .. N : \A q \in Seq(S) : G[<<n, q>>] = IF n \in P THEN Append(q, s[n]) ELSE q
  OBVIOUS
<1> HIDE DEF G, N
<1>4. PICK g : IsCourse(g, G, Seq(S), <<>>, N)
  BY <1>0, <1>2, <1>3, StepsLead
<1>6. \A n \in 0 .. N : g[n] = Body(g, n)
  <2> TAKE n \in 0 .. N
  <2>1. n # 0 => n \in 1 .. N /\ n - 1 \in 0 .. N
    BY <1>0
  <2> QED
    BY <2>1, <1>4, <1>5 DEF IsCourse
<1>7. g = [n \in 0 .. N |-> Body(g, n)]
  <2>1. g \in [0 .. N -> Seq(S)]
    BY <1>4 DEF IsCourse
  <2> QED
    BY <1>6, <2>1
<1> HIDE DEF kept
<1>8. kept = [n \in 0 .. N |-> Body(kept, n)]
  <2> HIDE DEF Body
  <2> QED
    BY <1>1, <1>7, Zenon
<1>9. kept[0] = <<>> /\ \A n \in 1 .. N : kept[n] = IF n \in P THEN Append(kept[n - 1], s[n]) ELSE kept[n - 1]
  <2>1. 0 \in 0 .. N /\ \A n \in 1 .. N : n \in 0 .. N /\ n # 0
    BY <1>0
  <2> QED
    BY <1>8, <2>1
<1>10. Kept(s, P) = kept[N]
  BY DEF Kept, kept, N
<1> QED
  BY <1>9, <1>10 DEF N

LEMMA KeptElements ==
  ASSUME NEW S, NEW s \in Seq(S), NEW P
  PROVE  Kept(s, P) \in Seq(S) /\ \E at : PlacedBy(at, Kept(s, P), s, P, Len(s))
<1>0. Len(s) \in Nat /\ \A n \in 1 .. Len(s) : s[n] \in S
  OBVIOUS
<1>1. PICK f : /\ f[0] = <<>>
               /\ \A n \in 1 .. Len(s) : f[n] = IF n \in P THEN Append(f[n - 1], s[n]) ELSE f[n - 1]
               /\ Kept(s, P) = f[Len(s)]
  BY KeptIs
<1> DEFINE T == {n \in 0 .. Len(s) : f[n] \in Seq(S) /\ \E at : PlacedBy(at, f[n], s, P, n)}
<1>2. 0 \in T
  <2>1. PlacedBy(<<>>, <<>>, s, P, 0)
    BY (1 .. 0) = {} DEF PlacedBy
  <2>2. f[0] \in Seq(S) /\ PlacedBy(<<>>, f[0], s, P, 0) /\ 0 \in 0 .. Len(s)
    BY <1>0, <1>1, <2>1
  <2> QED
    BY <2>2
<1>3. ASSUME NEW n \in 1 .. Len(s), n - 1 \in T PROVE n \in T
  <2>1. PICK at : PlacedBy(at, f[n - 1], s, P, n - 1)
    BY <1>3
  <2>2. f[n - 1] \in Seq(S) /\ s[n] \in S /\ n \in Nat /\ n \in 0 .. Len(s)
    BY <1>0, <1>3
  <2>3. \A h \in 1 .. n : h \in 1 .. n - 1 \/ h = n
    BY <2>2
  <2>4. \A h \in 1 .. n - 1 : h \in 1 .. n /\ h # n
    BY <2>2
  <2>5. CASE n \notin P
    <3>1. f[n] = f[n - 1]
      BY <1>1, <2>5
    <3>2. PlacedBy(at, f[n], s, P, n)
      BY <2>1, <2>3, <2>4, <2>5, <3>1 DEF PlacedBy
    <3> QED
      BY <2>2, <3>1, <3>2
  <2>6. CASE n \in P
    <3> DEFINE t == f[n - 1]
    <3> DEFINE u == f[n]
    <3> DEFINE m == Len(t) + 1
    <3>1. u = Append(t, s[n])
      BY <1>1, <2>6
    <3>2. /\ u \in Seq(S) /\ DOMAIN u = 1 .. m /\ m \in Nat /\ DOMAIN t = 1 .. m - 1
          /\ \A i \in 1 .. m - 1 : u[i] = t[i]
          /\ u[m] = s[n]
      BY <2>2, <3>1
    <3>3. /\ \A i \in 1 .. m : i \in 1 .. m - 1 \/ i = m
          /\ \A i \in 1 .. m - 1 : i \in 1 .. m /\ i # m
          /\ m \in 1 .. m
      BY <2>2
    <3> HIDE DEF t, u, m
    <3> DEFINE on == [i \in DOMAIN u |-> IF i = m THEN n ELSE at[i]]
    <3>4. PlacedBy(at, t, s, P, n - 1)
      BY <2>1 DEF t
    <3>5. on[m] = n /\ \A i \in DOMAIN t : on[i] = at[i] /\ at[i] \in 1 .. n - 1 /\ at[i] \in P
      BY <3>2, <3>3, <3>4 DEF PlacedBy
    <3>6. n \in (1 .. n) \cap P
      BY <2>2, <2>6
    <3>7. on \in [DOMAIN u -> (1 .. n) \cap P]
      BY <2>4, <3>2, <3>3, <3>5, <3>6
    <3> HIDE DEF on
    <3>8. \A i \in DOMAIN u : u[i] = s[on[i]]
      BY <3>2, <3>3, <3>4, <3>5 DEF PlacedBy
    <3>9. \A i, h \in DOMAIN u : on[i] = on[h] => i = h
      <4> TAKE i, h \in DOMAIN u
      <4>1. CASE i = m \/ h = m
        BY <4>1, <2>4, <3>2, <3>3, <3>5
      <4>2. CASE i # m /\ h # m
        BY <4>2, <3>2, <3>3, <3>4, <3>5 DEF PlacedBy
      <4> QED
        BY <4>1, <4>2
    <3>10. ASSUME NEW h \in (1 .. n) \cap P PROVE \E i \in DOMAIN u : on[i] = h
      <4>1. CASE h = n
        BY <4>1, <3>2, <3>3, <3>5
      <4>2. CASE h # n
        <5>1. h \in (1 .. n - 1) \cap P
          BY <2>3, <4>2
        <5>2. PICK i \in DOMAIN t : at[i] = h
          BY <3>4, <5>1 DEF PlacedBy
        <5> QED
          BY <3>2, <3>3, <3>5, <5>2
      <4> QED
        BY <4>1, <4>2
    <3>11. PlacedBy(on, u, s, P, n)
      BY <3>7, <3>8, <3>9, <3>10 DEF PlacedBy
    <3> QED
      BY <2>2, <3>2, <3>11 DEF u
  <2> QED
    BY <2>5, <2>6
<1>4. \A n \in 0 .. Len(s) : n \in T
  <2> HIDE DEF T
  <2> QED
    BY <1>0, <1>2, <1>3, EveryStep
<1>5. Len(s) \in T
  BY <1>0, <1>4
<1> QED
  BY <1>1, <1>5
-----------------------------------------------------------------------------
(* What an assignment leads to.                                            *)

LEMMA KeptIsShorter ==
  ASSUME NEW S, NEW s \in Seq(S), NEW P
  PROVE  Len(Kept(s, P)) <= Len(s)
<1>0. Len(s) \in Nat /\ \A n \in 1 .. Len(s) : s[n] \in S
  OBVIOUS
<1>1. PICK f : /\ f[0] = <<>>
               /\ \A n \in 1 .. Len(s) : f[n] = IF n \in P THEN Append(f[n - 1], s[n]) ELSE f[n - 1]
               /\ Kept(s, P) = f[Len(s)]
  BY KeptIs
<1> DEFINE T == {n \in 0 .. Len(s) : f[n] \in Seq(S) /\ Len(f[n]) <= n}
<1>2. 0 \in T
  <2>1. <<>> \in Seq(S) /\ Len(<<>>) = 0
    OBVIOUS
  <2>2. f[0] = <<>> /\ 0 \in 0 .. Len(s)
    BY <1>0, <1>1
  <2>3. f[0] \in Seq(S) /\ Len(f[0]) <= 0
    <3>1. \A x : x = <<>> => x \in Seq(S) /\ Len(x) <= 0
      BY <2>1
    <3> QED
      BY <2>2, <3>1
  <2> QED
    BY <2>2, <2>3
<1>3. ASSUME NEW n \in 1 .. Len(s), n - 1 \in T PROVE n \in T
  <2>1. f[n - 1] \in Seq(S) /\ Len(f[n - 1]) <= n - 1 /\ s[n] \in S
    BY <1>0, <1>3
  <2>2. Append(f[n - 1], s[n]) \in Seq(S) /\ Len(Append(f[n - 1], s[n])) <= n
    BY <2>1
  <2>3. f[n - 1] \in Seq(S) /\ Len(f[n - 1]) <= n
    BY <2>1
  <2>4. f[n] = IF n \in P THEN Append(f[n - 1], s[n]) ELSE f[n - 1]
    BY <1>1
  <2>5. f[n] \in Seq(S) /\ Len(f[n]) <= n
    <3>1. CASE n \in P
      BY <2>2, <2>4, <3>1
    <3>2. CASE n \notin P
      BY <2>3, <2>4, <3>2
    <3> QED
      BY <3>1, <3>2
  <2> QED
    BY <1>0, <2>5
<1>4. \A n \in 0 .. Len(s) : n \in T
  <2> HIDE DEF T
  <2> QED
    BY <1>0, <1>2, <1>3, EveryStep
<1>5. Len(s) \in T
  BY <1>0, <1>4
<1> QED
  BY <1>1, <1>5

LEMMA SettingsAre ==
  /\ \A s \in Settings : DOMAIN s \subseteq Options /\ s \in [DOMAIN s -> Codes]
  /\ \A ks \in SUBSET Options : \A s \in [ks -> Codes] : s \in Settings
  /\ <<>> \in Settings
<1>1. <<>> \in [{} -> Codes]
  OBVIOUS
<1> QED
  BY <1>1 DEF Settings

LEMMA StatesAre ==
  /\ \A c \in States : DOMAIN c \subseteq Options /\ c \in [DOMAIN c -> [value : Codes, allowed : SUBSET Codes]]
  /\ \A ks \in SUBSET Options : \A c \in [ks -> [value : Codes, allowed : SUBSET Codes]] : c \in States
BY DEF States

LEMMA ActionIs ==
  ASSUME NEW r \in Rule, NEW given \in Settings
  PROVE  Action(r, given) \in Todo /\ Action(r, given).key = r.target
BY DEF Rule, Action, Todo

LEMMA TriggeredIs ==
  ASSUME NEW p \in Programs, NEW k, NEW v
  PROVE  /\ Triggered(p, k, v) \in Seq(Todo)
         /\ \A i \in DOMAIN Triggered(p, k, v) : RuledOn(p, Triggered(p, k, v)[i].key)
<1> DEFINE P == {i \in DOMAIN Rules[p] : k \in DOMAIN Rules[p][i].when /\ Rules[p][i].when[k] = v}
<1> DEFINE due == Kept(Rules[p], P)
<1>1. Rules[p] \in Seq(Rule)
  BY SchemaAssumption
<1> HIDE DEF P
<1>2. due \in Seq(Rule) /\ \E at : PlacedBy(at, due, Rules[p], P, Len(Rules[p]))
  BY <1>1, KeptElements
<1>3. Triggered(p, k, v) = [i \in DOMAIN due |-> Action(due[i], [j \in DOMAIN due[i].when \ {k} |-> due[i].when[j]])]
  BY DEF Triggered, P
<1> HIDE DEF due
<1>4. ASSUME NEW i \in DOMAIN due
      PROVE  /\ Action(due[i], [j \in DOMAIN due[i].when \ {k} |-> due[i].when[j]]) \in Todo
             /\ RuledOn(p, Action(due[i], [j \in DOMAIN due[i].when \ {k} |-> due[i].when[j]]).key)
  <2> DEFINE given == [j \in DOMAIN due[i].when \ {k} |-> due[i].when[j]]
  <2> DEFINE r == due[i]
  <2>a. r \in Rule
    BY <1>2
  <2> HIDE DEF r
  <2>b. r.when \in Settings
    BY <2>a DEF Rule
  <2>1. due[i] \in Rule /\ due[i].when \in Settings
    BY <2>a, <2>b DEF r
  <2>2. DOMAIN due[i].when \subseteq Options /\ due[i].when \in [DOMAIN due[i].when -> Codes]
    BY <2>1, SettingsAre
  <2>3. given \in [DOMAIN due[i].when \ {k} -> Codes]
    BY <2>2
  <2>4. given \in Settings
    BY <2>2, <2>3, SettingsAre
  <2> HIDE DEF given
  <2>5. Action(due[i], given) \in Todo /\ Action(due[i], given).key = due[i].target
    BY <2>1, <2>4, ActionIs
  <2>6. \E h \in DOMAIN Rules[p] : due[i] = Rules[p][h]
    BY <1>1, <1>2 DEF PlacedBy
  <2> QED
    BY <2>5, <2>6 DEF RuledOn, given
<1>5. due \in Seq(Rule) /\ DOMAIN due = 1 .. Len(due) /\ Len(due) \in Nat
  BY <1>2
<1>6. Triggered(p, k, v) \in [1 .. Len(due) -> Todo]
  BY <1>3, <1>4, <1>5
<1>7. Triggered(p, k, v) \in Seq(Todo)
  BY <1>5, <1>6
<1> QED
  BY <1>3, <1>4, <1>7

LEMMA AllowedIs ==
  ASSUME NEW p \in Programs, NEW c \in States, NEW a \in Todo, a.key \in DOMAIN c
  PROVE  Allowed(p, c, a) \in SUBSET Codes
<1>1. a.value \in Codes /\ a.allow \in SUBSET Codes
  BY DEF Todo
<1>2. c[a.key].allowed \in SUBSET Codes
  BY StatesAre
<1>3. \A X : Between(X) \in SUBSET Codes
  BY DEF Between
<1> QED
  BY <1>1, <1>2, <1>3 DEF Allowed

LEMMA AfterIs ==
  ASSUME NEW p \in Programs, NEW c \in States, NEW a \in Todo, a.key \in DOMAIN c
  PROVE  /\ After(p, c, a) \in States /\ DOMAIN After(p, c, a) = DOMAIN c
         /\ \A k \in DOMAIN c \ {a.key} : After(p, c, a)[k] = c[k]
         /\ Taken(p, c, a) => After(p, c, a)[a.key].value = a.value
<1>1. DOMAIN c \subseteq Options /\ c \in [DOMAIN c -> [value : Codes, allowed : SUBSET Codes]]
  BY StatesAre
<1> DEFINE new == [value   |-> IF Taken(p, c, a) THEN a.value ELSE c[a.key].value,
                   allowed |-> Allowed(p, c, a)]
<1>2. new \in [value : Codes, allowed : SUBSET Codes]
  BY <1>1, AllowedIs DEF Todo
<1>3. After(p, c, a) = [c EXCEPT ![a.key] = new]
  BY DEF After
<1>4. Taken(p, c, a) => new.value = a.value
  OBVIOUS
<1> HIDE DEF new
<1>5. After(p, c, a) \in [DOMAIN c -> [value : Codes, allowed : SUBSET Codes]]
  BY <1>1, <1>2, <1>3
<1>6. After(p, c, a) \in States
  BY <1>1, <1>5, StatesAre
<1> QED
  BY <1>1, <1>3, <1>4, <1>6

LEMMA OnwardsIs ==
  ASSUME NEW w \in Work, w.todo # <<>>
  PROVE  /\ Head(w.todo) \in Todo
         /\ Onwards(w) \in Work /\ Onwards(w).program = w.program
         /\ DOMAIN Onwards(w).state = DOMAIN w.state
         /\ Refused(w) => /\ After(w.program, w.state, Head(w.todo)) \in States
                          /\ DOMAIN After(w.program, w.state, Head(w.todo)) = DOMAIN w.state
<1> DEFINE a == Head(w.todo)
<1> DEFINE p == w.program
<1>1. /\ p \in Programs /\ w.state \in States /\ w.todo \in Seq(Todo)
      /\ w = [program |-> w.program, state |-> w.state, todo |-> w.todo]
  BY DEF Work
<1>2. a \in Todo /\ Tail(w.todo) \in Seq(Todo)
  BY <1>1
<1> HIDE DEF a, p
<1>3. CASE Applies(p, w.state, a)
  <2>1. a.key \in DOMAIN w.state
    BY <1>3 DEF Applies
  <2>2. After(p, w.state, a) \in States /\ DOMAIN After(p, w.state, a) = DOMAIN w.state
    BY <1>1, <1>2, <2>1, AfterIs
  <2>3. Triggered(p, a.key, a.value) \in Seq(Todo)
    BY <1>1, TriggeredIs
  <2>4. Triggered(p, a.key, a.value) \o Tail(w.todo) \in Seq(Todo)
    BY <1>2, <2>3
  <2>5. Onwards(w) = [program |-> p, state |-> After(p, w.state, a),
                      todo |-> Triggered(p, a.key, a.value) \o Tail(w.todo)]
    BY <1>3 DEF Onwards, a, p
  <2> QED
    BY <1>1, <1>2, <2>2, <2>4, <2>5 DEF Work, a, p
<1>4. CASE ~Applies(p, w.state, a)
  <2>1. Onwards(w) = [program |-> w.program, state |-> w.state, todo |-> Tail(w.todo)]
    BY <1>1, <1>4 DEF Onwards, a, p
  <2>2. ~Refused(w)
    BY <1>4 DEF Refused, a, p
  <2> QED
    BY <1>1, <1>2, <2>1, <2>2 DEF Work, a, p
<1> QED
  BY <1>3, <1>4
-----------------------------------------------------------------------------
(* What Outcome computes.                                                  *)

\* The rules end: each assignment leads to work of a lower rank.
Goes(w) == w.todo # <<>> /\ ~Refused(w)
RankedBy(rank) == \A w \in Work : rank[w] \in Nat /\ (Goes(w) => rank[Onwards(w)] < rank[w])
RulesTerminate == \E rank : RankedBy(rank)

OutcomeAt(f, w) ==
  IF w.todo = <<>> THEN [ok |-> TRUE, state |-> w.state]
  ELSE IF Refused(w) THEN [ok |-> FALSE, state |-> After(w.program, w.state, Head(w.todo))]
  ELSE f[Onwards(w)]

\* f is right about the work of a rank below n.
Below(rank, n) == {w \in Work : rank[w] < n}
IsOutcome(f, rank, n) == f = [w \in Below(rank, n) |-> OutcomeAt(f, w)]

LEMMA GoesBelow ==
  ASSUME NEW rank, RankedBy(rank), NEW w \in Work, Goes(w), NEW n \in Nat, rank[w] < n + 1
  PROVE  Onwards(w) \in Below(rank, n)
<1>1. Onwards(w) \in Work
  BY OnwardsIs DEF Goes
<1>2. rank[w] \in Nat /\ rank[Onwards(w)] \in Nat /\ rank[Onwards(w)] < rank[w]
  BY <1>1 DEF RankedBy
<1> QED
  BY <1>1, <1>2 DEF Below

LEMMA OutcomesAgree ==
  ASSUME NEW rank, RankedBy(rank), NEW w \in Work,
         NEW f, NEW m \in Nat, IsOutcome(f, rank, m), rank[w] < m,
         NEW g, NEW n \in Nat, IsOutcome(g, rank, n), rank[w] < n
  PROVE  f[w] = g[w]
<1> DEFINE T == {i \in Nat : \A x \in Below(rank, i) : rank[x] < m /\ rank[x] < n => f[x] = g[x]}
<1>1. 0 \in T
  BY DEF Below, RankedBy
<1>2. ASSUME NEW i \in T PROVE i + 1 \in T
  <2> SUFFICES ASSUME NEW x \in Below(rank, i + 1), rank[x] < m, rank[x] < n PROVE f[x] = g[x]
    OBVIOUS
  <2>1. x \in Work /\ rank[x] \in Nat /\ rank[x] < i + 1 /\ x \in Below(rank, m) /\ x \in Below(rank, n)
    BY DEF Below, RankedBy
  <2>2. f[x] = OutcomeAt(f, x) /\ g[x] = OutcomeAt(g, x)
    BY <2>1 DEF IsOutcome
  <2>3. CASE Goes(x)
    <3>1. Onwards(x) \in Below(rank, i) /\ Onwards(x) \in Below(rank, rank[x])
      BY <2>1, <2>3, GoesBelow
    <3>2. rank[Onwards(x)] < m /\ rank[Onwards(x)] < n
      BY <2>1, <3>1 DEF Below, RankedBy
    <3>3. f[Onwards(x)] = g[Onwards(x)]
      BY <3>1, <3>2
    <3> QED
      BY <2>2, <2>3, <3>3 DEF OutcomeAt, Goes
  <2>4. CASE ~Goes(x)
    BY <2>2, <2>4 DEF OutcomeAt, Goes
  <2> QED
    BY <2>3, <2>4
<1>3. T = Nat
  <2> HIDE DEF T
  <2> QED
    BY <1>1, <1>2, NatSetInduction DEF T
<1>4. rank[w] + 1 \in T /\ w \in Below(rank, rank[w] + 1)
  BY <1>3 DEF Below, RankedBy
<1> QED
  BY <1>4

LEMMA OutcomeExists ==
  ASSUME NEW rank, RankedBy(rank), NEW n \in Nat
  PROVE  \E f : IsOutcome(f, rank, n)
<1> DEFINE T == {i \in Nat : \E f : IsOutcome(f, rank, i)}
<1>1. 0 \in T
  <2>1. Below(rank, 0) = {}
    BY DEF Below, RankedBy
  <2>2. IsOutcome([w \in {} |-> 0], rank, 0)
    BY <2>1 DEF IsOutcome
  <2> QED
    BY <2>2
<1>2. ASSUME NEW i \in T PROVE i + 1 \in T
  <2>1. PICK f : IsOutcome(f, rank, i)
    OBVIOUS
  <2> DEFINE g == [w \in Below(rank, i + 1) |-> OutcomeAt(f, w)]
  <2>2. ASSUME NEW w \in Below(rank, i + 1) PROVE OutcomeAt(g, w) = OutcomeAt(f, w)
    <3>1. CASE Goes(w)
      <4>1. w \in Work /\ rank[w] < i + 1
        BY DEF Below
      <4>2. Onwards(w) \in Below(rank, i)
        BY <3>1, <4>1, GoesBelow
      <4>3. Onwards(w) \in Below(rank, i + 1)
        BY <4>2 DEF Below, RankedBy
      <4>4. f[Onwards(w)] = OutcomeAt(f, Onwards(w))
        BY <2>1, <4>2 DEF IsOutcome
      <4> QED
        BY <4>3, <4>4 DEF OutcomeAt
    <3>2. CASE ~Goes(w)
      BY <3>2 DEF OutcomeAt, Goes
    <3> QED
      BY <3>1, <3>2
  <2>3. g = [w \in Below(rank, i + 1) |-> OutcomeAt(g, w)]
    <3> HIDE DEF g
    <3>1. g = [w \in Below(rank, i + 1) |-> OutcomeAt(f, w)]
      BY DEF g
    <3> QED
      BY <2>2, <3>1
  <2>4. IsOutcome(g, rank, i + 1)
    BY <2>3 DEF IsOutcome
  <2> QED
    BY <2>4
<1>3. T = Nat
  <2> HIDE DEF T
  <2> QED
    BY <1>1, <1>2, NatSetInduction DEF T
<1> QED
  BY <1>3

LEMMA OutcomeIs ==
  ASSUME RulesTerminate, NEW w \in Work
  PROVE  Outcome[w] = OutcomeAt(Outcome, w)
<1>1. PICK rank : RankedBy(rank)
  BY DEF RulesTerminate
<1> DEFINE Part(n) == CHOOSE f : IsOutcome(f, rank, n)
<1>2. \A n \in Nat : IsOutcome(Part(n), rank, n)
  BY <1>1, OutcomeExists
<1> HIDE DEF Part
<1> DEFINE F == [x \in Work |-> Part(rank[x] + 1)[x]]
<1>3. ASSUME NEW x \in Work PROVE F[x] = OutcomeAt(F, x)
  <2>1. rank[x] \in Nat /\ rank[x] + 1 \in Nat /\ x \in Below(rank, rank[x] + 1)
    BY <1>1 DEF RankedBy, Below
  <2>2. F[x] = OutcomeAt(Part(rank[x] + 1), x)
    BY <1>2, <2>1 DEF IsOutcome
  <2>3. CASE Goes(x)
    <3>1. Onwards(x) \in Work /\ rank[Onwards(x)] \in Nat /\ rank[Onwards(x)] < rank[x]
      BY <1>1, <2>1, <2>3, GoesBelow DEF Below, RankedBy
    <3>2. rank[Onwards(x)] < rank[x] + 1 /\ rank[Onwards(x)] < rank[Onwards(x)] + 1 /\ rank[Onwards(x)] + 1 \in Nat
      BY <2>1, <3>1
    <3>3. Part(rank[x] + 1)[Onwards(x)] = Part(rank[Onwards(x)] + 1)[Onwards(x)]
      BY <1>1, <1>2, <2>1, <3>1, <3>2, OutcomesAgree
    <3>4. F[Onwards(x)] = Part(rank[Onwards(x)] + 1)[Onwards(x)]
      BY <3>1
    <3> QED
      BY <2>2, <2>3, <3>3, <3>4 DEF OutcomeAt, Goes
  <2>4. CASE ~Goes(x)
    BY <2>2, <2>4 DEF OutcomeAt, Goes
  <2> QED
    BY <2>3, <2>4
<1> DEFINE Body(f, x) == IF x.todo = <<>> THEN [ok |-> TRUE, state |-> x.state]
        ELSE IF Refused(x) THEN [ok |-> FALSE, state |-> After(x.program, x.state, Head(x.todo))]
        ELSE f[Onwards(x)]
<1>4. F = [x \in Work |-> Body(F, x)]
  <2> DEFINE H == F
  <2>1. H = [x \in Work |-> Part(rank[x] + 1)[x]]
    OBVIOUS
  <2>2. \A x \in Work : H[x] = Body(H, x)
    BY <1>3 DEF OutcomeAt
  <2> HIDE DEF H
  <2>3. H = [x \in Work |-> Body(H, x)]
    BY <2>1, <2>2
  <2> QED
    BY <2>3 DEF H
<1>5. Outcome = CHOOSE f : f = [x \in Work |-> Body(f, x)]
  BY DEF Outcome
<1> HIDE DEF Body, F
<1>6. Outcome = [x \in Work |-> Body(Outcome, x)]
  BY <1>4, <1>5, Zenon
<1>7. Outcome[w] = Body(Outcome, w)
  BY <1>6
<1> QED
  BY <1>7 DEF Body, OutcomeAt

\* Induction over what Outcome goes through.
LEMMA WorkInduction ==
  ASSUME RulesTerminate, NEW T, \A w \in Work : (Goes(w) => Onwards(w) \in T) => w \in T
  PROVE  \A w \in Work : w \in T
<1>1. PICK rank : RankedBy(rank)
  BY DEF RulesTerminate
<1> DEFINE N == {n \in Nat : \A w \in Below(rank, n) : w \in T}
<1>2. 0 \in N
  BY <1>1 DEF Below, RankedBy
<1>3. ASSUME NEW n \in N PROVE n + 1 \in N
  <2> SUFFICES ASSUME NEW w \in Below(rank, n + 1) PROVE w \in T
    OBVIOUS
  <2>1. w \in Work /\ rank[w] < n + 1
    BY DEF Below
  <2>2. Goes(w) => Onwards(w) \in T
    BY <1>1, <2>1, GoesBelow
  <2> QED
    BY <2>1, <2>2
<1>4. N = Nat
  <2> HIDE DEF N
  <2> QED
    BY <1>2, <1>3, NatSetInduction DEF N
<1> TAKE w \in Work
<1>5. rank[w] + 1 \in N /\ w \in Below(rank, rank[w] + 1)
  BY <1>1, <1>4 DEF Below, RankedBy
<1> QED
  BY <1>5

\* What a list of assignments can make of the parameters c.
IsResult(r, c) ==
  r.ok \in BOOLEAN /\ r.state \in States /\ DOMAIN r.state = DOMAIN c

LEMMA OutcomeType ==
  ASSUME RulesTerminate, NEW w \in Work
  PROVE  IsResult(Outcome[w], w.state)
<1> DEFINE T == {x \in Work : IsResult(Outcome[x], x.state)}
<1>1. ASSUME NEW x \in Work, Goes(x) => Onwards(x) \in T PROVE x \in T
  <2>1. Outcome[x] = OutcomeAt(Outcome, x)
    BY OutcomeIs
  <2>2. CASE Goes(x)
    <3>1. DOMAIN Onwards(x).state = DOMAIN x.state
      BY <2>2, OnwardsIs DEF Goes
    <3>2. Outcome[x] = Outcome[Onwards(x)]
      BY <2>1, <2>2 DEF OutcomeAt, Goes
    <3> QED
      BY <1>1, <2>2, <3>1, <3>2 DEF IsResult
  <2>3. CASE x.todo = <<>>
    <3>1. Outcome[x] = [ok |-> TRUE, state |-> x.state]
      BY <2>1, <2>3 DEF OutcomeAt
    <3>2. x.state \in States
      BY DEF Work
    <3>3. Outcome[x].ok = TRUE /\ Outcome[x].state = x.state
      BY <3>1
    <3>4. IsResult(Outcome[x], x.state)
      BY <3>2, <3>3 DEF IsResult
    <3> QED
      BY <3>4
  <2>4. CASE x.todo # <<>> /\ Refused(x)
    <3>1. Outcome[x] = [ok |-> FALSE, state |-> After(x.program, x.state, Head(x.todo))]
      BY <2>1, <2>4 DEF OutcomeAt
    <3>2. Outcome[x].ok = FALSE /\ Outcome[x].state = After(x.program, x.state, Head(x.todo))
      BY <3>1
    <3>3. Outcome[x].state \in States /\ DOMAIN Outcome[x].state = DOMAIN x.state
      BY <2>4, <3>2, OnwardsIs
    <3>4. IsResult(Outcome[x], x.state)
      BY <3>2, <3>3 DEF IsResult
    <3> QED
      BY <3>4
  <2> QED
    BY <2>2, <2>3, <2>4 DEF Goes
<1> HIDE DEF T
<1>2. w \in T
  BY <1>1, WorkInduction
<1> QED
  BY <1>2 DEF T

-----------------------------------------------------------------------------
(* Rules that have no cycle end.                                           *)

\* What the assignments of a list weigh together, one of key k weighing g[k].
IsSum(f, g, t) ==
  /\ f \in [0 .. Len(t) -> Nat] /\ f[0] = 0
  /\ \A n \in 1 .. Len(t) : f[n] = f[n - 1] + g[t[n].key]
Total(g, t) == (CHOOSE f : IsSum(f, g, t))[Len(t)]

LEMMA TotalIs ==
  ASSUME NEW g \in [Options -> Nat], NEW t \in Seq(Todo)
  PROVE  /\ Total(g, t) \in Nat
         /\ \A f : IsSum(f, g, t) => Total(g, t) = f[Len(t)]
         /\ \E f : IsSum(f, g, t)
<1> DEFINE N == Len(t)
<1>0. N \in Nat /\ \A n \in 1 .. N : t[n] \in Todo
  OBVIOUS
<1>1. \A n \in 1 .. N : g[t[n].key] \in Nat
  BY <1>0 DEF Todo
<1> DEFINE G == [x \in (1 .. N) \X Nat |-> x[2] + g[t[x[1]].key]]
<1>2. IsStep(G, Nat, N)
  BY <1>1 DEF IsStep
<1>3. \A n \in 1 .. N : \A q \in Nat : G[<<n, q>>] = q + g[t[n].key]
  OBVIOUS
<1> HIDE DEF G
<1>4. PICK e : IsCourse(e, G, Nat, 0, N)
  <2> HIDE DEF N
  <2> QED
    BY <1>0, <1>2, StepsLead
<1>5. IsSum(e, g, t)
  <2>1. e \in [0 .. N -> Nat] /\ e[0] = 0 /\ \A n \in 1 .. N : e[n] = G[<<n, e[n - 1]>>]
    BY <1>4 DEF IsCourse
  <2>2. \A n \in 1 .. N : e[n - 1] \in Nat
    <3> HIDE DEF N
    <3> QED
      BY <1>0, <2>1
  <2> QED
    BY <1>3, <2>1, <2>2 DEF IsSum
<1>6. ASSUME NEW f, NEW h, IsSum(f, g, t), IsSum(h, g, t) PROVE f[N] = h[N]
  <2> DEFINE T == {n \in 0 .. N : f[n] = h[n]}
  <2>1. 0 \in T
    BY <1>0, <1>6 DEF IsSum
  <2>2. \A n \in 1 .. N : n - 1 \in T => n \in T
    BY <1>0, <1>6 DEF IsSum
  <2>3. \A n \in 0 .. N : n \in T
    <3> HIDE DEF T, N
    <3> QED
      BY <1>0, <2>1, <2>2, EveryStep
  <2> QED
    BY <1>0, <2>3
<1> DEFINE C == CHOOSE f : IsSum(f, g, t)
<1>7. IsSum(C, g, t)
  <2> HIDE DEF IsSum
  <2> QED
    BY <1>5
<1>8. Total(g, t) = C[N]
  BY DEF Total
<1> HIDE DEF C
<1>9. C[N] \in Nat
  BY <1>0, <1>7 DEF IsSum
<1> QED
  BY <1>5, <1>6, <1>7, <1>8, <1>9

LEMMA TotalOfBoth ==
  ASSUME NEW g \in [Options -> Nat], NEW u \in Seq(Todo), NEW v \in Seq(Todo)
  PROVE  Total(g, u \o v) = Total(g, u) + Total(g, v)
<1>1. PICK f : IsSum(f, g, u)
  BY TotalIs
<1>2. PICK h : IsSum(h, g, v)
  BY TotalIs
<1>3. Len(u) \in Nat /\ Len(v) \in Nat /\ u \o v \in Seq(Todo) /\ Len(u \o v) = Len(u) + Len(v)
  OBVIOUS
<1> DEFINE e == [n \in 0 .. Len(u) + Len(v) |-> IF n <= Len(u) THEN f[n] ELSE f[Len(u)] + h[n - Len(u)]]
<1>4. /\ f \in [0 .. Len(u) -> Nat] /\ f[0] = 0 /\ h \in [0 .. Len(v) -> Nat] /\ h[0] = 0
      /\ \A n \in 1 .. Len(u) : f[n] = f[n - 1] + g[u[n].key]
      /\ \A n \in 1 .. Len(v) : h[n] = h[n - 1] + g[v[n].key]
  BY <1>1, <1>2 DEF IsSum
<1>5. e \in [0 .. Len(u) + Len(v) -> Nat]
  <2>1. ASSUME NEW n \in 0 .. Len(u) + Len(v)
        PROVE  (IF n <= Len(u) THEN f[n] ELSE f[Len(u)] + h[n - Len(u)]) \in Nat
    <3>1. Len(u) \in 0 .. Len(u) /\ f[Len(u)] \in Nat
      <4>1. Len(u) \in 0 .. Len(u)
        BY <1>3
      <4>2. f \in [0 .. Len(u) -> Nat]
        BY <1>4
      <4> QED
        BY <4>1, <4>2
    <3>2. n <= Len(u) => f[n] \in Nat
      BY <1>3, <1>4, <2>1
    <3>3. ~(n <= Len(u)) => h[n - Len(u)] \in Nat
      <4>1. ~(n <= Len(u)) => n - Len(u) \in 0 .. Len(v)
        BY <1>3, <2>1
      <4> QED
        BY <1>4, <4>1
    <3> QED
      BY <3>1, <3>2, <3>3
  <2> QED
    BY <2>1
<1>6. e[0] = 0 /\ e[Len(u) + Len(v)] = f[Len(u)] + h[Len(v)]
  <2>1. e[0] = f[0]
    BY <1>3
  <2>2. CASE Len(v) = 0
    <3>1. e[Len(u) + Len(v)] = f[Len(u)] /\ f[Len(u)] \in Nat
      BY <1>3, <1>4, <2>2
    <3> QED
      BY <1>4, <2>1, <2>2, <3>1
  <2>3. CASE Len(v) # 0
    <3>1. (Len(u) + Len(v)) - Len(u) = Len(v) /\ ~(Len(u) + Len(v) <= Len(u))
          /\ Len(u) + Len(v) \in 0 .. Len(u) + Len(v)
      BY <1>3, <2>3
    <3> QED
      BY <1>4, <2>1, <3>1
  <2> QED
    BY <2>2, <2>3
<1>7. ASSUME NEW n \in 1 .. Len(u) + Len(v) PROVE e[n] = e[n - 1] + g[(u \o v)[n].key]
  <2>1. CASE n <= Len(u)
    <3>1. (u \o v)[n] = u[n] /\ n \in 1 .. Len(u) /\ n \in 0 .. Len(u) + Len(v)
          /\ n - 1 \in 0 .. Len(u) + Len(v) /\ n - 1 <= Len(u)
      BY <1>3, <2>1
    <3> QED
      BY <1>4, <2>1, <3>1
  <2>2. CASE ~(n <= Len(u))
    <3> DEFINE m == n - Len(u)
    <3>1. (u \o v)[n] = v[m] /\ m \in 1 .. Len(v) /\ n \in 0 .. Len(u) + Len(v)
          /\ n - 1 \in 0 .. Len(u) + Len(v) /\ (n - 1) - Len(u) = m - 1
      BY <1>3, <2>2
    <3>2. e[n] = f[Len(u)] + h[m]
      BY <2>2, <3>1
    <3>3. e[n - 1] = f[Len(u)] + h[m - 1]
      <4>1. CASE n - 1 = Len(u)
        <5>1. e[n - 1] = f[Len(u)]
          <6>1. n - 1 \in 0 .. Len(u) + Len(v)
            BY <3>1
          <6>2. e[n - 1] = IF n - 1 <= Len(u) THEN f[n - 1] ELSE f[Len(u)] + h[n - 1 - Len(u)]
            BY <6>1
          <6>3. n - 1 <= Len(u)
            BY <1>3, <4>1
          <6> QED
            BY <4>1, <6>2, <6>3
        <5>2. m - 1 = 0 /\ Len(u) \in 0 .. Len(u)
          BY <1>3, <3>1, <4>1
        <5>3. f[Len(u)] \in Nat /\ h[0] = 0
          <6>1. f \in [0 .. Len(u) -> Nat] /\ h[0] = 0
            BY <1>4
          <6> QED
            BY <5>2, <6>1
        <5> HIDE DEF m
        <5> QED
          BY <5>1, <5>2, <5>3
      <4>2. CASE n - 1 # Len(u)
        BY <1>3, <2>2, <3>1, <4>2
      <4> QED
        BY <4>1, <4>2
    <3>4. g[v[m].key] \in Nat /\ h[m - 1] \in Nat /\ f[Len(u)] \in Nat
      <4>1. v[m] \in Todo /\ m - 1 \in 0 .. Len(v) /\ Len(u) \in 0 .. Len(u)
        BY <1>3, <3>1
      <4> QED
        BY <1>4, <4>1 DEF Todo
    <3> HIDE DEF e, m
    <3>5. h[m] = h[m - 1] + g[v[m].key]
      BY <1>4, <3>1
    <3> QED
      BY <3>1, <3>2, <3>3, <3>4, <3>5
  <2> QED
    BY <2>1, <2>2
<1> HIDE DEF e
<1>8. IsSum(e, g, u \o v)
  BY <1>3, <1>5, <1>6, <1>7 DEF IsSum
<1>9. Total(g, u \o v) = e[Len(u \o v)] /\ Total(g, u) = f[Len(u)] /\ Total(g, v) = h[Len(v)]
  BY <1>1, <1>2, <1>3, <1>8, TotalIs
<1> QED
  BY <1>3, <1>6, <1>9

LEMMA TotalOfHead ==
  ASSUME NEW g \in [Options -> Nat], NEW t \in Seq(Todo), t # <<>>
  PROVE  Total(g, t) = g[Head(t).key] + Total(g, Tail(t))
<1> DEFINE a == Head(t)
<1>1. a \in Todo /\ <<a>> \in Seq(Todo) /\ Tail(t) \in Seq(Todo) /\ t = <<a>> \o Tail(t)
  OBVIOUS
<1> HIDE DEF a
<1>2. g[a.key] \in Nat
  BY <1>1 DEF Todo
<1> DEFINE f == [n \in 0 .. 1 |-> IF n = 0 THEN 0 ELSE g[a.key]]
<1>3. IsSum(f, g, <<a>>)
  BY <1>2 DEF IsSum
<1>4. Total(g, <<a>>) = g[a.key]
  <2>1. Total(g, <<a>>) = f[Len(<<a>>)]
    <3> HIDE DEF f
    <3> QED
      BY <1>1, <1>3, TotalIs
  <2> QED
    BY <2>1
<1>5. Total(g, <<a>> \o Tail(t)) = Total(g, <<a>>) + Total(g, Tail(t))
  BY <1>1, TotalOfBoth
<1> QED
  BY <1>1, <1>4, <1>5 DEF a

LEMMA TotalAtMost ==
  ASSUME NEW g \in [Options -> Nat], NEW t \in Seq(Todo), NEW b \in Nat,
         \A i \in DOMAIN t : g[t[i].key] <= b
  PROVE  Total(g, t) <= Len(t) * b
<1>1. PICK f : IsSum(f, g, t)
  BY TotalIs
<1> DEFINE N == Len(t)
<1>2. /\ N \in Nat /\ f \in [0 .. N -> Nat] /\ f[0] = 0
      /\ \A n \in 1 .. N : f[n] = f[n - 1] + g[t[n].key] /\ g[t[n].key] <= b /\ g[t[n].key] \in Nat
  <2>1. \A n \in 1 .. N : n \in DOMAIN t /\ t[n] \in Todo /\ t[n].key \in Options
    <3>1. \A n \in 1 .. N : n \in DOMAIN t /\ t[n] \in Todo
      OBVIOUS
    <3>2. \A a \in Todo : a.key \in Options
      BY DEF Todo
    <3> QED
      BY <3>1, <3>2
  <2>2. \A n \in 1 .. N : g[t[n].key] <= b /\ g[t[n].key] \in Nat
    BY <2>1
  <2>3. N \in Nat
    OBVIOUS
  <2> QED
    BY <1>1, <2>2, <2>3 DEF IsSum
<1>3. Total(g, t) = f[N]
  BY <1>1, TotalIs
<1> HIDE DEF N
<1> DEFINE T == {n \in 0 .. N : f[n] <= n * b}
<1>4. 0 \in T
  BY <1>2
<1>5. ASSUME NEW n \in 1 .. N, n - 1 \in T PROVE n \in T
  <2>1. n \in Nat /\ n - 1 \in 0 .. N /\ f[n - 1] \in Nat /\ f[n] \in Nat
    BY <1>2
  <2>2. f[n - 1] <= (n - 1) * b /\ f[n] = f[n - 1] + g[t[n].key] /\ g[t[n].key] <= b /\ g[t[n].key] \in Nat
    BY <1>2, <1>5
  <2>3. (n - 1) * b + b = n * b
    BY <2>1
  <2>4. (n - 1) * b \in Int /\ n * b \in Int
    BY <2>1
  <2>5. f[n] <= n * b
    BY <2>1, <2>2, <2>3, <2>4
  <2> QED
    BY <1>2, <2>5
<1>6. \A n \in 0 .. N : n \in T
  <2> HIDE DEF T
  <2> QED
    BY <1>2, <1>4, <1>5, EveryStep
<1>7. N \in T
  BY <1>2, <1>6
<1> QED
  BY <1>3, <1>7 DEF N

\* What an assignment weighs, by the depth of its option: more than M of the depth below.
IsCost(W, M, N) ==
  /\ W \in [0 .. N -> Nat] /\ W[0] = 1
  /\ \A n \in 1 .. N : W[n] = (M + 1) * W[n - 1]

LEMMA CostIs ==
  ASSUME NEW M \in Nat, NEW N \in Nat
  PROVE  \E W : IsCost(W, M, N) /\ \A n \in 0 .. N : W[n] >= 1 /\ \A m \in 0 .. n : W[m] <= W[n]
<1> DEFINE G == [x \in (1 .. N) \X Nat |-> (M + 1) * x[2]]
<1>1. IsStep(G, Nat, N)
  <2>1. \A x \in (1 .. N) \X Nat : (M + 1) * x[2] \in Nat
    OBVIOUS
  <2> QED
    BY <2>1 DEF IsStep
<1>2. \A n \in 1 .. N : \A q \in Nat : G[<<n, q>>] = (M + 1) * q
  OBVIOUS
<1> HIDE DEF G
<1>3. PICK W : IsCourse(W, G, Nat, 1, N)
  BY <1>1, StepsLead
<1>4. W \in [0 .. N -> Nat] /\ W[0] = 1 /\ \A n \in 1 .. N : W[n] = (M + 1) * W[n - 1]
  <2>1. W \in [0 .. N -> Nat] /\ W[0] = 1 /\ \A n \in 1 .. N : W[n] = G[<<n, W[n - 1]>>]
    BY <1>3 DEF IsCourse
  <2>2. \A n \in 1 .. N : W[n - 1] \in Nat
    BY <2>1
  <2> QED
    BY <1>2, <2>1, <2>2
<1> DEFINE T == {n \in 0 .. N : W[n] >= 1 /\ \A m \in 0 .. n : W[m] <= W[n]}
<1>5. 0 \in T
  BY <1>4
<1>6. ASSUME NEW n \in 1 .. N, n - 1 \in T PROVE n \in T
  <2>1. W[n - 1] >= 1 /\ \A m \in 0 .. n - 1 : W[m] <= W[n - 1] /\ W[m] \in Nat
    BY <1>4, <1>6
  <2>2. W[n - 1] \in Nat /\ W[n] \in Nat /\ W[n] = (M + 1) * W[n - 1]
    BY <1>4
  <2>3. W[n - 1] <= (M + 1) * W[n - 1]
    <3> DEFINE x == W[n - 1]
    <3>1. x \in Nat /\ M * x \in Nat /\ (M + 1) * x = M * x + x
      BY <2>2
    <3> HIDE DEF x
    <3>2. x <= (M + 1) * x
      BY <3>1
    <3> QED
      BY <3>2 DEF x
  <2>4. \A m \in 0 .. n : m = n \/ m \in 0 .. n - 1
    OBVIOUS
  <2>5. W[n] >= 1 /\ W[n - 1] <= W[n]
    BY <2>1, <2>2, <2>3
  <2>6. \A m \in 0 .. n : W[m] <= W[n]
    BY <2>1, <2>2, <2>4, <2>5
  <2> QED
    BY <2>5, <2>6
<1>7. \A n \in 0 .. N : n \in T
  <2> HIDE DEF T
  <2> QED
    BY <1>5, <1>6, EveryStep
<1> QED
  BY <1>4, <1>7 DEF IsCost

\* g weighs each assignment more than all that it triggers.
Lightens(g, p) ==
  /\ g \in [Options -> Nat]
  /\ \A k \in Options : \A v \in Codes : Total(g, Triggered(p, k, v)) < g[k]

LEMMA TriggeredByRules ==
  ASSUME NEW p \in Programs, NEW k, NEW v
  PROVE  /\ Len(Triggered(p, k, v)) <= Len(Rules[p]) /\ Len(Rules[p]) \in Nat
         /\ \A i \in DOMAIN Triggered(p, k, v) :
              \E h \in DOMAIN Rules[p] :
                k \in DOMAIN Rules[p][h].when /\ Triggered(p, k, v)[i].key = Rules[p][h].target
<1> DEFINE P == {i \in DOMAIN Rules[p] : k \in DOMAIN Rules[p][i].when /\ Rules[p][i].when[k] = v}
<1> DEFINE due == Kept(Rules[p], P)
<1>1. Rules[p] \in Seq(Rule)
  BY SchemaAssumption
<1>2. \A h \in P : h \in DOMAIN Rules[p] /\ k \in DOMAIN Rules[p][h].when
  OBVIOUS
<1>3. Triggered(p, k, v) = [i \in DOMAIN due |-> Action(due[i], [j \in DOMAIN due[i].when \ {k} |-> due[i].when[j]])]
  BY DEF Triggered
<1> HIDE DEF P
<1>4. due \in Seq(Rule) /\ (\E at : PlacedBy(at, due, Rules[p], P, Len(Rules[p]))) /\ Len(due) <= Len(Rules[p])
  BY <1>1, KeptElements, KeptIsShorter
<1> HIDE DEF due
<1>5. DOMAIN due = 1 .. Len(due) /\ Len(due) \in Nat /\ Len(Rules[p]) \in Nat
  BY <1>1, <1>4
<1>6. DOMAIN Triggered(p, k, v) = DOMAIN due /\ Len(Triggered(p, k, v)) \in Nat
  <2>1. Triggered(p, k, v) \in Seq(Todo)
    BY TriggeredIs
  <2> QED
    BY <1>3, <2>1
<1>7. Len(Triggered(p, k, v)) = Len(due)
  <2>1. DOMAIN Triggered(p, k, v) = 1 .. Len(Triggered(p, k, v))
    <3>1. Triggered(p, k, v) \in Seq(Todo)
      BY TriggeredIs
    <3> QED
      BY <3>1
  <2> DEFINE m == Len(Triggered(p, k, v))
  <2>2. 1 .. m = 1 .. Len(due) /\ m \in Nat
    BY <1>5, <1>6, <2>1
  <2> DEFINE l == Len(due)
  <2>a. l \in Nat /\ 1 .. m = 1 .. l
    BY <1>5, <2>2
  <2> HIDE DEF l, m
  <2>b. ~(m < l)
    <3>1. m < l => l \in 1 .. l /\ l \notin 1 .. m
      BY <2>2, <2>a
    <3> QED
      BY <2>a, <3>1
  <2>c. ~(l < m)
    <3>1. l < m => m \in 1 .. m /\ m \notin 1 .. l
      BY <2>2, <2>a
    <3> QED
      BY <2>a, <3>1
  <2>3. m = Len(due)
    BY <2>2, <2>a, <2>b, <2>c DEF l
  <2> QED
    BY <2>3 DEF m
<1>8. ASSUME NEW i \in DOMAIN due
      PROVE  \E h \in DOMAIN Rules[p] :
               k \in DOMAIN Rules[p][h].when /\ Triggered(p, k, v)[i].key = Rules[p][h].target
  <2>1. PICK at : PlacedBy(at, due, Rules[p], P, Len(Rules[p]))
    BY <1>4
  <2>2. at[i] \in P /\ due[i] = Rules[p][at[i]]
    BY <2>1 DEF PlacedBy
  <2>3. Triggered(p, k, v)[i].key = due[i].target
    BY <1>3 DEF Action
  <2> QED
    BY <1>2, <2>2, <2>3
<1> QED
  BY <1>4, <1>5, <1>6, <1>7, <1>8

LEMMA AcyclicRulesLighten ==
  ASSUME RulesAreAcyclic, NEW p \in Programs
  PROVE  \E g : Lightens(g, p)
<1>0. Len(Keys) \in Nat /\ Rules[p] \in Seq(Rule)
  BY SchemaAssumption
<1> DEFINE M == Len(Rules[p])
<1> DEFINE N == Len(Keys)
<1>1. PICK depth \in [Options -> 0 .. N] :
        \A i \in DOMAIN Rules[p] : \A k \in DOMAIN Rules[p][i].when : depth[Rules[p][i].target] < depth[k]
  BY DEF RulesAreAcyclic
<1>2. M \in Nat /\ N \in Nat
  BY <1>0
<1> HIDE DEF M, N
<1>3. PICK W : IsCost(W, M, N) /\ \A n \in 0 .. N : W[n] >= 1 /\ \A m \in 0 .. n : W[m] <= W[n]
  BY <1>2, CostIs
<1>4. W \in [0 .. N -> Nat] /\ \A n \in 1 .. N : W[n] = (M + 1) * W[n - 1]
  BY <1>3 DEF IsCost
<1> DEFINE g == [k \in Options |-> W[depth[k]]]
<1>5. g \in [Options -> Nat]
  BY <1>1, <1>4
<1>6. ASSUME NEW k \in Options, NEW v \in Codes PROVE Total(g, Triggered(p, k, v)) < g[k]
  <2> DEFINE t == Triggered(p, k, v)
  <2>1. t \in Seq(Todo) /\ Len(t) <= M /\ Len(t) \in Nat
    <3>1. t \in Seq(Todo)
      BY TriggeredIs
    <3> QED
      BY <3>1, TriggeredByRules DEF M
  <2>2. ASSUME NEW i \in DOMAIN t PROVE t[i].key \in Options /\ depth[t[i].key] < depth[k]
    <3>1. t[i] \in Todo
      <4> HIDE DEF t
      <4> QED
        BY <2>1
    <3>2. PICK h \in DOMAIN Rules[p] : k \in DOMAIN Rules[p][h].when /\ t[i].key = Rules[p][h].target
      BY TriggeredByRules
    <3> QED
      BY <1>1, <3>1, <3>2 DEF Todo
  <2> HIDE DEF t
  <2>3. depth[k] \in 0 .. N /\ \A j \in Options : depth[j] \in 0 .. N
    BY <1>1
  <2>4. CASE depth[k] = 0
    <3>1. \A i \in DOMAIN t : g[t[i].key] <= 0
      BY <1>2, <2>2, <2>3, <2>4
    <3>2. Total(g, t) <= Len(t) * 0
      <4> HIDE DEF g
      <4> QED
        BY <1>5, <2>1, <3>1, TotalAtMost
    <3>3. Len(t) * 0 = 0 /\ g[k] >= 1 /\ Total(g, t) \in Nat
      <4>1. Total(g, t) \in Nat
        <5> HIDE DEF g
        <5> QED
          BY <1>5, <2>1, TotalIs
      <4> QED
        BY <1>3, <2>1, <2>3, <4>1
    <3> HIDE DEF g
    <3>4. Total(g, t) < g[k]
      BY <1>5, <3>2, <3>3
    <3> QED
      BY <3>4 DEF t
  <2>5. CASE depth[k] # 0
    <3> DEFINE b == W[depth[k] - 1]
    <3>1. depth[k] - 1 \in 0 .. N /\ depth[k] \in 1 .. N
      BY <1>2, <2>3, <2>5
    <3>2. b \in Nat /\ b >= 1
      BY <1>3, <1>4, <3>1
    <3>3. ASSUME NEW i \in DOMAIN t PROVE g[t[i].key] <= b
      <4>1. t[i].key \in Options /\ depth[t[i].key] \in 0 .. depth[k] - 1
        BY <1>2, <2>2, <2>3, <3>1
      <4> QED
        BY <1>3, <3>1, <4>1
    <3>4. g[k] = (M + 1) * b
      BY <1>4, <3>1
    <3> HIDE DEF g, b
    <3>5. Total(g, t) <= Len(t) * b /\ Total(g, t) \in Nat
      BY <1>5, <2>1, <3>2, <3>3, TotalAtMost, TotalIs
    <3> DEFINE l == Len(t)
    <3>6. l \in Nat /\ l <= M
      BY <2>1
    <3> HIDE DEF l
    <3>7. l * b <= M * b /\ l * b \in Nat /\ M * b \in Nat
      BY <1>2, <3>2, <3>6
    <3>8. (M + 1) * b = M * b + b
      BY <1>2, <3>2
    <3>9. Total(g, t) <= l * b
      BY <3>5 DEF l
    <3>10. Total(g, t) < g[k]
      BY <3>2, <3>4, <3>5, <3>7, <3>8, <3>9
    <3> QED
      BY <3>10 DEF t
  <2> QED
    BY <2>4, <2>5
<1> HIDE DEF g
<1> QED
  BY <1>5, <1>6 DEF Lightens

\* What the theorems below suppose of the rules holds of every schema whose rules have
\* no cycle: each assignment weighs more than all that it sets off.
THEOREM AcyclicRulesTerminate == RulesAreAcyclic => RulesTerminate
<1> SUFFICES ASSUME RulesAreAcyclic PROVE RulesTerminate
  OBVIOUS
<1> DEFINE G(p) == CHOOSE g : Lightens(g, p)
<1>1. \A p \in Programs : Lightens(G(p), p)
  <2> HIDE DEF Lightens
  <2> QED
    BY AcyclicRulesLighten, Zenon
<1> HIDE DEF G
<1> DEFINE rank == [w \in Work |-> Total(G(w.program), w.todo)]
<1>2. ASSUME NEW w \in Work PROVE rank[w] \in Nat /\ (Goes(w) => rank[Onwards(w)] < rank[w])
  <2> DEFINE p == w.program
  <2> DEFINE g == G(p)
  <2>1. p \in Programs /\ w.todo \in Seq(Todo) /\ g \in [Options -> Nat] /\ Lightens(g, p)
    BY <1>1 DEF Work, Lightens
  <2>2. rank[w] = Total(g, w.todo)
    OBVIOUS
  <2>3. rank[w] \in Nat
    <3> HIDE DEF g, rank
    <3> QED
      BY <2>1, <2>2, TotalIs
  <2>4. ASSUME Goes(w) PROVE rank[Onwards(w)] < rank[w]
    <3> DEFINE a == Head(w.todo)
    <3>1. w.todo # <<>>
      BY <2>4 DEF Goes
    <3>2. a \in Todo /\ Onwards(w) \in Work /\ Onwards(w).program = p /\ Tail(w.todo) \in Seq(Todo)
      BY <2>1, <3>1, OnwardsIs
    <3>3. rank[Onwards(w)] = Total(g, Onwards(w).todo)
      BY <3>2
    <3> HIDE DEF rank
    <3>4. rank[w] = g[a.key] + Total(g, Tail(w.todo))
      <4> HIDE DEF g
      <4> QED
        BY <2>1, <2>2, <3>1, TotalOfHead
    <3>5. Total(g, Tail(w.todo)) \in Nat
      <4> HIDE DEF g
      <4> QED
        BY <2>1, <3>2, TotalIs
    <3>6. a.key \in Options /\ a.value \in Codes
      BY <3>2 DEF Todo
    <3> HIDE DEF a, g, p
    <3>7. Triggered(p, a.key, a.value) \in Seq(Todo)
      BY <2>1, TriggeredIs
    <3>8. Total(g, Triggered(p, a.key, a.value)) < g[a.key] /\ g[a.key] \in Nat
          /\ Total(g, Triggered(p, a.key, a.value)) \in Nat
      BY <2>1, <3>6, <3>7, TotalIs DEF Lightens
    <3>9. CASE Applies(p, w.state, a)
      <4>1. Onwards(w).todo = Triggered(p, a.key, a.value) \o Tail(w.todo)
        BY <3>9 DEF Onwards, a, p
      <4>2. Total(g, Onwards(w).todo) = Total(g, Triggered(p, a.key, a.value)) + Total(g, Tail(w.todo))
        <5> HIDE DEF g
        <5>1. g \in [Options -> Nat] /\ Tail(w.todo) \in Seq(Todo)
          BY <2>1, <3>2
        <5> QED
          BY <3>7, <4>1, <5>1, TotalOfBoth
      <4> QED
        BY <3>3, <3>4, <3>5, <3>8, <4>2
    <3>10. CASE ~Applies(p, w.state, a)
      <4>1. Onwards(w).todo = Tail(w.todo)
        <5>1. Onwards(w) = [w EXCEPT !.todo = Tail(w.todo)]
          BY <3>10 DEF Onwards, a, p
        <5> QED
          BY <5>1 DEF Work
      <4> QED
        BY <3>3, <3>4, <3>5, <3>8, <4>1
    <3> QED
      BY <3>9, <3>10
  <2> QED
    BY <2>3, <2>4
<1> HIDE DEF rank
<1>3. RankedBy(rank)
  BY <1>2 DEF RankedBy
<1> QED
  BY <1>3 DEF RulesTerminate

-----------------------------------------------------------------------------
(* A request that no rule is about keeps its value.                        *)

\* Nothing in the list is for k.
NotFor(k, todo) == \A i \in DOMAIN todo : todo[i].key # k

\* One request in the list is for k, and wants v.
OneFor(k, v, todo) ==
  \E i \in DOMAIN todo :
    /\ todo[i].key = k /\ todo[i].value = v /\ todo[i].by = "set" /\ todo[i].given = <<>>
    /\ \A h \in DOMAIN todo \ {i} : todo[h].key # k

LEMMA ListParts ==
  ASSUME NEW S, NEW t \in Seq(S), t # <<>>, NEW u \in Seq(S)
  PROVE  /\ Tail(t) \in Seq(S) /\ DOMAIN Tail(t) = 1 .. Len(t) - 1 /\ DOMAIN t = 1 .. Len(t)
         /\ Len(t) \in Nat /\ Len(t) > 0 /\ Len(u) \in Nat /\ DOMAIN u = 1 .. Len(u)
         /\ Head(t) = t[1] /\ \A i \in 1 .. Len(t) - 1 : Tail(t)[i] = t[i + 1]
         /\ DOMAIN (u \o Tail(t)) = 1 .. Len(u) + Len(t) - 1
         /\ \A i \in 1 .. Len(u) : (u \o Tail(t))[i] = u[i]
         /\ \A i \in 1 .. Len(t) - 1 : (u \o Tail(t))[Len(u) + i] = t[i + 1]
         /\ \A i \in Len(u) + 1 .. Len(u) + Len(t) - 1 : (u \o Tail(t))[i] = t[i - Len(u) + 1]
OBVIOUS

LEMMA NotForParts ==
  ASSUME NEW S, NEW t \in Seq(S), t # <<>>, NEW u \in Seq(S), NEW k
  PROVE  /\ NotFor(k, t) => Head(t).key # k /\ NotFor(k, Tail(t))
         /\ NotFor(k, u) /\ NotFor(k, t) => NotFor(k, u \o Tail(t))
         /\ \A v : OneFor(k, v, t) =>
              \/ /\ Head(t).key = k /\ Head(t).value = v /\ Head(t).by = "set" /\ Head(t).given = <<>>
                 /\ NotFor(k, Tail(t)) /\ (NotFor(k, u) => NotFor(k, u \o Tail(t)))
              \/ /\ Head(t).key # k /\ OneFor(k, v, Tail(t))
                 /\ NotFor(k, u) => OneFor(k, v, u \o Tail(t))
<1> DEFINE n == Len(t)
<1> DEFINE m == Len(u)
<1> DEFINE r == Tail(t)
<1> DEFINE x == u \o Tail(t)
<1>1. /\ r \in Seq(S) /\ DOMAIN r = 1 .. n - 1 /\ DOMAIN t = 1 .. n
      /\ n \in Nat /\ n > 0 /\ m \in Nat /\ DOMAIN u = 1 .. m
      /\ Head(t) = t[1] /\ \A i \in 1 .. n - 1 : r[i] = t[i + 1]
      /\ DOMAIN x = 1 .. m + n - 1
      /\ \A i \in 1 .. m : x[i] = u[i]
      /\ \A i \in 1 .. n - 1 : x[m + i] = t[i + 1]
      /\ \A i \in m + 1 .. m + n - 1 : x[i] = t[i - m + 1]
  BY ListParts
<1> HIDE DEF n, m, r, x
<1>2. 1 \in DOMAIN t /\ \A i \in DOMAIN r : i + 1 \in DOMAIN t /\ i + 1 # 1
  BY <1>1
<1>3. \A i \in DOMAIN t : i = 1 \/ (i - 1 \in DOMAIN r /\ (i - 1) + 1 = i)
  BY <1>1
<1>4. \A i \in DOMAIN x : i \in DOMAIN u \/ (i \in m + 1 .. m + n - 1 /\ i - m + 1 \in DOMAIN t /\ i - m + 1 # 1)
  BY <1>1
<1>5. \A i \in DOMAIN t \ {1} : m + (i - 1) \in DOMAIN x /\ m + (i - 1) \notin DOMAIN u /\ x[m + (i - 1)] = t[i]
  <2> TAKE i \in DOMAIN t \ {1}
  <2>1. i - 1 \in 1 .. n - 1 /\ (i - 1) + 1 = i
    BY <1>1
  <2>2. x[m + (i - 1)] = t[i]
    BY <1>1, <2>1
  <2> QED
    BY <1>1, <2>1, <2>2
<1>6. NotFor(k, t) => Head(t).key # k /\ NotFor(k, r)
  BY <1>1, <1>2 DEF NotFor
<1>7. NotFor(k, u) /\ (\A i \in DOMAIN t \ {1} : t[i].key # k) => NotFor(k, x)
  BY <1>1, <1>4 DEF NotFor
<1>8. ASSUME NEW v, OneFor(k, v, t)
      PROVE \/ /\ Head(t).key = k /\ Head(t).value = v /\ Head(t).by = "set" /\ Head(t).given = <<>>
               /\ NotFor(k, r) /\ (NotFor(k, u) => NotFor(k, x))
            \/ /\ Head(t).key # k /\ OneFor(k, v, r)
               /\ NotFor(k, u) => OneFor(k, v, x)
  <2>1. PICK i \in DOMAIN t :
          /\ t[i].key = k /\ t[i].value = v /\ t[i].by = "set" /\ t[i].given = <<>>
          /\ \A h \in DOMAIN t \ {i} : t[h].key # k
    BY <1>8 DEF OneFor
  <2>2. CASE i = 1
    <3>1. \A h \in DOMAIN t \ {1} : t[h].key # k
      BY <2>1, <2>2
    <3>2. NotFor(k, r)
      BY <1>1, <1>2, <3>1 DEF NotFor
    <3> QED
      BY <1>1, <1>7, <2>1, <2>2, <3>1, <3>2
  <2>3. CASE i # 1
    <3>1. Head(t).key # k
      BY <1>1, <1>2, <2>1, <2>3
    <3>2. OneFor(k, v, r)
      <4>1. i - 1 \in DOMAIN r /\ r[i - 1] = t[i]
        BY <1>1, <1>3, <2>3
      <4>2. \A h \in DOMAIN r \ {i - 1} : r[h].key # k
        <5> TAKE h \in DOMAIN r \ {i - 1}
        <5>1. h + 1 \in DOMAIN t /\ h + 1 # i /\ r[h] = t[h + 1]
          BY <1>1, <1>2
        <5> QED
          BY <2>1, <5>1
      <4> QED
        BY <2>1, <4>1, <4>2 DEF OneFor
    <3>3. ASSUME NotFor(k, u) PROVE OneFor(k, v, x)
      <4>1. m + (i - 1) \in DOMAIN x /\ x[m + (i - 1)] = t[i]
        BY <1>5, <2>3
      <4>2. ASSUME NEW h \in DOMAIN x, h # m + (i - 1) PROVE x[h].key # k
        <5>1. CASE h \in DOMAIN u
          BY <1>1, <3>3, <5>1 DEF NotFor
        <5>2. CASE h \notin DOMAIN u
          <6>1. h - m + 1 \in DOMAIN t /\ x[h] = t[h - m + 1] /\ h - m + 1 # i
            BY <1>1, <1>4, <4>2, <5>2
          <6> QED
            BY <2>1, <6>1
        <5> QED
          BY <5>1, <5>2
      <4> QED
        BY <2>1, <4>1, <4>2 DEF OneFor
    <3> QED
      BY <3>1, <3>2, <3>3
  <2> QED
    BY <2>2, <2>3
<1>9. NotFor(k, u) /\ NotFor(k, t) => NotFor(k, x)
  BY <1>7 DEF NotFor
<1> QED
  BY <1>6, <1>8, <1>9 DEF r, x
\* One assignment, seen from a parameter k that no rule targets.
LEMMA OneAssignment ==
  ASSUME NEW w \in Work, w.todo # <<>>, NEW k \in DOMAIN w.state, ~RuledOn(w.program, k)
  PROVE  LET a == Head(w.todo)
             c == After(w.program, w.state, a)
         IN  /\ a.key # k =>
                  /\ Refused(w) => c[k] = w.state[k]
                  /\ Onwards(w).state[k] = w.state[k]
             /\ a.key = k /\ a.by = "set" /\ a.given = <<>> /\ ~Refused(w) =>
                  /\ Onwards(w).state[k].value = a.value
                  /\ Onwards(w).todo = Triggered(w.program, a.key, a.value) \o Tail(w.todo)
             /\ Onwards(w).todo \in {Triggered(w.program, a.key, a.value) \o Tail(w.todo), Tail(w.todo)}
             /\ Triggered(w.program, a.key, a.value) \in Seq(Todo)
             /\ NotFor(k, Triggered(w.program, a.key, a.value))
<1> DEFINE a == Head(w.todo)
<1> DEFINE p == w.program
<1> DEFINE c == After(p, w.state, a)
<1>1. p \in Programs /\ w.state \in States /\ w.todo \in Seq(Todo)
  BY DEF Work
<1>2. a \in Todo
  BY <1>1
<1> HIDE DEF a, p, c
<1>3. Applies(p, w.state, a) =>
        /\ a.key \in DOMAIN w.state
        /\ Onwards(w).state = c
        /\ Onwards(w).todo = Triggered(p, a.key, a.value) \o Tail(w.todo)
  <2> SUFFICES ASSUME Applies(p, w.state, a)
               PROVE  /\ a.key \in DOMAIN w.state
                      /\ Onwards(w).state = c
                      /\ Onwards(w).todo = Triggered(p, a.key, a.value) \o Tail(w.todo)
    OBVIOUS
  <2> DEFINE t == Triggered(p, a.key, a.value) \o Tail(w.todo)
  <2>1. Onwards(w) = [program |-> p, state |-> c, todo |-> t]
    BY DEF Onwards, a, p, c
  <2> HIDE DEF t
  <2>2. Onwards(w).state = c /\ Onwards(w).todo = t
    BY <2>1
  <2> QED
    BY <2>2 DEF Applies, t
<1>4. ~Applies(p, w.state, a) => Onwards(w) = [w EXCEPT !.todo = Tail(w.todo)] /\ ~Refused(w)
  BY DEF Onwards, Refused, a, p
<1>5. ~Applies(p, w.state, a) => Onwards(w).todo = Tail(w.todo) /\ Onwards(w).state = w.state
  BY <1>4 DEF Work
<1>6. Applies(p, w.state, a) /\ a.key # k => c[k] = w.state[k]
  BY <1>1, <1>2, <1>3, AfterIs DEF c
<1>7. a.key = k /\ a.by = "set" /\ a.given = <<>> => Applies(p, w.state, a)
  BY DEF Applies
<1>8. ASSUME Applies(p, w.state, a), ~Refused(w) PROVE c[a.key].value = a.value
  <2>1. Taken(p, w.state, a)
    BY <1>8 DEF Refused, a, p
  <2> QED
    BY <1>1, <1>2, <1>3, <1>8, <2>1, AfterIs DEF c
<1>9. Refused(w) => Applies(p, w.state, a)
  BY DEF Refused, a, p
<1>10. Triggered(p, a.key, a.value) \in Seq(Todo) /\ NotFor(k, Triggered(p, a.key, a.value))
  <2>1. /\ Triggered(p, a.key, a.value) \in Seq(Todo)
        /\ \A i \in DOMAIN Triggered(p, a.key, a.value) : RuledOn(p, Triggered(p, a.key, a.value)[i].key)
    BY <1>1, TriggeredIs
  <2>2. ~RuledOn(p, k)
    BY DEF p
  <2> QED
    BY <2>1, <2>2 DEF NotFor
<1>11. a.key # k => (Refused(w) => c[k] = w.state[k]) /\ Onwards(w).state[k] = w.state[k]
  BY <1>3, <1>5, <1>6, <1>9
<1>12. a.key = k /\ a.by = "set" /\ a.given = <<>> /\ ~Refused(w) =>
         /\ Onwards(w).state[k].value = a.value
         /\ Onwards(w).todo = Triggered(p, a.key, a.value) \o Tail(w.todo)
  BY <1>3, <1>7, <1>8
<1>13. Onwards(w).todo \in {Triggered(p, a.key, a.value) \o Tail(w.todo), Tail(w.todo)}
  BY <1>3, <1>5
<1> QED
  BY <1>10, <1>11, <1>12, <1>13 DEF a, p, c

\* A parameter that no rule targets and nothing in the list is for stays as it is.
LEMMA Untouched ==
  ASSUME RulesTerminate, NEW w \in Work, NEW k \in DOMAIN w.state, ~RuledOn(w.program, k), NotFor(k, w.todo)
  PROVE  Outcome[w].state[k] = w.state[k]
<1> DEFINE Fit(x) == k \in DOMAIN x.state /\ ~RuledOn(x.program, k) /\ NotFor(k, x.todo)
<1> DEFINE T == {x \in Work : Fit(x) => Outcome[x].state[k] = x.state[k]}
<1>1. ASSUME NEW x \in Work, Goes(x) => Onwards(x) \in T PROVE x \in T
  <2> SUFFICES ASSUME Fit(x) PROVE Outcome[x].state[k] = x.state[k]
    OBVIOUS
  <2>1. Outcome[x] = OutcomeAt(Outcome, x)
    BY OutcomeIs
  <2>2. CASE x.todo = <<>>
    BY <2>1, <2>2 DEF OutcomeAt
  <2>3. CASE x.todo # <<>>
    <3> DEFINE a == Head(x.todo)
    <3> DEFINE u == Triggered(x.program, a.key, a.value)
    <3>1. /\ a.key # k => /\ Refused(x) => After(x.program, x.state, a)[k] = x.state[k]
                          /\ Onwards(x).state[k] = x.state[k]
          /\ Onwards(x).todo \in {u \o Tail(x.todo), Tail(x.todo)}
          /\ u \in Seq(Todo) /\ NotFor(k, u)
      BY <2>3, OneAssignment
    <3>2. x.todo \in Seq(Todo)
      BY DEF Work
    <3> HIDE DEF u
    <3>3. a.key # k /\ NotFor(k, Tail(x.todo)) /\ NotFor(k, u \o Tail(x.todo))
      BY <2>3, <3>1, <3>2, NotForParts
    <3> HIDE DEF a
    <3>4. CASE Refused(x)
      <4>1. Outcome[x].state = After(x.program, x.state, a)
        BY <2>1, <2>3, <3>4 DEF OutcomeAt, a
      <4> QED
        BY <3>1, <3>3, <3>4, <4>1
    <3>5. CASE ~Refused(x)
      <4>1. Outcome[x] = Outcome[Onwards(x)] /\ Goes(x)
        BY <2>1, <2>3, <3>5 DEF OutcomeAt, Goes
      <4>2. Onwards(x).program = x.program /\ DOMAIN Onwards(x).state = DOMAIN x.state
        BY <2>3, OnwardsIs
      <4>3. Fit(Onwards(x))
        BY <3>1, <3>3, <4>2
      <4>4. Outcome[Onwards(x)].state[k] = Onwards(x).state[k]
        BY <1>1, <4>1, <4>3
      <4> QED
        BY <3>1, <3>3, <4>1, <4>4
    <3> QED
      BY <3>4, <3>5
  <2> QED
    BY <2>2, <2>3
<1>2. w \in T
  <2> HIDE DEF T
  <2> QED
    BY <1>1, WorkInduction
<1> QED
  BY <1>2

\* A request for a parameter that no rule targets is honoured, unless the list is refused.
LEMMA Honoured ==
  ASSUME RulesTerminate, NEW w \in Work, NEW k \in DOMAIN w.state, ~RuledOn(w.program, k),
         NEW v, OneFor(k, v, w.todo), Outcome[w].ok
  PROVE  Outcome[w].state[k].value = v
<1> DEFINE Fit(x) == k \in DOMAIN x.state /\ ~RuledOn(x.program, k) /\ OneFor(k, v, x.todo) /\ Outcome[x].ok
<1> DEFINE T == {x \in Work : Fit(x) => Outcome[x].state[k].value = v}
<1>1. ASSUME NEW x \in Work, Goes(x) => Onwards(x) \in T PROVE x \in T
  <2> SUFFICES ASSUME Fit(x) PROVE Outcome[x].state[k].value = v
    OBVIOUS
  <2>1. Outcome[x] = OutcomeAt(Outcome, x)
    BY OutcomeIs
  <2>2. x.todo \in Seq(Todo) /\ x.todo # <<>>
    BY DEF Work, OneFor
  <2>3. ~Refused(x)
    BY <2>1, <2>2 DEF OutcomeAt
  <2>4. Outcome[x] = Outcome[Onwards(x)] /\ Goes(x)
    BY <2>1, <2>2, <2>3 DEF OutcomeAt, Goes
  <2>5. Onwards(x) \in Work /\ Onwards(x).program = x.program /\ DOMAIN Onwards(x).state = DOMAIN x.state
    BY <2>2, OnwardsIs
  <2> DEFINE a == Head(x.todo)
  <2> DEFINE u == Triggered(x.program, a.key, a.value)
  <2>6. /\ a.key = k /\ a.by = "set" /\ a.given = <<>> =>
             Onwards(x).state[k].value = a.value /\ Onwards(x).todo = u \o Tail(x.todo)
        /\ Onwards(x).todo \in {u \o Tail(x.todo), Tail(x.todo)}
        /\ u \in Seq(Todo) /\ NotFor(k, u)
    BY <2>2, <2>3, OneAssignment
  <2> HIDE DEF u
  <2>7. \/ /\ a.key = k /\ a.value = v /\ a.by = "set" /\ a.given = <<>>
           /\ NotFor(k, u \o Tail(x.todo))
        \/ /\ a.key # k /\ OneFor(k, v, Tail(x.todo)) /\ OneFor(k, v, u \o Tail(x.todo))
    BY <2>2, <2>6, NotForParts
  <2> HIDE DEF a
  <2>8. CASE /\ a.key = k /\ a.value = v /\ a.by = "set" /\ a.given = <<>>
             /\ NotFor(k, u \o Tail(x.todo))
    <3>1. Outcome[Onwards(x)].state[k] = Onwards(x).state[k]
      BY <2>5, <2>6, <2>8, Untouched
    <3> QED
      BY <2>4, <2>6, <2>8, <3>1
  <2>9. CASE a.key # k /\ OneFor(k, v, Tail(x.todo)) /\ OneFor(k, v, u \o Tail(x.todo))
    <3>1. OneFor(k, v, Onwards(x).todo)
      BY <2>6, <2>9
    <3>2. Fit(Onwards(x))
      BY <2>4, <2>5, <3>1
    <3> QED
      BY <1>1, <2>4, <3>2
  <2> QED
    BY <2>7, <2>8, <2>9
<1>2. w \in T
  <2> HIDE DEF T
  <2> QED
    BY <1>1, WorkInduction
<1> QED
  BY <1>2
-----------------------------------------------------------------------------
(* Loading and recovering.                                                 *)

LEMMA SetIs ==
  ASSUME NEW k \in Options, NEW v \in Codes
  PROVE  /\ Set(k, v) \in Todo /\ Set(k, v).key = k /\ Set(k, v).value = v
         /\ Set(k, v).by = "set" /\ Set(k, v).given = <<>>
BY SettingsAre DEF Set, Todo

LEMMA AssignIs ==
  ASSUME RulesTerminate, NEW p \in Programs, NEW c \in States, NEW t \in Seq(Todo)
  PROVE  IsResult(Assign(p, c, t), c)
<1> DEFINE w == [program |-> p, state |-> c, todo |-> t]
<1>1. w \in Work /\ w.state = c
  BY DEF Work
<1> HIDE DEF w
<1>2. IsResult(Outcome[w], w.state)
  BY <1>1, OutcomeType
<1> QED
  BY <1>1, <1>2 DEF Assign, w

LEMMA RequestIs ==
  ASSUME RulesTerminate, NEW p \in Programs, NEW c \in States, NEW k \in Options, NEW v \in Codes
  PROVE  IsResult(Assign(p, c, <<Set(k, v)>>), c)
<1>1. Set(k, v) \in Todo
  BY SetIs
<1>2. <<Set(k, v)>> \in Seq(Todo)
  BY <1>1
<1> QED
  BY <1>2, AssignIs

Like(c) == {d \in States : DOMAIN d = DOMAIN c}

\* No request leads out of S.
Keeps(p, S) == \A d \in S : \A k \in Options, v \in Codes : Assign(p, d, <<Set(k, v)>>).state \in S

LEMMA RestoredIn ==
  ASSUME NEW p, NEW S, Keeps(p, S), NEW c \in S, NEW data \in Settings
  PROVE  Restored(p, c, data) \in S
<1> DEFINE N == Len(Keys)
<1> DEFINE Next1(n, d) == IF Keys[n] \in DOMAIN data
                          THEN Assign(p, d, <<Set(Keys[n], data[Keys[n]])>>).state ELSE d
<1>0. N \in Nat /\ \A n \in 1 .. N : Keys[n] \in Options
  BY SchemaAssumption
<1>1. ASSUME NEW n \in 1 .. N, NEW d \in S PROVE Next1(n, d) \in S
  <2>1. Keys[n] \in DOMAIN data => Keys[n] \in Options /\ data[Keys[n]] \in Codes
    BY <1>0, SettingsAre
  <2> QED
    BY <2>1 DEF Keeps
<1> DEFINE Body(f, n) == IF n = 0 THEN c
        ELSE IF Keys[n] \in DOMAIN data
               THEN Assign(p, f[n - 1], <<Set(Keys[n], data[Keys[n]])>>).state
               ELSE f[n - 1]
<1> DEFINE restored[n \in 0 .. N] ==
        IF n = 0 THEN c
        ELSE IF Keys[n] \in DOMAIN data
               THEN Assign(p, restored[n - 1], <<Set(Keys[n], data[Keys[n]])>>).state
               ELSE restored[n - 1]
<1>2. restored = CHOOSE f : f = [n \in 0 .. N |-> Body(f, n)]
  OBVIOUS
<1>3. \A f, n : Body(f, n) = IF n = 0 THEN c ELSE Next1(n, f[n - 1])
  OBVIOUS
<1> DEFINE G == [x \in (1 .. N) \X S |-> Next1(x[1], x[2])]
<1>4. IsStep(G, S, N)
  <2> HIDE DEF Next1
  <2> QED
    BY <1>1 DEF IsStep
<1>5. \A n \in 1 .. N : \A d \in S : G[<<n, d>>] = Next1(n, d)
  <2> HIDE DEF Next1
  <2> QED
    OBVIOUS
<1>10. Restored(p, c, data) = restored[N]
  BY DEF Restored
<1> HIDE DEF G, N, Next1, Body, restored
<1>6. PICK g : IsCourse(g, G, S, c, N)
  BY <1>0, <1>4, StepsLead
<1>7. \A n \in 0 .. N : g[n] = Body(g, n)
  <2> TAKE n \in 0 .. N
  <2>1. n # 0 => n \in 1 .. N /\ n - 1 \in 0 .. N
    BY <1>0
  <2> QED
    BY <2>1, <1>3, <1>5, <1>6 DEF IsCourse
<1>8. g = [n \in 0 .. N |-> Body(g, n)]
  <2>1. g \in [0 .. N -> S]
    BY <1>6 DEF IsCourse
  <2> QED
    BY <1>7, <2>1
<1>9. restored = [n \in 0 .. N |-> Body(restored, n)]
  BY <1>2, <1>8, Zenon
<1> DEFINE T == {n \in 0 .. N : restored[n] \in S}
<1>11. 0 \in T
  BY <1>0, <1>3, <1>9
<1>12. ASSUME NEW n \in 1 .. N, n - 1 \in T PROVE n \in T
  <2>1. n \in 0 .. N /\ n # 0
    BY <1>0
  <2>2. restored[n] = Next1(n, restored[n - 1])
    BY <1>3, <1>9, <2>1
  <2> QED
    BY <1>1, <1>12, <2>1, <2>2
<1>13. \A n \in 0 .. N : n \in T
  <2> HIDE DEF T
  <2> QED
    BY <1>0, <1>11, <1>12, EveryStep
<1> QED
  BY <1>0, <1>10, <1>13
LEMMA RestoredIs ==
  ASSUME RulesTerminate, NEW p \in Programs, NEW c \in States, NEW data \in Settings
  PROVE  Restored(p, c, data) \in Like(c)
<1>1. ASSUME NEW d \in Like(c), NEW k \in Options, NEW v \in Codes
      PROVE  Assign(p, d, <<Set(k, v)>>).state \in Like(c)
  BY RequestIs DEF IsResult, Like
<1>2. c \in Like(c) /\ Keeps(p, Like(c))
  BY <1>1 DEF Keeps, Like
<1> QED
  BY <1>2, RestoredIn

\* The parameters a program exposes.
Commanded(p) == {d \in States : DOMAIN d = Exposed(p)}

LEMMA LoadedIs ==
  ASSUME RulesTerminate, NEW p \in Programs
  PROVE  Loaded(p) \in Commanded(p)
<1> DEFINE initial == [k \in Exposed(p) |-> [value |-> Schema[p][k].default, allowed |-> Schema[p][k].choice]]
<1> DEFINE P == {i \in DOMAIN Rules[p] :
                   \E k \in DOMAIN Rules[p][i].when \cap Exposed(p) : Schema[p][k].kind # "range"}
<1> DEFINE due == Kept(Rules[p], P)
<1> DEFINE todo == [i \in DOMAIN due |-> Action(due[i], due[i].when)]
<1>1. initial \in States /\ DOMAIN initial = Exposed(p)
  <2>1. Exposed(p) \in SUBSET Options
    BY ProgramsAssumption
  <2>2. initial \in [Exposed(p) -> [value : Codes, allowed : SUBSET Codes]]
    BY SchemaAssumption
  <2> HIDE DEF initial
  <2>3. DOMAIN initial = Exposed(p)
    BY DEF initial
  <2> QED
    BY <2>1, <2>2, <2>3, StatesAre
<1>2. Loaded(p) = Assign(p, initial, todo).state
  BY DEF Loaded
<1> HIDE DEF initial
<1>3. todo \in Seq(Todo)
  <2>1. Rules[p] \in Seq(Rule)
    BY SchemaAssumption
  <2> HIDE DEF P
  <2>2. due \in Seq(Rule)
    BY <2>1, KeptElements
  <2> HIDE DEF due
  <2>3. ASSUME NEW i \in DOMAIN due PROVE Action(due[i], due[i].when) \in Todo
    <3> DEFINE r == due[i]
    <3>1. r \in Rule
      BY <2>2
    <3> HIDE DEF r
    <3>2. r.when \in Settings
      BY <3>1 DEF Rule
    <3>3. Action(r, r.when) \in Todo
      BY <3>1, <3>2, ActionIs
    <3> QED
      BY <3>3 DEF r
  <2>4. DOMAIN due = 1 .. Len(due) /\ Len(due) \in Nat
    BY <2>2
  <2>5. todo \in [1 .. Len(due) -> Todo]
    BY <2>3, <2>4
  <2> QED
    BY <2>4, <2>5
<1> HIDE DEF todo
<1>4. IsResult(Assign(p, initial, todo), initial)
  BY <1>1, <1>3, AssignIs
<1> QED
  BY <1>1, <1>2, <1>4 DEF IsResult, Commanded

LEMMA SetToSeqIs ==
  ASSUME NEW S, IsFiniteSet(S)
  PROVE  SetToSeq(S) \in Seq(S)
<1>1. Cardinality(S) \in Nat /\ ExistsBijection(1 .. Cardinality(S), S)
  BY FS_CardinalityType
<1>2. PICK f : f \in Bijection(1 .. Cardinality(S), S)
  BY <1>1 DEF ExistsBijection
<1>3. f \in [1 .. Cardinality(S) -> S] /\ IsInjective(f)
  BY <1>2 DEF Bijection, Injection, IsInjective
<1>4. SetToSeq(S) \in [1 .. Cardinality(S) -> S]
  BY <1>3, Zenon DEF SetToSeq
<1> QED
  BY <1>1, <1>4

LEMMA FavouredIn ==
  ASSUME NEW p, NEW S, Keeps(p, S), Loaded(p) \in S
  PROVE  Favoured(p) \in S
<1> DEFINE X == {f \in DOMAIN Favourites : Favourites[f].of = p}
<1> DEFINE names == SetToSeq(X)
<1> DEFINE N == Len(names)
<1>1. IsFiniteSet(X)
  BY SchemaAssumption, FS_Subset, Zenon
<1> DEFINE Body(f, n) == IF n = 0 THEN Loaded(p) ELSE Restored(p, f[n - 1], Favourites[names[n]].data)
<1> DEFINE favoured[n \in 0 .. N] ==
        IF n = 0 THEN Loaded(p) ELSE Restored(p, favoured[n - 1], Favourites[names[n]].data)
<1>2. Favoured(p) = favoured[N]
  BY DEF Favoured
<1>3. favoured = CHOOSE f : f = [n \in 0 .. N |-> Body(f, n)]
  OBVIOUS
<1> DEFINE G == [x \in (1 .. N) \X S |-> Restored(p, x[2], Favourites[names[x[1]]].data)]
<1> HIDE DEF X
<1>4. names \in Seq(X)
  BY <1>1, SetToSeqIs
<1> HIDE DEF names
<1>5. N \in Nat /\ \A n \in 1 .. N : names[n] \in X
  BY <1>4
<1>6. ASSUME NEW n \in 1 .. N, NEW d \in S PROVE Restored(p, d, Favourites[names[n]].data) \in S
  <2>1. names[n] \in DOMAIN Favourites
    BY <1>5 DEF X
  <2>2. Favourites[names[n]].data \in Settings
    BY <2>1, SchemaAssumption
  <2> QED
    BY <2>2, RestoredIn
<1>7. IsStep(G, S, N)
  <2> HIDE DEF N
  <2> QED
    BY <1>6 DEF IsStep
<1>8. \A n \in 1 .. N : \A d \in S : G[<<n, d>>] = Restored(p, d, Favourites[names[n]].data)
  <2> HIDE DEF N
  <2> QED
    OBVIOUS
<1>9. \A f, n : Body(f, n) = IF n = 0 THEN Loaded(p) ELSE Restored(p, f[n - 1], Favourites[names[n]].data)
  OBVIOUS
<1> HIDE DEF G, N, Body, favoured
<1>10. PICK g : IsCourse(g, G, S, Loaded(p), N)
  BY <1>5, <1>7, StepsLead
<1>11. \A n \in 0 .. N : g[n] = Body(g, n)
  <2> TAKE n \in 0 .. N
  <2>1. n # 0 => n \in 1 .. N /\ n - 1 \in 0 .. N
    BY <1>5
  <2> QED
    BY <2>1, <1>8, <1>9, <1>10 DEF IsCourse
<1>12. g = [n \in 0 .. N |-> Body(g, n)]
  <2>1. g \in [0 .. N -> S]
    BY <1>10 DEF IsCourse
  <2> QED
    BY <1>11, <2>1
<1>13. favoured = [n \in 0 .. N |-> Body(favoured, n)]
  BY <1>3, <1>12, Zenon
<1> DEFINE T == {n \in 0 .. N : favoured[n] \in S}
<1>14. 0 \in T
  BY <1>5, <1>9, <1>13
<1>15. ASSUME NEW n \in 1 .. N, n - 1 \in T PROVE n \in T
  <2>1. n \in 0 .. N /\ n # 0
    BY <1>5
  <2>2. favoured[n] = Restored(p, favoured[n - 1], Favourites[names[n]].data)
    BY <1>9, <1>13, <2>1
  <2> QED
    BY <1>6, <1>15, <2>1, <2>2
<1>16. \A n \in 0 .. N : n \in T
  <2> HIDE DEF T
  <2> QED
    BY <1>5, <1>14, <1>15, EveryStep
<1> QED
  BY <1>2, <1>5, <1>16

LEMMA FavouredIs ==
  ASSUME RulesTerminate, NEW p \in Programs
  PROVE  Favoured(p) \in Commanded(p)
<1>1. ASSUME NEW d \in Commanded(p), NEW k \in Options, NEW v \in Codes
      PROVE  Assign(p, d, <<Set(k, v)>>).state \in Commanded(p)
  BY RequestIs DEF IsResult, Commanded
<1> QED
  BY <1>1, LoadedIs, FavouredIn DEF Keeps

\* The state of every category.
AllCommanded(s) == s \in [Programs -> States] /\ \A p \in Programs : DOMAIN s[p] = Exposed(p)

LEMMA RecoveredIs ==
  ASSUME RulesTerminate
  PROVE  AllCommanded(WithFavourites) /\ \A data \in Settings : AllCommanded(Recovered(data))
<1>1. \A p \in Programs : Favoured(p) \in Commanded(p)
  BY FavouredIs
<1>2. AllCommanded(WithFavourites)
  BY <1>1 DEF WithFavourites, AllCommanded, Commanded
<1>3. ASSUME NEW data \in Settings PROVE AllCommanded(Recovered(data))
  <2>1. FirstProgram \in Programs
    BY ProgramsAssumption
  <2>2. Restored(FirstProgram, WithFavourites[FirstProgram], data) \in Like(WithFavourites[FirstProgram])
    BY <1>2, <2>1, RestoredIs DEF AllCommanded
  <2>3. Recovered(data) = [WithFavourites EXCEPT ![FirstProgram] = Restored(FirstProgram, WithFavourites[FirstProgram], data)]
    BY DEF Recovered
  <2> QED
    BY <1>2, <2>1, <2>2, <2>3 DEF AllCommanded, Like
<1> QED
  BY <1>2, <1>3
-----------------------------------------------------------------------------
(* Lists of options.                                                       *)

\* No two options of a list are of one key.
UniqueKeys(os) == \A h, i \in DOMAIN os : os[h].key = os[i].key => h = i

\* What is left are options of the list, and every one the press has not sent.
LEMMA LeftElements ==
  ASSUME NEW S, NEW os \in Seq(S), NEW sent
  PROVE  /\ Left(os, sent) \in Seq(S)
         /\ \A i \in DOMAIN Left(os, sent) : \E h \in DOMAIN os : Left(os, sent)[i] = os[h]
         /\ \A h \in DOMAIN os : Holds(sent, os[h])
              \/ \E i \in DOMAIN Left(os, sent) : Left(os, sent)[i] = os[h]
         /\ UniqueKeys(os) => UniqueKeys(Left(os, sent))
<1> DEFINE P == {i \in DOMAIN os : ~Holds(sent, os[i])}
<1> DEFINE t == Left(os, sent)
<1>1. Left(os, sent) = Kept(os, P)
  BY DEF Left
<1>2. DOMAIN os = 1 .. Len(os) /\ P \subseteq DOMAIN os
  OBVIOUS
<1>3. \A h \in DOMAIN os : Holds(sent, os[h]) \/ h \in P
  OBVIOUS
<1> HIDE DEF P
<1>4. t \in Seq(S) /\ \E at : PlacedBy(at, t, os, P, Len(os))
  BY <1>1, KeptElements
<1> HIDE DEF t
<1>5. PICK at : PlacedBy(at, t, os, P, Len(os))
  BY <1>4
<1>6. \A i \in DOMAIN t : at[i] \in DOMAIN os /\ t[i] = os[at[i]]
  BY <1>2, <1>5 DEF PlacedBy
<1>7. \A h \in P : \E i \in DOMAIN t : t[i] = os[h]
  BY <1>2, <1>5, <1>6 DEF PlacedBy
<1>8. UniqueKeys(os) => UniqueKeys(t)
  BY <1>5, <1>6 DEF PlacedBy, UniqueKeys
<1> QED
  BY <1>3, <1>4, <1>6, <1>7, <1>8 DEF t

\* The elements of a list with one put in, and that every key stays.
IsFrom(list, os, o) == \A i \in DOMAIN list : list[i] = o \/ \E h \in DOMAIN os : list[i] = os[h]
HasKeysOf(list, os) == \A h \in DOMAIN os : \E i \in DOMAIN list : list[i].key = os[h].key

LEMMA PutElements ==
  \A S, os, o : os \in Seq(S) =>
    Put(os, o) \in Seq(S \cup {o}) /\ IsFrom(Put(os, o), os, o) /\ HasKeysOf(Put(os, o), os)
<1> TAKE S, os, o
<1> HAVE os \in Seq(S)
<1>1. DOMAIN os = 1 .. Len(os) /\ Len(os) \in Nat /\ \A i \in DOMAIN os : os[i] \in S
  OBVIOUS
<1>2. CASE \E i \in DOMAIN os : os[i].key = o.key
  <2> DEFINE p == [i \in DOMAIN os |-> IF os[i].key = o.key THEN o ELSE os[i]]
  <2>1. Put(os, o) = p
    BY <1>2 DEF Put
  <2>2. p \in [1 .. Len(os) -> S \cup {o}]
    BY <1>1
  <2>3. p \in Seq(S \cup {o})
    BY <1>1, <2>2
  <2> QED
    BY <2>1, <2>3 DEF IsFrom, HasKeysOf
<1>3. CASE ~\E i \in DOMAIN os : os[i].key = o.key
  <2> DEFINE p == Append(os, o)
  <2>1. Put(os, o) = p
    BY <1>3 DEF Put
  <2>2. os \in Seq(S \cup {o})
    OBVIOUS
  <2>3. /\ p \in Seq(S \cup {o}) /\ DOMAIN p = 1 .. Len(os) + 1
        /\ \A i \in 1 .. Len(os) : p[i] = os[i]
        /\ p[Len(os) + 1] = o
    BY <2>2
  <2>4. \A i \in DOMAIN p : i \in DOMAIN os \/ i = Len(os) + 1
    BY <2>3, <1>1
  <2>5. DOMAIN os \subseteq DOMAIN p
    BY <2>3, <1>1
  <2> QED
    BY <1>1, <2>1, <2>3, <2>4, <2>5 DEF IsFrom, HasKeysOf
<1> QED
  BY <1>2, <1>3

-----------------------------------------------------------------------------
(* What every state is like.                                               *)

\* The type, as far as it does not need the type of the parameters.
List(os) == \E S : os \in Seq(S)

Shape ==
  /\ pending \in Names \cup {NoName}
  /\ List(options) /\ \A j \in Presses : List(chosen[j])
  /\ phase \in [Presses -> {"idle", "queued", "sending", "accepted", "failed"}]
  /\ wanted \in [Presses -> Names \cup {NoName}] /\ DOMAIN previous = Presses
  /\ DOMAIN chosen = Presses /\ DOMAIN stale = Presses /\ DOMAIN bundle = Presses
  /\ reloads \in Nat

\* The lock: one command at a time.
OneSends == \A i, j \in Presses : phase[i] = "sending" /\ phase[j] = "sending" => i = j

\* A fridge buffers nothing.
NothingBuffered == fridge => pending = NoName /\ \A j \in Presses : chosen[j] = <<>>

\* What is being sent, or was taken, is of the program it should be.
SendsItsProgram ==
  \A j \in Presses : phase[j] \in {"sending", "accepted"} =>
    /\ bundle[j] # NoEntry
    /\ fridge \/ wanted[j] # NoName => bundle[j].program = Base(wanted[j])

StateInv == Shape /\ OneSends /\ NothingBuffered /\ SendsItsProgram

\* The program of the last command the cloud has taken.
InCloud == IF last = NoEntry THEN FirstProgram ELSE last.program

\* A fridge's active program is the cloud's, or that of the command that is on its
\* way, which then remembers the cloud's.
FridgeInv ==
  fridge /\ ~unsure /\ reloads = 0 =>
    /\ (\A j \in Presses : phase[j] # "sending") => Base(active) = InCloud
    /\ \A j \in Presses : phase[j] = "sending" => active = wanted[j] /\ Base(previous[j]) = InCloud

\* The history of programs chosen while a press was in flight.
CrossInv == overtaken \subseteq Presses /\ hurried \in BOOLEAN /\ (overtaken # {} => hurried)

\* A press wants the program that is pending, unless another has consumed it, or the
\* user has chosen another one meanwhile.
WishInv ==
  \A j \in Presses : InFlight(j) /\ j \notin overtaken => wanted[j] = pending \/ pending = NoName

\* The options were all chosen for n.
OnlyFor(os, n) == \A i \in DOMAIN os : os[i].chosenFor = n

\* Choosing another program empties the buffer: the options in it were chosen for the
\* program that is pending, and those of a press for the one that it wants.
BufferInv ==
  /\ pending # NoName => OnlyFor(options, pending)
  /\ \A j \in Presses : wanted[j] # NoName => OnlyFor(chosen[j], wanted[j])

\* The options were chosen for n, or when no program was chosen.
ChosenFor(os, n) == \A i \in DOMAIN os : os[i].chosenFor \in {NoName, n}

\* Until a reload, and as long as no press has been overtaken, a program that a press
\* wants is pending or active; so the options of a press are those of the program it
\* will run.
HaveRun(j) == phase[j] \in {"sending", "accepted", "failed"}
TravelInv ==
  reloads = 0 /\ ~fridge /\ ~hurried =>
    /\ \A j \in Presses :
         /\ ~stale[j]
         /\ InFlight(j) /\ pending = NoName => wanted[j] \in {NoName, active}
         /\ HaveRun(j) /\ wanted[j] # NoName => active = wanted[j]
         /\ InFlight(j) => ChosenFor(chosen[j], Target(j))
    /\ ChosenFor(options, IF pending = NoName THEN active ELSE pending)

LEMMA Distinct == NoName \notin Names /\ FirstProgram \in Names /\ \A p, v : [program |-> p, values |-> v] # NoEntry
<1>1. NoName \notin Names
  BY PressAssumption, Zenon DEF NoName
<1>2. FirstProgram \in Names
  BY ProgramsAssumption DEF Names
<1>3. ASSUME NEW p, NEW v PROVE [program |-> p, values |-> v] # NoEntry
  <2>1. "program" \in DOMAIN [program |-> p, values |-> v] /\ DOMAIN NoEntry = {}
    BY DEF NoEntry
  <2> QED
    BY <2>1
<1> QED
  BY <1>1, <1>2, <1>3

-----------------------------------------------------------------------------
(* What the actions do to a press, and that they leave the others alone.   *)

Alike(i) ==
  /\ phase'[i] = phase[i] /\ wanted'[i] = wanted[i] /\ chosen'[i] = chosen[i]
  /\ previous'[i] = previous[i] /\ stale'[i] = stale[i] /\ bundle'[i] = bundle[i]
Domains ==
  /\ phase' \in [Presses -> {"idle", "queued", "sending", "accepted", "failed"}]
  /\ wanted' \in [Presses -> Names \cup {NoName}] /\ DOMAIN previous' = Presses
  /\ DOMAIN chosen' = Presses /\ DOMAIN stale' = Presses /\ DOMAIN bundle' = Presses
Only(j) == Domains /\ \A i \in Presses \ {j} : Alike(i)

LEMMA Queued ==
  ASSUME Shape, NEW j \in Presses, NEW n \in Names \cup {NoName}, NEW os, Queue(j, n, os)
  PROVE  /\ Only(j) /\ phase[j] = "idle" /\ phase'[j] = "queued"
         /\ wanted'[j] = n /\ chosen'[j] = os /\ stale'[j] = FALSE
BY DEF Shape, Queue, Only, Domains, Alike

\* The button and the fridge.
LEMMA Runs ==
  ASSUME Shape, NEW j \in Presses, Run(j) \/ SendProgram(j)
  PROVE  /\ Only(j) /\ Turn(j) /\ ~stale[j] /\ phase'[j] \in {"sending", "failed"}
         /\ wanted'[j] = wanted[j] /\ chosen'[j] = chosen[j] /\ stale'[j] = stale[j]
         /\ Run(j) => active' = Target(j) /\ previous'[j] = previous[j]
         /\ SendProgram(j) => active' = wanted[j] /\ previous'[j] = active /\ phase'[j] = "sending"
         /\ phase'[j] = "sending" => \E v : bundle'[j] = [program |-> Base(active'), values |-> v]
<1>1. CASE Run(j)
  <2> DEFINE p == Base(Target(j))
  <2> DEFINE r == Overlay(p, chosen[j])
  <2>1. /\ ~fridge /\ Turn(j) /\ ~stale[j] /\ active' = Target(j)
        /\ IF r.ok THEN Posted(j, p, r.state)
                   ELSE phase' = [phase EXCEPT ![j] = "failed"] /\ UNCHANGED bundle
        /\ UNCHANGED <<fridge, stores, wanted, chosen, previous, stale, last, budgets, history>>
    BY <1>1 DEF Run
  <2> HIDE DEF r, p
  <2>2. CASE r.ok
    BY <2>1, <2>2 DEF Shape, Posted, Only, Domains, Alike, SendProgram, p
  <2>3. CASE ~r.ok
    BY <2>1, <2>3 DEF Shape, Only, Domains, Alike, SendProgram
  <2> QED
    BY <2>2, <2>3
<1>2. CASE SendProgram(j)
  BY <1>2 DEF Shape, SendProgram, Posted, Only, Domains, Alike, Run
<1> QED
  BY <1>1, <1>2

LEMMA Ends ==
  ASSUME Shape, NEW j \in Presses, RunStale(j) \/ Accepted(j) \/ Fails(j) \/ TimesOut(j)
  PROVE  /\ Only(j) /\ phase'[j] \in {"accepted", "failed"}
         /\ wanted'[j] = wanted[j] /\ chosen'[j] = chosen[j] /\ previous'[j] = previous[j]
         /\ stale'[j] = stale[j] /\ bundle'[j] = bundle[j]
         /\ UNCHANGED <<fridge, stores, reloads>>
         /\ RunStale(j) => phase[j] = "queued" /\ stale[j] /\ phase'[j] = "failed" /\ UNCHANGED active
         /\ ~RunStale(j) => phase[j] = "sending"
BY DEF Shape, RunStale, Accepted, Fails, TimesOut, Turn, Only, Domains, Alike, budgets, history, crossing, engine

LEMMA ReturnsTo ==
  ASSUME Shape, NEW j \in Presses, Returns(j)
  PROVE  /\ Only(j) /\ phase[j] \in {"accepted", "failed"} /\ phase'[j] = "idle"
         /\ wanted'[j] = NoName /\ chosen'[j] = <<>> /\ stale'[j] = stale[j]
         /\ UNCHANGED <<fridge, active, last, reloads, unsure>>
         /\ pending' \in {pending, NoName} /\ options' \in {options, Left(options, chosen[j])}
BY Distinct DEF Shape, Returns, Forgotten, Only, Domains, Alike, budgets, history, crossing, engine, stores

-----------------------------------------------------------------------------
(* The state.                                                              *)

LEMMA Lists ==
  /\ List(<<>>)
  /\ \A os, o : List(os) => List(Put(os, o))
  /\ \A os, sent : List(os) => List(Left(os, sent))
<1>1. List(<<>>)
  BY <<>> \in Seq({}) DEF List
<1>2. ASSUME NEW os, NEW o, List(os) PROVE List(Put(os, o))
  BY <1>2, PutElements DEF List
<1>3. ASSUME NEW os, NEW sent, List(os) PROVE List(Left(os, sent))
  BY <1>3, LeftElements DEF List
<1> QED
  BY <1>1, <1>2, <1>3

LEMMA StateInit == Init => StateInv
<1> SUFFICES ASSUME Init PROVE StateInv
  OBVIOUS
<1>1. Shape
  BY Distinct, Lists DEF Init, Shape
<1> QED
  BY <1>1 DEF Init, StateInv, OneSends, NothingBuffered, SendsItsProgram

LEMMA StateStep == StateInv /\ [Next]_vars => StateInv'
<1> SUFFICES ASSUME StateInv, [Next]_vars PROVE StateInv'
  OBVIOUS
<1> USE DEF StateInv, OneSends, NothingBuffered, SendsItsProgram
<1>1. ASSUME NEW n \in Names, Choose(n) PROVE StateInv'
  <2>1. Shape'
    BY <1>1, Lists, Distinct DEF Choose, Shape, pressVar
  <2> QED
    BY <1>1, <2>1 DEF Choose, pressVar
<1>2. ASSUME NEW k \in Options, NEW v, Buffer(k, v) PROVE StateInv'
  <2>1. Shape'
    BY <1>2, Lists DEF Buffer, Shape, pressVar
  <2> QED
    BY <1>2, <2>1 DEF Buffer, pressVar
<1>3. ASSUME NEW j \in Presses, NEW n \in Names, Pick(j, n) PROVE StateInv'
  <2>1. Queue(j, n, <<>>) /\ fridge /\ UNCHANGED <<fridge, stores, reloads>>
    BY <1>3 DEF Pick, Queue
  <2>2. /\ Only(j) /\ phase[j] = "idle" /\ phase'[j] = "queued"
        /\ wanted'[j] = n /\ chosen'[j] = <<>> /\ stale'[j] = FALSE
    BY <2>1, Queued
  <2>3. Shape'
    BY <2>1, <2>2, Lists DEF Shape, Only, Domains, Alike, stores
  <2> QED
    BY <2>1, <2>2, <2>3 DEF Only, Alike, stores
<1>4. ASSUME NEW j \in Presses, Press(j) PROVE StateInv'
  <2>1. Queue(j, pending, options) /\ ~fridge /\ UNCHANGED <<fridge, stores, reloads>> /\ pending \in Names \cup {NoName}
    BY <1>4 DEF Press, Queue, Shape
  <2>2. /\ Only(j) /\ phase[j] = "idle" /\ phase'[j] = "queued"
        /\ wanted'[j] = pending /\ chosen'[j] = options /\ stale'[j] = FALSE
    BY <2>1, Queued
  <2>3. Shape'
    BY <2>1, <2>2 DEF Shape, Only, Domains, Alike, stores
  <2> QED
    BY <2>1, <2>2, <2>3 DEF Only, Alike, stores
<1>5. ASSUME NEW j \in Presses, Run(j) \/ SendProgram(j) PROVE StateInv'
  <2>1. UNCHANGED <<fridge, stores, reloads>>
    BY <1>5 DEF Run, SendProgram, budgets, history, crossing
  <2>2. /\ Only(j) /\ Turn(j) /\ phase'[j] \in {"sending", "failed"}
        /\ wanted'[j] = wanted[j] /\ chosen'[j] = chosen[j]
        /\ Run(j) => active' = Target(j)
        /\ SendProgram(j) => active' = wanted[j]
        /\ phase'[j] = "sending" => \E v : bundle'[j] = [program |-> Base(active'), values |-> v]
    BY <1>5, Runs
  <2>3. Shape'
    BY <2>1, <2>2 DEF Shape, Only, Domains, Alike, stores
  <2>4. OneSends'
    BY <2>2 DEF Only, Alike, Turn
  <2>5. NothingBuffered'
    BY <2>1, <2>2 DEF Only, Alike, stores
  <2>6. fridge \/ wanted[j] # NoName => active' = wanted[j]
    BY <1>5, <2>2 DEF Target, Run
  <2>7. ASSUME phase'[j] = "sending" PROVE bundle'[j] # NoEntry /\ bundle'[j].program = Base(active')
    <3>1. PICK v : bundle'[j] = [program |-> Base(active'), values |-> v]
      BY <2>2, <2>7
    <3>2. bundle'[j] # NoEntry
      BY <3>1, Distinct, Zenon
    <3> QED
      BY <3>1, <3>2
  <2>8. SendsItsProgram'
    BY <2>1, <2>2, <2>6, <2>7 DEF Only, Alike
  <2> QED
    BY <2>3, <2>4, <2>5, <2>8
<1>6. ASSUME NEW j \in Presses, RunStale(j) \/ Accepted(j) \/ Fails(j) \/ TimesOut(j) PROVE StateInv'
  <2>1. /\ Only(j) /\ phase'[j] \in {"accepted", "failed"}
        /\ wanted'[j] = wanted[j] /\ chosen'[j] = chosen[j] /\ bundle'[j] = bundle[j]
        /\ UNCHANGED <<fridge, stores, reloads>>
        /\ phase[j] = "sending" \/ phase'[j] = "failed"
    BY <1>6, Ends
  <2>2. Shape'
    BY <2>1 DEF Shape, Only, Domains, Alike, stores
  <2> QED
    BY <2>1, <2>2 DEF Only, Alike, stores
<1>7. ASSUME NEW j \in Presses, Returns(j) PROVE StateInv'
  <2>1. /\ Only(j) /\ phase'[j] = "idle"
        /\ wanted'[j] = NoName /\ chosen'[j] = <<>>
        /\ UNCHANGED <<fridge, reloads>>
        /\ pending' \in {pending, NoName} /\ options' \in {options, Left(options, chosen[j])}
    BY <1>7, ReturnsTo
  <2>2. Shape'
    BY <2>1, Lists DEF Shape, Only, Domains, Alike
  <2> QED
    BY <2>1, <2>2 DEF Only, Alike
<1>8. ASSUME NEW closed \in BOOLEAN, Reload(closed) PROVE StateInv'
  BY <1>8, Distinct DEF Reload, Shape, stores
<1>9. CASE UNCHANGED vars
  BY <1>9 DEF vars, Shape, stores, engine, pressVar, budgets, history, crossing
<1> QED
  BY <1>1, <1>2, <1>3, <1>4, <1>5, <1>6, <1>7, <1>8, <1>9 DEF Next

LEMMA StateHolds == Spec => []StateInv
<1> QED
  BY StateInit, StateStep, PTL DEF Spec

\* A program chosen during a press stays in the history.
LEMMA CrossStep ==
  ASSUME CrossInv, [Next]_vars
  PROVE  CrossInv' /\ (hurried => hurried')
<1> USE DEF CrossInv
<1>1. ASSUME NEW n \in Names, Choose(n) PROVE CrossInv' /\ (hurried => hurried')
  <2> DEFINE late == IF pending = n THEN {} ELSE {j \in Presses : InFlight(j)}
  <2>1. overtaken' = overtaken \cup late /\ hurried' = (hurried \/ late # {})
    BY <1>1 DEF Choose, Overtakes
  <2>2. late \subseteq Presses
    OBVIOUS
  <2> HIDE DEF late
  <2>3. overtaken' \subseteq Presses /\ hurried' \in BOOLEAN
    BY <2>1, <2>2
  <2>4. overtaken' # {} => hurried'
    BY <2>1
  <2>5. hurried => hurried'
    BY <2>1
  <2> QED
    BY <2>3, <2>4, <2>5
<1>2. ASSUME NEW j \in Presses, NEW n, NEW os, Queue(j, n, os) PROVE CrossInv' /\ (hurried => hurried')
  <2>1. overtaken' = overtaken \ {j} /\ hurried' = hurried
    BY <1>2 DEF Queue
  <2> QED
    BY <2>1
<1>3. ASSUME NEW j \in Presses, Press(j) \/ \E n \in Names : Pick(j, n) PROVE CrossInv' /\ (hurried => hurried')
  BY <1>2, <1>3 DEF Press, Pick
<1>4. CASE UNCHANGED <<overtaken, hurried>>
  BY <1>4
<1>5. ASSUME NEW k \in Options, NEW v, Buffer(k, v) PROVE UNCHANGED <<overtaken, hurried>>
  BY <1>5 DEF Buffer, history, crossing
<1>6. ASSUME NEW j \in Presses,
             Run(j) \/ SendProgram(j) \/ RunStale(j) \/ Accepted(j) \/ Fails(j) \/ TimesOut(j) \/ Returns(j)
      PROVE  UNCHANGED <<overtaken, hurried>>
  BY <1>6 DEF Run, SendProgram, RunStale, Accepted, Fails, TimesOut, Returns, history, crossing
<1>7. ASSUME NEW closed \in BOOLEAN, Reload(closed) PROVE UNCHANGED <<overtaken, hurried>>
  BY <1>7 DEF Reload, history, crossing
<1>8. CASE UNCHANGED vars
  BY <1>4, <1>8 DEF vars, history, crossing
<1> QED
  BY <1>1, <1>3, <1>4, <1>5, <1>6, <1>7, <1>8 DEF Next

LEMMA CrossHolds == Spec => []CrossInv
<1>1. Init => CrossInv
  BY DEF Init, CrossInv
<1> QED
  BY <1>1, CrossStep, PTL DEF Spec


-----------------------------------------------------------------------------
(* The types, if the rules end: what the entities offer and a start sends. *)

LEMMA LargestExists ==
  ASSUME NEW T, T # {}, NEW B \in Nat, NEW size, \A p \in T : size[p] \in Nat /\ size[p] <= B
  PROVE  \E p \in T : \A q \in T : size[q] <= size[p]
<1> SUFFICES ASSUME ~\E p \in T : \A q \in T : size[q] <= size[p] PROVE FALSE
  OBVIOUS
<1> DEFINE N == {n \in Nat : \E p \in T : size[p] >= n}
<1>1. 0 \in N
  OBVIOUS
<1>2. ASSUME NEW n \in N PROVE n + 1 \in N
  <2>1. PICK p \in T : size[p] >= n
    OBVIOUS
  <2>2. PICK q \in T : ~(size[q] <= size[p])
    OBVIOUS
  <2>3. size[q] >= n + 1
    BY <2>1, <2>2
  <2> QED
    BY <2>3
<1>3. N = Nat
  <2> HIDE DEF N
  <2> QED
    BY <1>1, <1>2, NatSetInduction DEF N
<1>4. B + 1 \in N
  <2> HIDE DEF N
  <2> QED
    BY <1>3
<1> QED
  BY <1>4

LEMMA RichestIs ==
  ASSUME RulesTerminate, NEW k
  PROVE  Richest(k) \in SUBSET Codes
<1> DEFINE settable == {p \in Programs : k \in Exposed(p) /\ Schema[p][k].kind # "fixed"}
<1> DEFINE size == [p \in settable |-> Cardinality(WithFavourites[p][k].allowed)]
<1> SUFFICES ASSUME settable # {} PROVE Richest(k) \in SUBSET Codes
  BY DEF Richest
<1>1. ASSUME NEW p \in settable PROVE WithFavourites[p][k].allowed \in SUBSET Codes
  <2>1. WithFavourites[p] \in States /\ k \in DOMAIN WithFavourites[p]
    BY RecoveredIs DEF AllCommanded
  <2> QED
    BY <2>1, StatesAre
<1>2. IsFiniteSet(Codes)
  BY FS_Interval, ProgramsAssumption DEF Codes
<1>3. Cardinality(Codes) \in Nat
  BY <1>2, FS_CardinalityType
<1>4. ASSUME NEW p \in settable PROVE size[p] \in Nat /\ size[p] <= Cardinality(Codes)
  <2> DEFINE a == WithFavourites[p][k].allowed
  <2>1. a \in SUBSET Codes
    BY <1>1
  <2> HIDE DEF a
  <2>2. IsFiniteSet(a) /\ Cardinality(a) <= Cardinality(Codes)
    BY <1>2, <2>1, FS_Subset
  <2>3. Cardinality(a) \in Nat
    BY <2>2, FS_CardinalityType
  <2>4. size[p] = Cardinality(a)
    BY DEF a
  <2> QED
    BY <2>2, <2>3, <2>4
<1>5. \E p \in settable : \A q \in settable : size[q] <= size[p]
  <2> HIDE DEF settable, size
  <2> QED
    BY <1>3, <1>4, LargestExists
<1> DEFINE best == CHOOSE p \in settable : \A q \in settable :
        Cardinality(WithFavourites[q][k].allowed) <= Cardinality(WithFavourites[p][k].allowed)
<1>6. \E p \in settable : \A q \in settable :
        Cardinality(WithFavourites[q][k].allowed) <= Cardinality(WithFavourites[p][k].allowed)
  BY <1>5
<1>7. best \in settable
  <2> HIDE DEF settable
  <2> QED
    BY <1>6
<1>8. Richest(k) = WithFavourites[best][k].allowed
  BY DEF Richest
<1> QED
  BY <1>1, <1>7, <1>8

LEMMA BaseIs == \A n \in Names : Base(n) \in Programs
BY ProgramsAssumption DEF Names, Base

LEMMA OfferedIs ==
  ASSUME RulesTerminate, AllCommanded(state), active \in Names, NEW k
  PROVE  Offered(k) \in SUBSET Codes
<1>1. Listed(k) \in SUBSET Codes
  BY RichestIs DEF Listed
<1>2. LiveRange(k) \in SUBSET Codes
  <2> DEFINE p == Base(active)
  <2>1. p \in Programs
    BY BaseIs
  <2>2. CASE k \in Exposed(p) /\ Schema[p][k].kind = "range"
    <3>1. state[p] \in States /\ k \in DOMAIN state[p]
      BY <2>1, <2>2 DEF AllCommanded
    <3>2. state[p][k].allowed \in SUBSET Codes
      BY <3>1, StatesAre
    <3> QED
      BY <2>2, <3>2 DEF LiveRange
  <2>3. CASE ~(k \in Exposed(p) /\ Schema[p][k].kind = "range")
    BY <1>1, <2>3 DEF LiveRange
  <2> QED
    BY <2>2, <2>3
<1>3. OnOff(k) \in SUBSET Codes
  BY <1>1 DEF OnOff
<1> QED
  BY <1>1, <1>2, <1>3 DEF Offered

\* What a start makes of the options: each that the program has and that no rule of
\* it targets has its value in the end.
LEMMA OverlayIs ==
  ASSUME RulesTerminate, AllCommanded(state), NEW p \in Programs,
         NEW os \in Seq(Buffered), UniqueKeys(os)
  PROVE  /\ IsResult(Overlay(p, os), state[p])
         /\ Overlay(p, os).ok => \A i \in DOMAIN os :
              os[i].key \in Exposed(p) /\ ~RuledOn(p, os[i].key)
                => Overlay(p, os).state[os[i].key].value = os[i].value
<1> DEFINE P == {i \in DOMAIN os : os[i].key \in Exposed(p)}
<1> DEFINE set == Kept(os, P)
<1> DEFINE todo == [i \in DOMAIN set |-> Set(set[i].key, set[i].value)]
<1>1. Overlay(p, os) = Assign(p, state[p], todo)
  BY DEF Overlay
<1>2. P \subseteq DOMAIN os /\ DOMAIN os = 1 .. Len(os)
      /\ \A i \in DOMAIN os : i \in P <=> os[i].key \in Exposed(p)
  OBVIOUS
<1> HIDE DEF P
<1>3. set \in Seq(Buffered) /\ \E at : PlacedBy(at, set, os, P, Len(os))
  BY KeptElements
<1> HIDE DEF set
<1>4. PICK at : PlacedBy(at, set, os, P, Len(os))
  BY <1>3
<1>5. ASSUME NEW i \in DOMAIN set PROVE set[i].key \in Options /\ set[i].value \in Codes
  <2> DEFINE o == set[i]
  <2>1. o \in Buffered
    BY <1>3
  <2> HIDE DEF o
  <2>2. o.key \in Options /\ o.value \in Codes
    BY <2>1 DEF Buffered
  <2> QED
    BY <2>2 DEF o
<1>6. \A i \in DOMAIN set : /\ todo[i] \in Todo /\ todo[i].key = set[i].key /\ todo[i].value = set[i].value
                            /\ todo[i].by = "set" /\ todo[i].given = <<>>
  BY <1>5, SetIs
<1>7. DOMAIN todo = DOMAIN set /\ DOMAIN set = 1 .. Len(set) /\ Len(set) \in Nat
  BY <1>3
<1>8. todo \in Seq(Todo)
  <2>1. todo \in [1 .. Len(set) -> Todo]
    BY <1>6, <1>7
  <2> QED
    BY <1>7, <2>1
<1> HIDE DEF todo
<1>9. state[p] \in States /\ DOMAIN state[p] = Exposed(p)
  BY DEF AllCommanded
<1>10. IsResult(Overlay(p, os), state[p])
  BY <1>1, <1>8, <1>9, AssignIs
<1>11. ASSUME Overlay(p, os).ok, NEW i \in DOMAIN os, os[i].key \in Exposed(p), ~RuledOn(p, os[i].key)
       PROVE  Overlay(p, os).state[os[i].key].value = os[i].value
  <2> DEFINE k == os[i].key
  <2> DEFINE w == [program |-> p, state |-> state[p], todo |-> todo]
  <2>1. PICK h \in DOMAIN set : at[h] = i
    BY <1>2, <1>4, <1>11 DEF PlacedBy
  <2>2. set[h] = os[i]
    BY <1>4, <2>1 DEF PlacedBy
  <2>3. ASSUME NEW g \in DOMAIN todo \ {h} PROVE todo[g].key # k
    <3>1. at[g] \in DOMAIN os /\ at[g] # i /\ set[g] = os[at[g]]
      BY <1>2, <1>4, <1>7, <2>1 DEF PlacedBy
    <3>2. os[at[g]].key # os[i].key
      BY <3>1 DEF UniqueKeys
    <3> QED
      BY <1>6, <1>7, <3>1, <3>2
  <2>4. OneFor(k, os[i].value, todo)
    BY <1>6, <1>7, <2>2, <2>3 DEF OneFor
  <2>5. w \in Work
    BY <1>8, <1>9 DEF Work
  <2>6. w.program = p /\ w.state = state[p] /\ w.todo = todo /\ Overlay(p, os) = Outcome[w]
    BY <1>1 DEF Assign
  <2> HIDE DEF w
  <2>7. k \in DOMAIN w.state /\ ~RuledOn(w.program, k) /\ OneFor(k, os[i].value, w.todo) /\ Outcome[w].ok
    BY <1>9, <1>11, <2>4, <2>6
  <2> HIDE DEF k
  <2>8. Outcome[w].state[k].value = os[i].value
    BY <2>5, <2>7, Honoured
  <2> QED
    BY <2>6, <2>8 DEF k
<1> QED
  BY <1>10, <1>11

LEMMA PutKeys ==
  ASSUME NEW S, NEW os \in Seq(S), UniqueKeys(os), NEW o
  PROVE  UniqueKeys(Put(os, o))
<1>1. DOMAIN os = 1 .. Len(os) /\ Len(os) \in Nat
  OBVIOUS
<1>2. CASE \E i \in DOMAIN os : os[i].key = o.key
  <2>1. Put(os, o) = [i \in DOMAIN os |-> IF os[i].key = o.key THEN o ELSE os[i]]
    BY <1>2 DEF Put
  <2>2. \A i \in DOMAIN os : Put(os, o)[i].key = os[i].key
    BY <2>1
  <2> QED
    BY <2>1, <2>2 DEF UniqueKeys
<1>3. CASE ~\E i \in DOMAIN os : os[i].key = o.key
  <2>1. Put(os, o) = Append(os, o)
    BY <1>3 DEF Put
  <2>2. os \in Seq(S \cup {o})
    OBVIOUS
  <2>3. /\ DOMAIN Put(os, o) = 1 .. Len(os) + 1
        /\ \A i \in 1 .. Len(os) : Put(os, o)[i] = os[i]
        /\ Put(os, o)[Len(os) + 1] = o
    BY <2>1, <2>2
  <2>4. \A i \in DOMAIN Put(os, o) : i \in DOMAIN os \/ i = Len(os) + 1
    BY <1>1, <2>3
  <2> QED
    BY <1>1, <1>3, <2>3, <2>4 DEF UniqueKeys
<1> QED
  BY <1>2, <1>3

\* TypeOK in parts, with what it takes of the lists and of a fridge's presses.
SetupType ==
  /\ fridge \in BOOLEAN /\ unsure \in BOOLEAN
  /\ edits \in 0 .. MaxEdits /\ presses \in 0 .. MaxPresses
  /\ faults \in 0 .. MaxFaults /\ reloads \in 0 .. MaxReloads
EngineType == active \in Names /\ AllCommanded(state) /\ last \in Sent \cup {NoEntry}
BufferType ==
  /\ options \in Seq(Buffered) /\ UniqueKeys(options)
  /\ chosen \in [Presses -> Seq(Buffered)] /\ \A j \in Presses : UniqueKeys(chosen[j])
PressType ==
  /\ previous \in [Presses -> Names] /\ stale \in [Presses -> BOOLEAN]
  /\ bundle \in [Presses -> Sent \cup {NoEntry}]
  /\ \A j \in Presses : fridge /\ InFlight(j) => wanted[j] \in Names
TypeInv == SetupType /\ EngineType /\ BufferType /\ PressType

LEMMA TypeParts == StateInv /\ TypeInv /\ CrossInv => TypeOK
<1> SUFFICES ASSUME StateInv, TypeInv, CrossInv PROVE TypeOK
  OBVIOUS
<1>1. Shape /\ SendsItsProgram
  BY DEF StateInv
<1>2. /\ pending \in Names \cup {NoName} /\ phase \in [Presses -> {"idle", "queued", "sending", "accepted", "failed"}]
      /\ wanted \in [Presses -> Names \cup {NoName}]
  BY <1>1 DEF Shape
<1>3. \A j \in Presses : phase[j] \in {"sending", "accepted"} => bundle[j] # NoEntry
  BY <1>1 DEF SendsItsProgram
<1> QED
  BY <1>2, <1>3
  DEF TypeInv, SetupType, EngineType, BufferType, PressType, CrossInv, AllCommanded, UniqueKeys, TypeOK

LEMMA TypeInit == RulesTerminate => (Init => TypeInv)
<1> SUFFICES ASSUME RulesTerminate, Init PROVE TypeInv
  OBVIOUS
<1>1. SetupType
  <2>1. fridge \in BOOLEAN /\ unsure = FALSE /\ edits = 0 /\ presses = 0 /\ faults = 0 /\ reloads = 0
    BY DEF Init
  <2>2. /\ edits \in 0 .. MaxEdits /\ presses \in 0 .. MaxPresses
        /\ faults \in 0 .. MaxFaults /\ reloads \in 0 .. MaxReloads
    BY <2>1, PressBoundsAssumption
  <2> QED
    BY <2>1, <2>2 DEF SetupType
<1>2. EngineType
  BY RecoveredIs, Distinct DEF Init, EngineType
<1>3. BufferType
  BY DEF Init, BufferType, UniqueKeys
<1>4. PressType
  BY Distinct DEF Init, PressType, InFlight
<1> QED
  BY <1>1, <1>2, <1>3, <1>4 DEF TypeInv

LEMMA ValuesAre ==
  ASSUME NEW c \in States, NEW p \in Programs
  PROVE  [program |-> p, values |-> Values(c)] \in Sent /\ DOMAIN Values(c) = DOMAIN c
         /\ \A k \in DOMAIN c : Values(c)[k] = c[k].value
<1>1. DOMAIN c \subseteq Options /\ c \in [DOMAIN c -> [value : Codes, allowed : SUBSET Codes]]
  BY StatesAre
<1>2. Values(c) \in [DOMAIN c -> Codes]
  BY <1>1 DEF Values
<1>3. Values(c) \in Settings
  BY <1>1, <1>2, SettingsAre
<1> QED
  BY <1>3 DEF Sent, Values

LEMMA BuffersAre ==
  ASSUME BufferType
  PROVE  /\ options \in Seq(Buffered) /\ UniqueKeys(options) /\ <<>> \in Seq(Buffered) /\ UniqueKeys(<<>>)
         /\ \A sent : Left(options, sent) \in Seq(Buffered) /\ UniqueKeys(Left(options, sent))
<1>1. options \in Seq(Buffered) /\ UniqueKeys(options)
  BY DEF BufferType
<1>2. \A sent : Left(options, sent) \in Seq(Buffered) /\ UniqueKeys(Left(options, sent))
  BY <1>1, LeftElements
<1>3. <<>> \in Seq(Buffered) /\ UniqueKeys(<<>>)
  BY DEF UniqueKeys
<1> QED
  BY <1>1, <1>2, <1>3

\* The bounds of the counters.
LEMMA SetupStays ==
  ASSUME SetupType, UNCHANGED fridge, unsure' \in BOOLEAN,
         edits' = edits \/ (edits < MaxEdits /\ edits' = edits + 1),
         presses' = presses \/ (presses < MaxPresses /\ presses' = presses + 1),
         faults' = faults \/ Fault,
         reloads' = reloads \/ (reloads < MaxReloads /\ reloads' = reloads + 1)
  PROVE  SetupType'
<1>1. fridge' \in BOOLEAN /\ unsure' \in BOOLEAN
  BY DEF SetupType
<1>2. edits' \in 0 .. MaxEdits /\ presses' \in 0 .. MaxPresses
  BY PressBoundsAssumption DEF SetupType
<1>3. faults' \in 0 .. MaxFaults /\ reloads' \in 0 .. MaxReloads
  BY PressBoundsAssumption DEF SetupType, Fault
<1> QED
  BY <1>1, <1>2, <1>3 DEF SetupType

LEMMA TypeStep ==
  ASSUME RulesTerminate
  PROVE  StateInv /\ TypeInv /\ [Next]_vars => TypeInv'
<1> SUFFICES ASSUME StateInv, TypeInv, [Next]_vars PROVE TypeInv'
  OBVIOUS
<1>s. Shape /\ NothingBuffered /\ SetupType /\ EngineType /\ BufferType /\ PressType
  BY DEF StateInv, TypeInv
<1>q. SetupType' /\ EngineType' /\ BufferType' /\ PressType' => TypeInv'
  BY DEF TypeInv
<1>f. unsure \in BOOLEAN
  BY <1>s DEF SetupType
<1>e. UNCHANGED <<engine, last>> => EngineType'
  BY <1>s DEF EngineType, AllCommanded, engine
<1>b. UNCHANGED <<options, chosen>> => BufferType'
  BY <1>s DEF BufferType
<1>p. UNCHANGED <<fridge, pressVar>> => PressType'
  BY <1>s DEF PressType, InFlight, pressVar
<1>1. ASSUME NEW n \in Names, Choose(n) PROVE TypeInv'
  <2>1. SetupType'
    BY <1>1, <1>s, <1>f, SetupStays DEF Choose
  <2>2. UNCHANGED <<fridge, engine, last, pressVar>> /\ options' \in {<<>>, options}
    BY <1>1 DEF Choose
  <2>3. BufferType'
    BY <1>s, <2>2, BuffersAre DEF BufferType, pressVar
  <2> QED
    BY <1>q, <1>e, <1>p, <2>1, <2>2, <2>3
<1>2. ASSUME NEW k \in Options, NEW v \in Offered(k), Buffer(k, v) PROVE TypeInv'
  <2>1. SetupType'
    BY <1>2, <1>s, <1>f, SetupStays DEF Buffer, history
  <2>2. UNCHANGED <<fridge, engine, last, pressVar>>
    BY <1>2 DEF Buffer
  <2> DEFINE o == [key |-> k, value |-> v, chosenFor |-> pending]
  <2>3. o \in Buffered
    <3>1. v \in Codes
      BY <1>s, OfferedIs DEF EngineType
    <3>2. pending \in Names \cup {NoName}
      BY <1>s DEF Shape
    <3> QED
      BY <3>1, <3>2 DEF Buffered
  <2>4. options' = Put(options, o) /\ UNCHANGED chosen
    BY <1>2, <2>2 DEF Buffer, pressVar
  <2> HIDE DEF o
  <2>5. options' \in Seq(Buffered) /\ UniqueKeys(options')
    <3>1. options \in Seq(Buffered) /\ UniqueKeys(options)
      BY <1>s DEF BufferType
    <3>2. Put(options, o) \in Seq(Buffered \cup {o}) /\ Buffered \cup {o} = Buffered
      BY <2>3, <3>1, PutElements
    <3> QED
      BY <2>4, <3>1, <3>2, PutKeys
  <2>6. BufferType'
    BY <1>s, <2>4, <2>5 DEF BufferType
  <2> QED
    BY <1>q, <1>e, <1>p, <2>1, <2>2, <2>6
<1>3. ASSUME NEW j \in Presses, NEW n \in Names \cup {NoName}, NEW os \in {options, <<>>},
             Queue(j, n, os), fridge => n \in Names
      PROVE  TypeInv'
  <2>1. SetupType'
    BY <1>3, <1>s, <1>f, SetupStays DEF Queue
  <2>2. UNCHANGED <<fridge, stores, engine, last, previous, bundle>>
    BY <1>3 DEF Queue
  <2>3. BufferType'
    <3>1. chosen' = [chosen EXCEPT ![j] = os] /\ options' = options
      BY <1>3, <2>2 DEF Queue, stores
    <3>2. os \in Seq(Buffered) /\ UniqueKeys(os)
      BY <1>s, BuffersAre
    <3> QED
      BY <1>s, <3>1, <3>2 DEF BufferType
  <2>4. PressType'
    BY <1>3, <1>s, <2>2 DEF Queue, PressType, InFlight, Shape
  <2> QED
    BY <1>q, <1>e, <2>1, <2>2, <2>3, <2>4
<1>4. ASSUME NEW j \in Presses, Run(j) PROVE TypeInv'
  <2> DEFINE p == Base(Target(j))
  <2> DEFINE r == Overlay(p, chosen[j])
  <2>1. /\ Turn(j) /\ active' = Target(j) /\ state' = [state EXCEPT ![p] = r.state]
        /\ IF r.ok THEN Posted(j, p, r.state)
                   ELSE phase' = [phase EXCEPT ![j] = "failed"] /\ UNCHANGED bundle
        /\ UNCHANGED <<fridge, stores, wanted, chosen, previous, stale, last, budgets, history>>
    BY <1>4 DEF Run
  <2>2. Target(j) \in Names
    BY <1>s DEF Target, Shape, EngineType
  <2>3. p \in Programs
    BY <2>2, BaseIs
  <2>4. IsResult(r, state[p])
    BY <1>s, <2>3, OverlayIs DEF EngineType, BufferType
  <2> HIDE DEF r, p
  <2>5. r.state \in States /\ DOMAIN r.state = Exposed(p)
    BY <1>s, <2>3, <2>4 DEF IsResult, EngineType, AllCommanded
  <2>6. EngineType'
    BY <1>s, <2>1, <2>2, <2>3, <2>5 DEF EngineType, AllCommanded
  <2>7. [program |-> p, values |-> Values(r.state)] \in Sent
    BY <2>3, <2>5, ValuesAre
  <2>8. bundle' \in [Presses -> Sent \cup {NoEntry}]
    BY <1>s, <2>1, <2>7 DEF Posted, PressType
  <2>9. phase' \in {[phase EXCEPT ![j] = "failed"], [phase EXCEPT ![j] = "sending"]}
    BY <2>1 DEF Posted
  <2>10. PressType'
    BY <1>s, <2>1, <2>8, <2>9 DEF PressType, InFlight, Shape, Turn
  <2>11. SetupType'
    BY <1>s, <2>1 DEF SetupType, budgets, history, crossing
  <2> QED
    BY <1>q, <1>b, <2>1, <2>6, <2>10, <2>11 DEF stores
<1>5. ASSUME NEW j \in Presses, SendProgram(j) PROVE TypeInv'
  <2> DEFINE p == Base(wanted[j])
  <2>1. /\ fridge /\ Turn(j) /\ previous' = [previous EXCEPT ![j] = active] /\ active' = wanted[j]
        /\ phase' = [phase EXCEPT ![j] = "sending"]
        /\ bundle' = [bundle EXCEPT ![j] = [program |-> p, values |-> Values(state[p])]]
        /\ UNCHANGED <<fridge, stores, state, wanted, chosen, stale, last, budgets, history>>
    BY <1>5 DEF SendProgram, Posted
  <2>2. wanted[j] \in Names
    BY <1>s, <2>1 DEF Turn, PressType, InFlight
  <2>3. p \in Programs
    BY <2>2, BaseIs
  <2> HIDE DEF p
  <2>4. state[p] \in States
    BY <1>s, <2>3 DEF EngineType, AllCommanded
  <2>5. [program |-> p, values |-> Values(state[p])] \in Sent
    BY <2>3, <2>4, ValuesAre
  <2>6. EngineType'
    BY <1>s, <2>1, <2>2 DEF EngineType, AllCommanded
  <2>7. PressType'
    BY <1>s, <2>1, <2>2, <2>5 DEF PressType, InFlight, EngineType, Shape
  <2>8. SetupType'
    BY <1>s, <2>1 DEF SetupType, budgets, history, crossing
  <2> QED
    BY <1>q, <1>b, <2>1, <2>6, <2>7, <2>8 DEF stores
<1>6. ASSUME NEW j \in Presses, RunStale(j) \/ Accepted(j) \/ Fails(j) \/ TimesOut(j) PROVE TypeInv'
  <2>1. /\ phase[j] \in {"queued", "sending"} /\ \E x : phase' = [phase EXCEPT ![j] = x]
        /\ UNCHANGED <<fridge, stores, state, wanted, chosen, previous, stale, bundle>>
        /\ active' \in {active, previous[j]} /\ last' \in {last, bundle[j]}
    BY <1>6 DEF RunStale, Accepted, Fails, TimesOut, Turn, engine
  <2>2. SetupType'
    BY <1>6, <1>s, <1>f, SetupStays DEF RunStale, Accepted, Fails, TimesOut, Fault, budgets, history, crossing
  <2>3. EngineType'
    BY <1>s, <2>1 DEF EngineType, AllCommanded, PressType
  <2>4. PressType'
    BY <1>s, <2>1 DEF PressType, InFlight, Shape
  <2> QED
    BY <1>q, <1>b, <2>1, <2>2, <2>3, <2>4 DEF stores
<1>7. ASSUME NEW j \in Presses, Returns(j) PROVE TypeInv'
  <2>1. /\ phase' = [phase EXCEPT ![j] = "idle"] /\ wanted' = [wanted EXCEPT ![j] = NoName]
        /\ chosen' = [chosen EXCEPT ![j] = <<>>] /\ previous' = [previous EXCEPT ![j] = FirstProgram]
        /\ bundle' = [bundle EXCEPT ![j] = NoEntry] /\ options' \in {options, Left(options, chosen[j])}
        /\ UNCHANGED <<fridge, engine, stale, last, budgets, history>>
    BY <1>7 DEF Returns, Forgotten, stores
  <2>2. SetupType'
    BY <1>s, <2>1 DEF SetupType, budgets, history, crossing
  <2>3. BufferType'
    <3>1. options' \in Seq(Buffered) /\ UniqueKeys(options') /\ <<>> \in Seq(Buffered) /\ UniqueKeys(<<>>)
      BY <1>s, <2>1, BuffersAre
    <3> QED
      BY <1>s, <2>1, <3>1 DEF BufferType
  <2>4. PressType'
    BY <1>s, <2>1, Distinct DEF PressType, InFlight, Shape
  <2> QED
    BY <1>q, <1>e, <2>1, <2>2, <2>3, <2>4
<1>8. ASSUME NEW closed \in BOOLEAN, Reload(closed) PROVE TypeInv'
  <2>1. /\ active' = FirstProgram /\ state' = Recovered(IF last = NoEntry THEN <<>> ELSE last.values)
        /\ stale' = [j \in Presses |-> stale[j] \/ (closed /\ phase[j] = "queued")]
        /\ UNCHANGED <<fridge, stores, phase, wanted, chosen, previous, bundle, last, edits, presses, faults, history>>
    BY <1>8 DEF Reload
  <2>2. SetupType'
    BY <1>8, <1>s, <1>f, <2>1, SetupStays DEF Reload, history
  <2>3. (IF last = NoEntry THEN <<>> ELSE last.values) \in Settings
    BY <1>s, SettingsAre DEF EngineType, Sent
  <2>4. EngineType'
    BY <1>s, <2>1, <2>3, RecoveredIs, Distinct DEF EngineType
  <2>5. stale' \in [Presses -> BOOLEAN]
    BY <1>s, <2>1 DEF PressType
  <2>6. PressType'
    BY <1>s, <2>1, <2>5 DEF PressType, InFlight
  <2> QED
    BY <1>q, <1>b, <2>1, <2>2, <2>4, <2>6 DEF stores
<1>9. CASE UNCHANGED vars
  <2>1. SetupType'
    BY <1>9, <1>s DEF SetupType, vars, budgets, history, crossing
  <2> QED
    BY <1>9, <1>q, <1>e, <1>b, <1>p, <2>1 DEF vars, stores, pressVar
<1>10. ASSUME NEW j \in Presses, Press(j) \/ \E n \in Names : Pick(j, n) PROVE TypeInv'
  <2>1. CASE Press(j)
    BY <1>3, <1>s, <2>1 DEF Press, Shape
  <2>2. ASSUME NEW n \in Names, Pick(j, n) PROVE TypeInv'
    BY <1>3, <2>2 DEF Pick
  <2> QED
    BY <1>10, <2>1, <2>2
<1> QED
  BY <1>1, <1>2, <1>4, <1>5, <1>6, <1>7, <1>8, <1>9, <1>10 DEF Next

LEMMA TypeHolds == ASSUME RulesTerminate PROVE Spec => []TypeInv
<1>1. Init => TypeInv
  BY TypeInit
<1>2. StateInv /\ TypeInv /\ [Next]_vars => TypeInv'
  BY TypeStep
<1> QED
  BY <1>1, <1>2, StateHolds, PTL DEF Spec

\* If the rules of every program end, the entities offer, the stores hold and a start
\* sends what they should.
THEOREM TypeCorrect == ASSUME RulesTerminate PROVE Spec => []TypeOK
<1> QED
  BY TypeParts, StateHolds, TypeHolds, CrossHolds, PTL


-----------------------------------------------------------------------------
(* The fridge.                                                             *)

LEMMA FridgeInit == Init => FridgeInv
BY ProgramsAssumption DEF Init, FridgeInv, InCloud, Base, Names

LEMMA FridgeStep == StateInv /\ FridgeInv /\ [Next]_vars => FridgeInv'
<1> SUFFICES ASSUME StateInv, FridgeInv, [Next]_vars, (fridge /\ ~unsure /\ reloads = 0)' PROVE FridgeInv'
  BY DEF FridgeInv
<1>s. Shape /\ OneSends /\ SendsItsProgram
  BY DEF StateInv
<1>0. CASE UNCHANGED <<fridge, unsure, reloads, active, wanted, previous, last>>
           /\ \A j \in Presses : phase'[j] = "sending" <=> phase[j] = "sending"
  BY <1>0 DEF FridgeInv, InCloud
<1>1. ASSUME NEW n \in Names, Choose(n) PROVE FridgeInv'
  BY <1>0, <1>1 DEF Choose, engine, pressVar
<1>2. ASSUME NEW k \in Options, NEW v, Buffer(k, v) PROVE FridgeInv'
  BY <1>0, <1>2 DEF Buffer, engine, pressVar
<1>3. ASSUME NEW j \in Presses, NEW n \in Names \cup {NoName}, NEW os, Queue(j, n, os) PROVE FridgeInv'
  <2>1. Only(j) /\ phase[j] = "idle" /\ phase'[j] = "queued"
    BY <1>s, <1>3, Queued
  <2>2. UNCHANGED <<fridge, unsure, reloads, active, last>>
    BY <1>3 DEF Queue, engine
  <2> QED
    BY <2>1, <2>2 DEF FridgeInv, InCloud, Only, Alike
<1>4. ASSUME NEW j \in Presses, Run(j) \/ SendProgram(j) PROVE FridgeInv'
  <2>1. UNCHANGED <<fridge, unsure, reloads, last>> /\ (fridge => SendProgram(j))
    BY <1>4 DEF Run, SendProgram, budgets, history, crossing
  <2>2. /\ Only(j) /\ Turn(j) /\ wanted'[j] = wanted[j]
        /\ active' = wanted[j] /\ previous'[j] = active /\ phase'[j] = "sending"
    BY <1>s, <1>4, <2>1, Runs
  <2>3. \A i \in Presses : phase[i] # "sending"
    BY <2>2 DEF Turn
  <2>4. Base(active) = InCloud
    BY <2>1, <2>3 DEF FridgeInv
  <2>5. \A i \in Presses \ {j} : phase'[i] # "sending"
    BY <2>2, <2>3 DEF Only, Alike
  <2>6. Base(previous'[j]) = InCloud' /\ active' = wanted'[j]
    BY <2>1, <2>2, <2>4 DEF InCloud
  <2> QED
    BY <2>2, <2>5, <2>6 DEF FridgeInv
<1>5. ASSUME NEW j \in Presses, RunStale(j) PROVE FridgeInv'
  <2>1. /\ Only(j) /\ phase[j] = "queued" /\ phase'[j] = "failed" /\ UNCHANGED <<fridge, reloads, active>>
        /\ wanted'[j] = wanted[j] /\ previous'[j] = previous[j]
    BY <1>s, <1>5, Ends
  <2>2. UNCHANGED <<unsure, last>>
    BY <1>5 DEF RunStale, history
  <2> QED
    BY <2>1, <2>2 DEF FridgeInv, InCloud, Only, Alike
<1>6. ASSUME NEW j \in Presses, Accepted(j) \/ Fails(j) PROVE FridgeInv'
  <2>1. /\ Only(j) /\ phase'[j] \in {"accepted", "failed"} /\ UNCHANGED <<fridge, reloads>>
    BY <1>s, <1>6, Ends
  <2>2. phase[j] = "sending"
    BY <1>6 DEF Accepted, Fails
  <2>3. ~unsure
    BY <1>6 DEF Accepted, Fails, history
  <2>4. active = wanted[j] /\ Base(previous[j]) = InCloud
    BY <2>1, <2>2, <2>3 DEF FridgeInv
  <2>5. bundle[j] # NoEntry /\ bundle[j].program = Base(wanted[j])
    BY <1>s, <2>1, <2>2 DEF SendsItsProgram
  <2>6. \A i \in Presses : phase'[i] # "sending"
    BY <1>s, <2>1, <2>2 DEF OneSends, Only, Alike
  <2>7. Base(active') = InCloud'
    <3>1. CASE Accepted(j)
      BY <3>1, <2>4, <2>5 DEF Accepted, engine, InCloud
    <3>2. CASE Fails(j)
      BY <3>2, <2>1, <2>4 DEF Fails, InCloud
    <3> QED
      BY <1>6, <3>1, <3>2
  <2> QED
    BY <2>6, <2>7 DEF FridgeInv
<1>7. ASSUME NEW j \in Presses, TimesOut(j) PROVE FALSE
  BY <1>7 DEF TimesOut
<1>8. ASSUME NEW j \in Presses, Returns(j) PROVE FridgeInv'
  <2>1. /\ Only(j) /\ phase[j] # "sending" /\ phase'[j] = "idle"
        /\ UNCHANGED <<fridge, active, last, reloads, unsure>>
    BY <1>s, <1>8, ReturnsTo
  <2> QED
    BY <2>1 DEF FridgeInv, InCloud, Only, Alike
<1>9. ASSUME NEW closed \in BOOLEAN, Reload(closed) PROVE FALSE
  BY <1>s, <1>9 DEF Reload, Shape
<1>10. CASE UNCHANGED vars
  BY <1>0, <1>10 DEF vars, engine, pressVar, budgets, history, crossing
<1>11. ASSUME NEW j \in Presses, Press(j) \/ \E n \in Names : Pick(j, n) PROVE FridgeInv'
  BY <1>3, <1>11, <1>s DEF Press, Pick, Shape
<1> QED
  BY <1>1, <1>2, <1>4, <1>5, <1>6, <1>7, <1>8, <1>9, <1>10, <1>11 DEF Next

\* As long as every answer arrives, the active program of a fridge is the one the
\* cloud has taken last: a refused command leaves no trace (async_send_program).
THEOREM RefusedLeavesNoTrace == Spec => []FridgeFollowsTheCloud
<1>1. FridgeInv => FridgeFollowsTheCloud
  BY DEF FridgeInv, FridgeFollowsTheCloud, InCloud
<1> QED
  BY <1>1, StateHolds, FridgeInit, FridgeStep, PTL DEF Spec

-----------------------------------------------------------------------------
(* Washers and dryers: the program chosen and its options.                 *)

\* An option that is in the buffer stays there, unless another program is chosen or a
\* press that has sent it with this value was accepted.
OptionsAreKept ==
  [][pending' \in {pending, NoName} =>
       \A h \in DOMAIN options :
         \/ \E i \in DOMAIN options' : options'[i].key = options[h].key
         \/ \E j \in Presses : Succeeds(j) /\ Holds(chosen[j], options[h])]_vars

\* A start that fails, or during which an option is changed, loses no option
\* (async_press, after the executor).
THEOREM NoOptionIsLost == Spec => OptionsAreKept
<1>1. ASSUME Shape, [Next]_vars, pending' \in {pending, NoName}, NEW h \in DOMAIN options,
             ~\E i \in DOMAIN options' : options'[i].key = options[h].key
      PROVE  \E j \in Presses : Succeeds(j) /\ Holds(chosen[j], options[h])
  <2>1. ASSUME UNCHANGED options PROVE FALSE
    BY <1>1, <2>1
  <2>2. ASSUME NEW n \in Names, Choose(n) PROVE FALSE
    BY <1>1, <2>1, <2>2, Distinct DEF Choose
  <2>3. ASSUME NEW k \in Options, NEW v, Buffer(k, v) PROVE FALSE
    <3>1. PICK S : options \in Seq(S)
      BY <1>1 DEF Shape, List
    <3>2. PICK o : options' = Put(options, o)
      BY <2>3 DEF Buffer
    <3>3. HasKeysOf(options', options)
      BY <3>1, <3>2, PutElements
    <3> QED
      BY <1>1, <3>3 DEF HasKeysOf
  <2>4. ASSUME NEW j \in Presses, Returns(j) PROVE \E g \in Presses : Succeeds(g) /\ Holds(chosen[g], options[h])
    <3>1. phase[j] = "accepted" /\ options' = Left(options, chosen[j]) /\ phase'[j] = "idle"
      BY <1>1, <2>1, <2>4 DEF Returns, stores, Shape
    <3>2. PICK S : options \in Seq(S)
      BY <1>1 DEF Shape, List
    <3>3. Holds(chosen[j], options[h]) \/ \E i \in DOMAIN options' : options'[i] = options[h]
      BY <3>1, <3>2, LeftElements, <1>1
    <3> QED
      BY <1>1, <3>1, <3>3 DEF Succeeds
  <2>5. CASE UNCHANGED vars
    BY <2>1, <2>5 DEF vars, stores
  <2>6. ASSUME NEW j \in Presses, Press(j) \/ (\E n \in Names : Pick(j, n)) \/ Run(j) \/ SendProgram(j)
                 \/ RunStale(j) \/ Accepted(j) \/ Fails(j) \/ TimesOut(j)
        PROVE  FALSE
    BY <2>1, <2>6 DEF Press, Pick, Queue, Run, SendProgram, RunStale, Accepted, Fails, TimesOut, stores
  <2>7. ASSUME NEW closed \in BOOLEAN, Reload(closed) PROVE FALSE
    BY <2>1, <2>7 DEF Reload, stores
  <2> QED
    BY <1>1, <2>2, <2>3, <2>4, <2>5, <2>6, <2>7 DEF Next
<1>2. StateInv /\ [Next]_vars =>
        [pending' \in {pending, NoName} =>
           \A h \in DOMAIN options :
             \/ \E i \in DOMAIN options' : options'[i].key = options[h].key
             \/ \E j \in Presses : Succeeds(j) /\ Holds(chosen[j], options[h])]_vars
  BY <1>1 DEF StateInv
<1> QED
  BY <1>2, StateHolds, PTL DEF Spec, OptionsAreKept

LEMMA WishInit == Init => WishInv
BY DEF Init, WishInv, InFlight

LEMMA WishStep == StateInv /\ WishInv /\ [Next]_vars => WishInv'
<1> SUFFICES ASSUME StateInv, WishInv, [Next]_vars PROVE WishInv'
  OBVIOUS
<1>s. Shape
  BY DEF StateInv
<1>0. CASE UNCHANGED <<pending, overtaken>> /\ \A j \in Presses : (phase'[j] = phase[j] \/ phase[j] # "idle") /\ wanted'[j] = wanted[j]
  BY <1>0 DEF WishInv, InFlight
<1>1. ASSUME NEW n \in Names, Choose(n) PROVE WishInv'
  <2>1. UNCHANGED <<phase, wanted>> /\ pending' = n
    BY <1>1 DEF Choose, pressVar
  <2>2. overtaken' = overtaken \cup IF pending = n THEN {} ELSE {j \in Presses : InFlight(j)}
    BY <1>1 DEF Choose, Overtakes
  <2>3. CASE pending = n
    BY <2>1, <2>2, <2>3 DEF WishInv, InFlight
  <2>4. CASE pending # n
    BY <2>1, <2>2, <2>4 DEF WishInv, InFlight
  <2> QED
    BY <2>3, <2>4
<1>2. ASSUME NEW k \in Options, NEW v, Buffer(k, v) PROVE WishInv'
  BY <1>0, <1>2 DEF Buffer, pressVar, history, crossing
<1>3. ASSUME NEW j \in Presses, NEW n \in Names, Pick(j, n) PROVE WishInv'
  <2>1. pending = NoName /\ UNCHANGED pending
    BY <1>3 DEF Pick, Queue, StateInv, NothingBuffered, stores
  <2> QED
    BY <2>1 DEF WishInv
<1>4. ASSUME NEW j \in Presses, Press(j) PROVE WishInv'
  <2>1. Only(j) /\ wanted'[j] = pending /\ UNCHANGED pending /\ overtaken' = overtaken \ {j}
    BY <1>s, <1>4, Queued DEF Press, Queue, stores, Shape
  <2> QED
    BY <2>1 DEF WishInv, InFlight, Only, Alike
<1>5. ASSUME NEW j \in Presses, Run(j) \/ SendProgram(j) PROVE WishInv'
  <2>1. Only(j) /\ wanted'[j] = wanted[j] /\ phase[j] = "queued"
    BY <1>s, <1>5, Runs DEF Turn
  <2>2. UNCHANGED <<pending, overtaken>>
    BY <1>5 DEF Run, SendProgram, stores, history, crossing
  <2> QED
    BY <1>0, <2>1, <2>2 DEF Only, Alike
<1>6. ASSUME NEW j \in Presses, RunStale(j) \/ Accepted(j) \/ Fails(j) \/ TimesOut(j) PROVE WishInv'
  <2>1. Only(j) /\ wanted'[j] = wanted[j] /\ phase[j] # "idle" /\ UNCHANGED pending
    BY <1>s, <1>6, Ends DEF stores
  <2>2. UNCHANGED overtaken
    BY <1>6 DEF RunStale, Accepted, Fails, TimesOut, history, crossing
  <2> QED
    BY <1>0, <2>1, <2>2 DEF Only, Alike
<1>7. ASSUME NEW j \in Presses, Returns(j) PROVE WishInv'
  <2>1. Only(j) /\ phase'[j] = "idle" /\ pending' \in {pending, NoName}
    BY <1>s, <1>7, ReturnsTo
  <2>2. UNCHANGED overtaken
    BY <1>7 DEF Returns, history, crossing
  <2> QED
    BY <2>1, <2>2 DEF WishInv, InFlight, Only, Alike
<1>8. ASSUME NEW closed \in BOOLEAN, Reload(closed) PROVE WishInv'
  BY <1>0, <1>8 DEF Reload, stores, history, crossing
<1>9. CASE UNCHANGED vars
  BY <1>0, <1>9 DEF vars, stores, pressVar, history, crossing
<1> QED
  BY <1>1, <1>2, <1>3, <1>4, <1>5, <1>6, <1>7, <1>8, <1>9 DEF Next

\* A program is dropped only by a press that has sent it and was accepted, or during
\* which it was chosen.
ProgramIsKept ==
  [][pending # NoName /\ pending' = NoName =>
       \E j \in Presses : Succeeds(j) /\ (bundle[j].program = Base(pending) \/ j \in overtaken)]_vars

\* The program chosen is pending until a command for it was accepted, whatever presses
\* fail or overlap; only a press that was under way when it was chosen may drop it
\* unsent (async_press, after the executor).
THEOREM NoProgramIsLost == Spec => ProgramIsKept
<1>1. ASSUME StateInv, WishInv, [Next]_vars, pending # NoName, pending' = NoName
      PROVE  \E j \in Presses :
               Succeeds(j) /\ (bundle[j].program = Base(pending) \/ j \in overtaken)
  <2>1. PICK j \in Presses : Returns(j)
    BY <1>1, Distinct DEF Next, vars, stores, Choose, Buffer, Pick, Press, Queue, Run, SendProgram, RunStale,
       Accepted, Fails, TimesOut, Reload
  <2>2. phase[j] = "accepted" /\ phase'[j] = "idle" /\ wanted[j] # NoName
    BY <1>1, <2>1 DEF Returns, stores, StateInv, Shape
  <2>3. j \notin overtaken => wanted[j] = pending
    BY <1>1, <2>2 DEF WishInv, InFlight
  <2> QED
    BY <1>1, <2>2, <2>3 DEF StateInv, SendsItsProgram, Succeeds
<1>2. StateInv /\ WishInv /\ [Next]_vars =>
        [pending # NoName /\ pending' = NoName =>
           \E j \in Presses :
             Succeeds(j) /\ (bundle[j].program = Base(pending) \/ j \in overtaken)]_vars
  BY <1>1
<1> QED
  BY <1>2, StateHolds, WishInit, WishStep, PTL DEF Spec, ProgramIsKept

\* A press posts in one of two ways.
LEMMA PostedBy ==
  ASSUME Shape, [Next]_vars, NEW j \in Presses, Posts(j)
  PROVE  Run(j) \/ SendProgram(j)
<1>1. ASSUME NEW i \in Presses, i # j, Run(i) \/ SendProgram(i) PROVE FALSE
  BY <1>1, Runs DEF Only, Alike, Posts
<1>2. ASSUME NEW i \in Presses, RunStale(i) \/ Accepted(i) \/ Fails(i) \/ TimesOut(i) PROVE FALSE
  BY <1>2, Ends DEF Only, Alike, Posts
<1>3. ASSUME NEW i \in Presses, Returns(i) PROVE FALSE
  BY <1>3, ReturnsTo DEF Only, Alike, Posts
<1>4. ASSUME NEW i \in Presses, Press(i) \/ \E n \in Names : Pick(i, n) PROVE FALSE
  BY <1>4, Queued DEF Shape, Press, Pick, Only, Alike, Posts
<1>5. phase' # phase
  BY DEF Posts
<1> QED
  BY <1>1, <1>2, <1>3, <1>4, <1>5 DEF Next, vars, pressVar, Choose, Buffer, Reload

LEMMA OptionsFor ==
  /\ \A n : ChosenFor(<<>>, n)
  /\ \A os, n : ChosenFor(os, NoName) => ChosenFor(os, n)
  /\ \A os, sent, n : List(os) /\ ChosenFor(os, n) => ChosenFor(Left(os, sent), n)
  /\ \A os, o, n : List(os) /\ ChosenFor(os, n) /\ o.chosenFor \in {NoName, n} => ChosenFor(Put(os, o), n)
<1>1. ASSUME NEW os, NEW sent, NEW n, List(os), ChosenFor(os, n) PROVE ChosenFor(Left(os, sent), n)
  <2>1. \A i \in DOMAIN Left(os, sent) : \E h \in DOMAIN os : Left(os, sent)[i] = os[h]
    BY <1>1, LeftElements DEF List
  <2> QED
    BY <1>1, <2>1 DEF ChosenFor
<1>2. ASSUME NEW os, NEW o, NEW n, List(os), ChosenFor(os, n), o.chosenFor \in {NoName, n}
      PROVE  ChosenFor(Put(os, o), n)
  <2>1. IsFrom(Put(os, o), os, o)
    BY <1>2, PutElements DEF List
  <2> QED
    BY <1>2, <2>1 DEF ChosenFor, IsFrom
<1>3. \A n : ChosenFor(<<>>, n)
  BY DEF ChosenFor
<1>4. \A os, n : ChosenFor(os, NoName) => ChosenFor(os, n)
  BY DEF ChosenFor
<1> QED
  BY <1>1, <1>2, <1>3, <1>4

LEMMA TravelInit == Init => TravelInv
BY OptionsFor DEF Init, TravelInv, InFlight, HaveRun

\* The program the buffer belongs to.
Buffers == IF pending = NoName THEN active ELSE pending

LEMMA TravelStep ==
  StateInv /\ CrossInv /\ WishInv /\ TravelInv /\ [Next]_vars => TravelInv'
<1> SUFFICES ASSUME StateInv, CrossInv, WishInv, TravelInv, [Next]_vars,
                    (reloads = 0 /\ ~fridge /\ ~hurried)'
             PROVE  TravelInv'
  BY DEF TravelInv
<1>s. Shape
  BY DEF StateInv
<1>h. ~hurried /\ overtaken = {}
  BY CrossStep DEF CrossInv
<1>w. \A j \in Presses : InFlight(j) => wanted[j] = pending \/ pending = NoName
  BY <1>h DEF WishInv
<1> DEFINE Fine(j) ==
         /\ ~stale[j]
         /\ InFlight(j) /\ pending = NoName => wanted[j] \in {NoName, active}
         /\ HaveRun(j) /\ wanted[j] # NoName => active = wanted[j]
         /\ InFlight(j) => ChosenFor(chosen[j], Target(j))
<1>t. reloads = 0 /\ ~fridge => (\A j \in Presses : Fine(j)) /\ ChosenFor(options, Buffers)
  BY <1>h DEF TravelInv, Buffers
<1>u. (\A j \in Presses : Fine(j)') /\ ChosenFor(options', Buffers') => TravelInv'
  BY DEF TravelInv, Buffers
<1>v. ASSUME NEW j \in Presses, Fine(j), Alike(j), UNCHANGED <<pending, active>> PROVE Fine(j)'
  BY <1>v DEF Alike, InFlight, HaveRun, Target
<1> HIDE DEF Fine
<1>1. ASSUME NEW n \in Names, Choose(n) PROVE TravelInv'
  <2>1. UNCHANGED <<fridge, reloads, active>> /\ pending' = n /\ \A j \in Presses : Alike(j)
    BY <1>1 DEF Choose, engine, pressVar, Alike
  <2>2. \A j \in Presses : Fine(j)'
    <3>1. CASE pending = n
      BY <1>t, <1>v, <2>1, <3>1
    <3>2. CASE pending # n
      <4>1. \A j \in Presses : ~InFlight(j)
        <5> DEFINE late == {j \in Presses : InFlight(j)}
        <5>1. hurried' = (hurried \/ late # {})
          BY <1>1, <3>2 DEF Choose, Overtakes
        <5>2. late = {}
          BY <5>1
        <5> QED
          BY <5>2
      <4> QED
        BY <1>t, <2>1, <4>1 DEF Fine, InFlight, HaveRun, Alike
    <3> QED
      BY <3>1, <3>2
  <2>3. ChosenFor(options', Buffers')
    BY <1>1, <1>t, <2>1, OptionsFor, Distinct DEF Choose, Buffers
  <2> QED
    BY <1>u, <2>2, <2>3
<1>2. ASSUME NEW k \in Options, NEW v, Buffer(k, v) PROVE TravelInv'
  <2>1. UNCHANGED <<fridge, reloads, pending, active>> /\ \A j \in Presses : Alike(j)
    BY <1>2 DEF Buffer, engine, pressVar, Alike
  <2>2. PICK o : options' = Put(options, o) /\ o.chosenFor = pending
    BY <1>2 DEF Buffer
  <2>3. ChosenFor(options', Buffers')
    BY <1>s, <1>t, <2>1, <2>2, OptionsFor DEF Buffers, Shape
  <2> QED
    BY <1>t, <1>u, <1>v, <2>1, <2>3
<1>3. ASSUME NEW j \in Presses, NEW n \in Names, Pick(j, n) PROVE FALSE
  BY <1>3 DEF Pick, Queue
<1>4. ASSUME NEW j \in Presses, Press(j) PROVE TravelInv'
  <2>1. Queue(j, pending, options) /\ UNCHANGED <<fridge, reloads, pending, options, active>>
        /\ pending \in Names \cup {NoName}
    BY <1>s, <1>4 DEF Press, Queue, stores, engine, Shape
  <2>2. Only(j) /\ phase'[j] = "queued" /\ wanted'[j] = pending /\ chosen'[j] = options /\ ~stale'[j]
    BY <1>s, <2>1, Queued
  <2>3. Fine(j)'
    BY <1>t, <2>1, <2>2 DEF Fine, HaveRun, Target, Buffers
  <2> QED
    BY <1>t, <1>u, <1>v, <2>1, <2>2, <2>3 DEF Only, Buffers
<1>5. ASSUME NEW j \in Presses, Run(j) PROVE TravelInv'
  <2>1. UNCHANGED <<fridge, reloads, pending, options>>
    BY <1>5 DEF Run, stores, budgets, history, crossing
  <2>2. /\ Only(j) /\ Turn(j) /\ active' = Target(j)
        /\ wanted'[j] = wanted[j] /\ chosen'[j] = chosen[j] /\ stale'[j] = stale[j]
    BY <1>s, <1>5, Runs
  <2>3. Fine(j) /\ InFlight(j)
    BY <1>t, <2>1, <2>2 DEF Turn, InFlight
  <2>4. pending = NoName => active' = active
    BY <2>2, <2>3 DEF Fine, Target
  <2>5. wanted[j] = pending \/ pending = NoName
    BY <1>w, <2>3
  <2>6. ASSUME NEW i \in Presses \ {j} PROVE Fine(i)'
    <3>1. Fine(i) /\ Alike(i)
      BY <1>t, <2>1, <2>2 DEF Only
    <3>2. CASE UNCHANGED active
      BY <1>v, <2>1, <3>1, <3>2
    <3>3. CASE pending # NoName
      <4>1. InFlight(i) => wanted[i] = pending /\ active' = pending
        BY <1>w, <2>2, <2>5, <3>3 DEF Target
      <4> QED
        BY <2>1, <3>1, <3>3, <4>1 DEF Fine, Alike, InFlight, HaveRun, Target
    <3> QED
      BY <2>4, <3>2, <3>3
  <2>7. Fine(j)'
    BY <2>1, <2>2, <2>3, <2>4 DEF Fine, Target, InFlight, HaveRun
  <2>8. Buffers' = Buffers
    BY <2>1, <2>4 DEF Buffers
  <2> QED
    BY <1>t, <1>u, <2>1, <2>6, <2>7, <2>8
<1>6. ASSUME NEW j \in Presses, SendProgram(j) PROVE FALSE
  BY <1>6 DEF SendProgram
<1>7. ASSUME NEW j \in Presses, RunStale(j) \/ Accepted(j) \/ Fails(j) \/ TimesOut(j) PROVE TravelInv'
  <2>1. /\ Only(j) /\ wanted'[j] = wanted[j] /\ chosen'[j] = chosen[j] /\ stale'[j] = stale[j]
        /\ phase'[j] \in {"accepted", "failed"} /\ UNCHANGED <<fridge, reloads, pending, options>>
        /\ (RunStale(j) => stale[j]) /\ (~RunStale(j) => phase[j] = "sending")
    BY <1>s, <1>7, Ends DEF stores
  <2>2. Fine(j) /\ ~RunStale(j) /\ phase[j] = "sending"
    BY <1>t, <2>1 DEF Fine
  <2>3. UNCHANGED active
    BY <1>7, <2>1, <2>2 DEF Accepted, Fails, TimesOut, engine
  <2>4. Fine(j)'
    BY <2>1, <2>2, <2>3 DEF Fine, InFlight, HaveRun, Target
  <2> QED
    BY <1>t, <1>u, <1>v, <2>1, <2>3, <2>4 DEF Only, Buffers
<1>8. ASSUME NEW j \in Presses, Returns(j) PROVE TravelInv'
  <2>1. /\ Only(j) /\ phase[j] \in {"accepted", "failed"} /\ phase'[j] = "idle" /\ wanted'[j] = NoName
        /\ stale'[j] = stale[j] /\ UNCHANGED <<fridge, active, reloads>>
        /\ pending' \in {pending, NoName} /\ options' \in {options, Left(options, chosen[j])}
    BY <1>s, <1>8, ReturnsTo
  <2>2. Fine(j)
    BY <1>t, <2>1
  <2>3. ASSUME pending' # pending PROVE pending' = NoName /\ wanted[j] = pending /\ active = pending
    <3>1. pending' = NoName /\ wanted[j] # NoName /\ pending # NoName
      BY <1>8, <2>1, <2>3 DEF Returns, stores
    <3>2. wanted[j] = pending
      BY <1>w, <2>1, <3>1 DEF InFlight
    <3> QED
      BY <2>1, <2>2, <3>1, <3>2 DEF Fine, HaveRun
  <2>4. Buffers' = Buffers
    BY <2>1, <2>3 DEF Buffers
  <2>5. ASSUME NEW i \in Presses \ {j} PROVE Fine(i)'
    <3>1. Fine(i) /\ Alike(i)
      BY <1>t, <2>1 DEF Only
    <3>2. CASE pending' = pending
      BY <1>v, <2>1, <3>1, <3>2
    <3>3. CASE pending' # pending
      <4>1. pending' = NoName /\ active = pending /\ pending # NoName
        BY <2>1, <2>3, <3>3
      <4>2. InFlight(i) => wanted[i] = active
        BY <1>w, <4>1
      <4> QED
        BY <2>1, <3>1, <4>1, <4>2 DEF Fine, Alike, InFlight, HaveRun, Target
    <3> QED
      BY <3>2, <3>3
  <2>6. Fine(j)'
    BY <2>1, <2>2 DEF Fine, InFlight, HaveRun
  <2>7. ChosenFor(options', Buffers')
    BY <1>s, <1>t, <2>1, <2>4, OptionsFor DEF Shape
  <2> QED
    BY <1>u, <2>5, <2>6, <2>7
<1>9. ASSUME NEW closed \in BOOLEAN, Reload(closed) PROVE FALSE
  BY <1>s, <1>9 DEF Reload, Shape
<1>10. CASE UNCHANGED vars
  <2>1. UNCHANGED <<fridge, reloads, pending, options, active>> /\ \A j \in Presses : Alike(j)
    BY <1>10 DEF vars, stores, engine, pressVar, budgets, history, crossing, Alike
  <2> QED
    BY <1>t, <1>u, <1>v, <2>1 DEF Buffers
<1> QED
  BY <1>1, <1>2, <1>3, <1>4, <1>5, <1>6, <1>7, <1>8, <1>9, <1>10 DEF Next

LEMMA BufferInit == Init => BufferInv
BY DEF Init, BufferInv, OnlyFor

LEMMA BufferStep == StateInv /\ BufferInv /\ [Next]_vars => BufferInv'
<1> SUFFICES ASSUME StateInv, BufferInv, [Next]_vars PROVE BufferInv'
  OBVIOUS
<1>s. Shape /\ NothingBuffered
  BY DEF StateInv
<1> DEFINE Fine(j) == wanted[j] # NoName => OnlyFor(chosen[j], wanted[j])
<1>f. (pending # NoName => OnlyFor(options, pending)) /\ \A j \in Presses : Fine(j)
  BY DEF BufferInv
<1>u. (pending' # NoName => OnlyFor(options', pending')) /\ (\A j \in Presses : Fine(j)') => BufferInv'
  BY DEF BufferInv, OnlyFor
<1>a. ASSUME NEW j \in Presses, wanted'[j] = wanted[j], chosen'[j] = chosen[j] PROVE Fine(j)'
  BY <1>a, <1>f DEF OnlyFor
<1> HIDE DEF Fine
<1>o. ASSUME NEW j \in Presses, Only(j), Fine(j)' PROVE \A i \in Presses : Fine(i)'
  <2>1. ASSUME NEW i \in Presses, i # j PROVE Fine(i)'
    BY <1>a, <1>o, <2>1 DEF Only, Alike
  <2> QED
    BY <1>o, <2>1
<1>1. ASSUME NEW n \in Names, Choose(n) PROVE BufferInv'
  <2>1. pending' = n /\ options' = (IF pending = n THEN options ELSE <<>>) /\ UNCHANGED <<wanted, chosen>>
    BY <1>1 DEF Choose, pressVar
  <2>2. OnlyFor(options', pending')
    BY <1>f, <2>1, Distinct DEF OnlyFor
  <2> QED
    BY <1>a, <1>u, <2>1, <2>2
<1>2. ASSUME NEW k \in Options, NEW v, Buffer(k, v) PROVE BufferInv'
  <2>1. UNCHANGED <<pending, wanted, chosen>>
    BY <1>2 DEF Buffer, pressVar
  <2>2. PICK o : options' = Put(options, o) /\ o.chosenFor = pending
    BY <1>2 DEF Buffer
  <2>3. IsFrom(Put(options, o), options, o)
    BY <1>s, PutElements DEF Shape, List
  <2>4. pending # NoName => OnlyFor(options', pending)
    BY <1>f, <2>2, <2>3 DEF OnlyFor, IsFrom
  <2> QED
    BY <1>a, <1>u, <2>1, <2>4
<1>3. ASSUME NEW j \in Presses, NEW n \in Names \cup {NoName}, NEW os, Queue(j, n, os),
             n # NoName => OnlyFor(os, n)
      PROVE  BufferInv'
  <2>1. UNCHANGED <<pending, options>>
    BY <1>3 DEF Queue, stores
  <2>2. Only(j) /\ wanted'[j] = n /\ chosen'[j] = os
    BY <1>3, <1>s, Queued
  <2>3. Fine(j)'
    BY <1>3, <2>2 DEF Fine, OnlyFor
  <2> QED
    BY <1>f, <1>o, <1>u, <2>1, <2>2, <2>3 DEF OnlyFor
<1>4. ASSUME NEW j \in Presses, Press(j) \/ \E n \in Names : Pick(j, n) PROVE BufferInv'
  <2>1. CASE Press(j)
    BY <1>3, <1>f, <1>s, <2>1 DEF Press, Shape
  <2>2. ASSUME NEW n \in Names, Pick(j, n) PROVE BufferInv'
    <3>1. Queue(j, n, <<>>) /\ OnlyFor(<<>>, n)
      BY <2>2 DEF Pick, OnlyFor
    <3> QED
      BY <1>3, <3>1
  <2> QED
    BY <1>4, <2>1, <2>2
<1>5. ASSUME NEW j \in Presses,
             Run(j) \/ SendProgram(j) \/ RunStale(j) \/ Accepted(j) \/ Fails(j) \/ TimesOut(j)
      PROVE  BufferInv'
  <2>1. UNCHANGED <<pending, options, wanted, chosen>>
    BY <1>5 DEF Run, SendProgram, RunStale, Accepted, Fails, TimesOut, stores
  <2> QED
    BY <1>a, <1>f, <1>u, <2>1 DEF OnlyFor
<1>6. ASSUME NEW j \in Presses, Returns(j) PROVE BufferInv'
  <2>1. /\ Only(j) /\ wanted'[j] = NoName /\ pending' \in {pending, NoName}
        /\ options' \in {options, Left(options, chosen[j])}
    BY <1>s, <1>6, ReturnsTo
  <2>2. \A i \in DOMAIN Left(options, chosen[j]) :
          \E h \in DOMAIN options : Left(options, chosen[j])[i] = options[h]
    BY <1>s, LeftElements DEF Shape, List
  <2>3. pending' # NoName => OnlyFor(options', pending')
    BY <1>f, <2>1, <2>2 DEF OnlyFor
  <2>4. Fine(j)'
    BY <2>1 DEF Fine
  <2> QED
    BY <1>o, <1>u, <2>1, <2>3, <2>4
<1>7. ASSUME NEW closed \in BOOLEAN, Reload(closed) PROVE BufferInv'
  <2>1. UNCHANGED <<pending, options, wanted, chosen>>
    BY <1>7 DEF Reload, stores
  <2> QED
    BY <1>a, <1>f, <1>u, <2>1 DEF OnlyFor
<1>8. CASE UNCHANGED vars
  <2>1. UNCHANGED <<pending, options, wanted, chosen>>
    BY <1>8 DEF vars, stores, pressVar
  <2> QED
    BY <1>a, <1>f, <1>u, <2>1 DEF OnlyFor
<1> QED
  BY <1>1, <1>2, <1>4, <1>5, <1>6, <1>7, <1>8 DEF Next

\* The options chosen for one program never travel with another: a press that wants a
\* program has options of that one only, whatever is chosen, started or reloaded
\* meanwhile; one that wants none has options of the active program, until a reload and
\* as long as no program was chosen during a press (HonProgramSelect clears the buffer,
\* and a press takes copies of both).
THEOREM OptionsTravelWithTheirProgram == Spec => OptionsStayWithTheirProgram
<1>1. ASSUME StateInv, CrossInv, BufferInv, TravelInv, [Next]_vars, NEW j \in Presses, Posts(j),
             NEW i \in DOMAIN chosen[j]
      PROVE  /\ wanted[j] # NoName => chosen[j][i].chosenFor = wanted[j]
             /\ reloads = 0 /\ ~hurried => chosen[j][i].chosenFor \in {NoName, active'}
  <2>1. wanted[j] # NoName => chosen[j][i].chosenFor = wanted[j]
    BY <1>1 DEF BufferInv, OnlyFor
  <2>2. CASE Run(j)
    <3>1. active' = Target(j) /\ ~fridge /\ InFlight(j)
      BY <2>2 DEF Run, Turn, InFlight
    <3>2. reloads = 0 /\ ~hurried => ChosenFor(chosen[j], Target(j))
      BY <1>1, <3>1 DEF TravelInv
    <3> QED
      BY <1>1, <2>1, <3>1, <3>2 DEF ChosenFor
  <2>3. CASE SendProgram(j)
    <3>1. chosen[j] = <<>>
      BY <1>1, <2>3 DEF SendProgram, StateInv, NothingBuffered
    <3> QED
      BY <1>1, <3>1
  <2> QED
    BY <1>1, <2>2, <2>3, PostedBy DEF StateInv
<1>2. StateInv /\ CrossInv /\ BufferInv /\ TravelInv /\ [Next]_vars =>
        [\A j \in Presses : Posts(j) =>
           \A i \in DOMAIN chosen[j] :
             LET for == chosen[j][i].chosenFor
             IN  /\ wanted[j] # NoName => for = wanted[j]
                 /\ reloads = 0 /\ ~hurried => for \in {NoName, active'}]_vars
  BY <1>1
<1> QED
  BY <1>2, StateHolds, CrossHolds, BufferInit, BufferStep, WishInit, WishStep, TravelInit, TravelStep, PTL
  DEF Spec, OptionsStayWithTheirProgram

-----------------------------------------------------------------------------
(* What a start sends, if the rules end.                                   *)

\* What is being sent, or was taken, has the options of its press.
CarriesInv ==
  \A j \in Presses : phase[j] \in {"sending", "accepted"} =>
    \A i \in DOMAIN chosen[j] : Sends(bundle[j], chosen[j][i])

LEMMA RunCarries ==
  ASSUME RulesTerminate, Shape, EngineType, BufferType, NEW j \in Presses, Run(j), phase'[j] = "sending"
  PROVE  \A i \in DOMAIN chosen[j] : Sends(bundle'[j], chosen[j][i])
<1> DEFINE p == Base(Target(j))
<1> DEFINE r == Overlay(p, chosen[j])
<1>1. /\ IF r.ok THEN Posted(j, p, r.state)
                 ELSE phase' = [phase EXCEPT ![j] = "failed"] /\ UNCHANGED bundle
  BY DEF Run
<1>2. p \in Programs
  BY BaseIs DEF Target, Shape, EngineType
<1> HIDE DEF p
<1>3. chosen[j] \in Seq(Buffered) /\ UniqueKeys(chosen[j]) /\ AllCommanded(state)
  BY DEF BufferType, EngineType
<1>4. /\ IsResult(r, state[p])
      /\ r.ok => \A i \in DOMAIN chosen[j] :
           chosen[j][i].key \in Exposed(p) /\ ~RuledOn(p, chosen[j][i].key)
             => r.state[chosen[j][i].key].value = chosen[j][i].value
  BY <1>2, <1>3, OverlayIs
<1> HIDE DEF r
<1>5. r.state \in States /\ DOMAIN r.state = Exposed(p)
  BY <1>2, <1>3, <1>4 DEF IsResult, AllCommanded
<1>6. r.ok /\ bundle' = [bundle EXCEPT ![j] = [program |-> p, values |-> Values(r.state)]]
  BY <1>1 DEF Posted, Shape
<1>7. bundle'[j] = [program |-> p, values |-> Values(r.state)]
  BY <1>6 DEF Shape
<1>8. /\ DOMAIN Values(r.state) = Exposed(p)
      /\ \A k \in Exposed(p) : Values(r.state)[k] = r.state[k].value
  BY <1>2, <1>5, ValuesAre
<1>9. bundle'[j].program = p /\ bundle'[j].values = Values(r.state)
  BY <1>7
<1> QED
  BY <1>4, <1>6, <1>8, <1>9 DEF Sends

LEMMA CarriesInit == Init => CarriesInv
BY DEF Init, CarriesInv

LEMMA CarriesStep ==
  ASSUME RulesTerminate
  PROVE  StateInv /\ TypeInv /\ CarriesInv /\ [Next]_vars => CarriesInv'
<1> SUFFICES ASSUME StateInv, TypeInv, CarriesInv, [Next]_vars PROVE CarriesInv'
  OBVIOUS
<1>s. Shape /\ NothingBuffered /\ EngineType /\ BufferType
  BY DEF StateInv, TypeInv
<1> DEFINE Fine(j) == phase[j] \in {"sending", "accepted"} =>
                        \A i \in DOMAIN chosen[j] : Sends(bundle[j], chosen[j][i])
<1>f. \A j \in Presses : Fine(j)
  BY DEF CarriesInv
<1>a. ASSUME NEW j \in Presses, Alike(j) PROVE Fine(j)'
  BY <1>a, <1>f DEF Alike, Sends
<1>o. ASSUME NEW j \in Presses, Only(j), Fine(j)' PROVE CarriesInv'
  <2>1. \A i \in Presses : Fine(i)'
    BY <1>a, <1>o DEF Only
  <2> QED
    BY <2>1 DEF CarriesInv
<1>0. CASE UNCHANGED pressVar
  BY <1>0 DEF pressVar, CarriesInv, Sends
<1>1. ASSUME NEW n \in Names, Choose(n) PROVE CarriesInv'
  BY <1>0, <1>1 DEF Choose
<1>2. ASSUME NEW k \in Options, NEW v, Buffer(k, v) PROVE CarriesInv'
  BY <1>0, <1>2 DEF Buffer
<1>3. ASSUME NEW j \in Presses, NEW n \in Names \cup {NoName}, NEW os, Queue(j, n, os) PROVE CarriesInv'
  <2>1. Only(j) /\ phase'[j] = "queued"
    BY <1>s, <1>3, Queued
  <2> QED
    BY <1>o, <2>1
<1>4. ASSUME NEW j \in Presses, Run(j) PROVE CarriesInv'
  <2>1. Only(j) /\ phase'[j] \in {"sending", "failed"} /\ chosen'[j] = chosen[j]
    BY <1>s, <1>4, Runs
  <2>2. CASE phase'[j] = "sending"
    <3>1. \A i \in DOMAIN chosen[j] : Sends(bundle'[j], chosen[j][i])
      BY <1>s, <1>4, <2>2, RunCarries
    <3>2. Fine(j)'
      BY <2>1, <3>1 DEF Sends
    <3> QED
      BY <1>o, <2>1, <3>2
  <2>3. CASE phase'[j] # "sending"
    BY <1>o, <2>1, <2>3
  <2> QED
    BY <2>2, <2>3
<1>5. ASSUME NEW j \in Presses, SendProgram(j) PROVE CarriesInv'
  <2>1. Only(j) /\ chosen'[j] = chosen[j]
    BY <1>s, <1>5, Runs
  <2>2. chosen[j] = <<>>
    BY <1>s, <1>5 DEF SendProgram, NothingBuffered
  <2> QED
    BY <1>o, <2>1, <2>2
<1>6. ASSUME NEW j \in Presses, RunStale(j) \/ Accepted(j) \/ Fails(j) \/ TimesOut(j) PROVE CarriesInv'
  <2>1. /\ Only(j) /\ phase'[j] \in {"accepted", "failed"} /\ (RunStale(j) => phase'[j] = "failed")
        /\ chosen'[j] = chosen[j] /\ bundle'[j] = bundle[j] /\ (~RunStale(j) => phase[j] = "sending")
    BY <1>s, <1>6, Ends
  <2>2. Fine(j)'
    BY <1>f, <2>1 DEF Sends
  <2> QED
    BY <1>o, <2>1, <2>2
<1>7. ASSUME NEW j \in Presses, Returns(j) PROVE CarriesInv'
  <2>1. Only(j) /\ phase'[j] = "idle"
    BY <1>s, <1>7, ReturnsTo
  <2> QED
    BY <1>o, <2>1
<1>8. ASSUME NEW closed \in BOOLEAN, Reload(closed) PROVE CarriesInv'
  BY <1>8 DEF Reload, CarriesInv, Sends
<1>9. CASE UNCHANGED vars
  BY <1>0, <1>9 DEF vars
<1>10. ASSUME NEW j \in Presses, Press(j) \/ \E n \in Names : Pick(j, n) PROVE CarriesInv'
  BY <1>3, <1>10, <1>s DEF Press, Pick, Shape
<1> QED
  BY <1>1, <1>2, <1>4, <1>5, <1>6, <1>7, <1>8, <1>9, <1>10 DEF Next

LEMMA CarriesHolds == ASSUME RulesTerminate PROVE Spec => []CarriesInv
<1>1. StateInv /\ TypeInv /\ CarriesInv /\ [Next]_vars => CarriesInv'
  BY CarriesStep
<1>2. Spec => []TypeInv
  BY TypeHolds
<1> QED
  BY <1>1, <1>2, CarriesInit, StateHolds, PTL DEF Spec

\* A start sends the program chosen, with the options chosen that the program has and
\* none of its rules targets (button.py, _inner; apply_pending_options).
THEOREM StartSendsTheChoice == ASSUME RulesTerminate PROVE Spec => StartCarriesTheChoice
<1>1. ASSUME StateInv, TypeInv, CarriesInv', [Next]_vars, NEW j \in Presses, Posts(j)
      PROVE  /\ bundle'[j].program = Base(Target(j))
             /\ \A i \in DOMAIN chosen[j] : Sends(bundle'[j], chosen[j][i])
  <2>1. Run(j) \/ SendProgram(j)
    BY <1>1, PostedBy DEF StateInv
  <2>2. phase'[j] = "sending" /\ chosen'[j] = chosen[j]
    BY <1>1, <2>1, Runs DEF StateInv, Posts
  <2>3. \A i \in DOMAIN chosen[j] : Sends(bundle'[j], chosen[j][i])
    BY <1>1, <2>2 DEF CarriesInv, Sends
  <2>4. PICK v : bundle'[j] = [program |-> Base(active'), values |-> v]
    BY <1>1, <2>1, <2>2, Runs DEF StateInv
  <2>5. active' = Target(j)
    <3>1. CASE Run(j)
      BY <1>1, <3>1, Runs DEF StateInv
    <3>2. CASE SendProgram(j)
      <4>1. wanted[j] \in Names /\ active' = wanted[j]
        BY <1>1, <3>2 DEF SendProgram, TypeInv, PressType, InFlight, Turn
      <4> QED
        BY <4>1, Distinct DEF Target
    <3> QED
      BY <2>1, <3>1, <3>2
  <2> QED
    BY <2>3, <2>4, <2>5
<1>2. StateInv /\ TypeInv /\ CarriesInv' /\ [Next]_vars =>
        [\A j \in Presses : Posts(j) =>
           LET b == bundle'[j]
           IN  /\ b.program = Base(Target(j))
               /\ \A i \in DOMAIN chosen[j] :
                    LET o == chosen[j][i]
                    IN  o.key \in DOMAIN b.values /\ ~RuledOn(b.program, o.key)
                          => b.values[o.key] = o.value]_vars
  BY <1>1 DEF Sends
<1>3. Spec => []TypeInv /\ []CarriesInv
  BY TypeHolds, CarriesHolds
<1> QED
  BY <1>2, <1>3, StateHolds, PTL DEF Spec, StartCarriesTheChoice

\* A choice of the user ends up in a command that was accepted, or is replaced by
\* another one; the one exception is a program chosen during a press, which that press
\* may drop (async_press).
THEOREM ChoicesEndInACommand ==
  ASSUME RulesTerminate
  PROVE  Spec => ChoiceIsHonoured
<1>1. ASSUME StateInv, CarriesInv, pending' \in {pending, NoName}, NEW h \in DOMAIN options,
             \/ \E i \in DOMAIN options' : options'[i].key = options[h].key
             \/ \E j \in Presses : Succeeds(j) /\ Holds(chosen[j], options[h])
      PROVE  \/ \E i \in DOMAIN options' : options'[i].key = options[h].key
             \/ \E j \in Presses : Succeeds(j) /\ Sends(bundle[j], options[h])
  <2> SUFFICES ASSUME NEW j \in Presses, Succeeds(j), Holds(chosen[j], options[h])
               PROVE  Sends(bundle[j], options[h])
    BY <1>1
  <2>1. PICK i \in DOMAIN chosen[j] :
          chosen[j][i].key = options[h].key /\ chosen[j][i].value = options[h].value
    BY DEF Holds
  <2>2. Sends(bundle[j], chosen[j][i])
    BY <1>1 DEF CarriesInv, Succeeds
  <2> QED
    BY <2>1, <2>2 DEF Sends
<1>2. StateInv /\ CarriesInv
      /\ [pending # NoName /\ pending' = NoName =>
            \E j \in Presses :
              Succeeds(j) /\ (bundle[j].program = Base(pending) \/ j \in overtaken)]_vars
      /\ [pending' \in {pending, NoName} =>
            \A h \in DOMAIN options :
              \/ \E i \in DOMAIN options' : options'[i].key = options[h].key
              \/ \E j \in Presses : Succeeds(j) /\ Holds(chosen[j], options[h])]_vars
      => [/\ pending # NoName /\ pending' = NoName =>
               \E j \in Presses :
                 Succeeds(j) /\ (bundle[j].program = Base(pending) \/ j \in overtaken)
          /\ pending' \in {pending, NoName} =>
               \A i \in DOMAIN options :
                 \/ \E h \in DOMAIN options' : options'[h].key = options[i].key
                 \/ \E j \in Presses : Succeeds(j) /\ Sends(bundle[j], options[i])]_vars
  BY <1>1
<1>3. Spec => ProgramIsKept /\ OptionsAreKept /\ []CarriesInv /\ StartCarriesTheChoice
  BY NoProgramIsLost, NoOptionIsLost, CarriesHolds, StartSendsTheChoice
<1> QED
  BY <1>2, <1>3, StateHolds, PTL
  DEF ProgramIsKept, OptionsAreKept, NoChoiceIsDropped, ChoiceIsHonoured

-----------------------------------------------------------------------------
(* Rules that agree are obeyed.                                            *)

\* The conditions of a rule are met; its enum is fixed, and accepts nothing else.
Met(c, when) == \A k \in DOMAIN when : k \in DOMAIN c /\ c[k].value = when[k]
IsFixed(c, r) == c[r.target].value = r.to /\ c[r.target].allowed = {r.to}
Obeys(p, c) ==
  \A i \in DOMAIN Rules[p] :
    FixesEnum(p, Rules[p][i]) /\ Met(c, Rules[p][i].when) => IsFixed(c, Rules[p][i])

\* What rule r has to do, with some of its conditions yet to be looked at.
IsActionOf(a, r) ==
  /\ a.by = r.by /\ a.key = r.target /\ a.value = r.to /\ a.allow = r.allow
  /\ \A j \in DOMAIN a.given : j \in DOMAIN r.when /\ a.given[j] = r.when[j]
Awaits(r, todo) == \E n \in DOMAIN todo : IsActionOf(todo[n], r)

\* The other conditions of r set it off, and still hold.
SetOff(c, a, r) == \A j \in DOMAIN r.when \ DOMAIN a.given : j \in DOMAIN c /\ c[j].value = r.when[j]

\* Up to the n-th, a list has only what rules do, to options less deep than what set the
\* n-th off.
Nested(depth, todo, n, r) ==
  \A m \in 1 .. n :
    /\ todo[m].by # "set"
    /\ \A j \in DOMAIN r.when \ DOMAIN todo[n].given : depth[todo[m].key] < depth[j]

IsDepth(p, depth) ==
  /\ depth \in [Options -> 0 .. Len(Keys)]
  /\ \A i \in DOMAIN Rules[p] : \A k \in DOMAIN Rules[p][i].when :
       depth[Rules[p][i].target] < depth[k]

\* While a list of assignments is worked through: a rule whose conditions hold has done
\* its part or is about to, and what set off a rule still in the list has not changed.
Promised(p, c, todo) ==
  \A i \in DOMAIN Rules[p] :
    FixesEnum(p, Rules[p][i]) /\ Met(c, Rules[p][i].when) =>
      IsFixed(c, Rules[p][i]) \/ Awaits(Rules[p][i], todo)
Founded(p, depth, c, todo) ==
  \A n \in DOMAIN todo : todo[n].by # "set" =>
    \E h \in DOMAIN Rules[p] :
      /\ IsActionOf(todo[n], Rules[p][h]) /\ SetOff(c, todo[n], Rules[p][h])
      /\ Nested(depth, todo, n, Rules[p][h])
InOrder(p, depth, c, todo) ==
  DOMAIN c = Exposed(p) /\ Promised(p, c, todo) /\ Founded(p, depth, c, todo)

\* What is triggered: an action of each rule that has this value of k as a condition.
Rest(r, k) == [j \in DOMAIN r.when \ {k} |-> r.when[j]]
TriggeredBy(p, k, v, h) == k \in DOMAIN Rules[p][h].when /\ Rules[p][h].when[k] = v

LEMMA RuleIs ==
  ASSUME NEW p \in Programs, NEW h \in DOMAIN Rules[p]
  PROVE  /\ Rules[p][h] \in Rule /\ Rules[p][h].by # "set"
         /\ Rules[p][h].target \in Options /\ Rules[p][h].to \in Codes
         /\ DOMAIN Rules[p][h].when \subseteq Options
<1>1. Rules[p][h] \in Rule
  BY SchemaAssumption
<1> DEFINE r == Rules[p][h]
<1> HIDE DEF r
<1>2. r \in Rule
  BY <1>1 DEF r
<1>3. r.when \in Settings /\ r.by # "set" /\ r.target \in Options /\ r.to \in Codes
  BY <1>2 DEF Rule
<1>4. DOMAIN r.when \subseteq Options
  BY <1>3, SettingsAre
<1> QED
  BY <1>2, <1>3, <1>4 DEF r

ActionsOf(p, k, v, u) ==
  /\ \A n \in DOMAIN u : \E h \in DOMAIN Rules[p] :
       TriggeredBy(p, k, v, h) /\ u[n] = Action(Rules[p][h], Rest(Rules[p][h], k))
  /\ \A h \in DOMAIN Rules[p] : TriggeredBy(p, k, v, h) =>
       \E n \in DOMAIN u : u[n] = Action(Rules[p][h], Rest(Rules[p][h], k))

LEMMA TriggeredActions ==
  ASSUME NEW p \in Programs, NEW k, NEW v
  PROVE  ActionsOf(p, k, v, Triggered(p, k, v))
<1> DEFINE P == {i \in DOMAIN Rules[p] : k \in DOMAIN Rules[p][i].when /\ Rules[p][i].when[k] = v}
<1> DEFINE due == Kept(Rules[p], P)
<1>1. Rules[p] \in Seq(Rule)
  BY SchemaAssumption
<1>2. \A h : h \in P <=> h \in DOMAIN Rules[p] /\ TriggeredBy(p, k, v, h)
  BY DEF TriggeredBy
<1>3. Triggered(p, k, v) = [i \in DOMAIN due |-> Action(due[i], [j \in DOMAIN due[i].when \ {k} |-> due[i].when[j]])]
  BY DEF Triggered
<1> HIDE DEF P
<1>4. \E at : PlacedBy(at, due, Rules[p], P, Len(Rules[p]))
  BY <1>1, KeptElements
<1>5. DOMAIN Rules[p] = 1 .. Len(Rules[p])
  BY <1>1
<1> HIDE DEF due
<1>6. PICK at : PlacedBy(at, due, Rules[p], P, Len(Rules[p]))
  BY <1>4
<1>7. DOMAIN Triggered(p, k, v) = DOMAIN due
      /\ \A i \in DOMAIN due : Triggered(p, k, v)[i] = Action(due[i], Rest(due[i], k))
  BY <1>3 DEF Rest
<1>8. \A i \in DOMAIN due : at[i] \in P /\ due[i] = Rules[p][at[i]]
  BY <1>6 DEF PlacedBy
<1>9. \A h \in P : \E i \in DOMAIN due : at[i] = h
  BY <1>2, <1>5, <1>6 DEF PlacedBy
<1>10. ASSUME NEW n \in DOMAIN Triggered(p, k, v)
       PROVE  \E h \in DOMAIN Rules[p] :
                TriggeredBy(p, k, v, h) /\ Triggered(p, k, v)[n] = Action(Rules[p][h], Rest(Rules[p][h], k))
  BY <1>2, <1>7, <1>8
<1>11. ASSUME NEW h \in DOMAIN Rules[p], TriggeredBy(p, k, v, h)
       PROVE  \E n \in DOMAIN Triggered(p, k, v) : Triggered(p, k, v)[n] = Action(Rules[p][h], Rest(Rules[p][h], k))
  BY <1>2, <1>7, <1>8, <1>9, <1>11
<1> QED
  BY <1>10, <1>11 DEF ActionsOf

LEMMA RestIs ==
  ASSUME NEW r, NEW k \in DOMAIN r.when
  PROVE  /\ IsActionOf(Action(r, Rest(r, k)), r)
         /\ DOMAIN r.when \ DOMAIN Action(r, Rest(r, k)).given = {k}
<1>1. DOMAIN Rest(r, k) = DOMAIN r.when \ {k} /\ \A j \in DOMAIN Rest(r, k) : Rest(r, k)[j] = r.when[j]
  BY DEF Rest
<1>2. Action(r, Rest(r, k)).given = Rest(r, k)
  BY DEF Action
<1>3. /\ Action(r, Rest(r, k)).by = r.by /\ Action(r, Rest(r, k)).key = r.target
      /\ Action(r, Rest(r, k)).value = r.to /\ Action(r, Rest(r, k)).allow = r.allow
  BY DEF Action
<1> QED
  BY <1>1, <1>2, <1>3 DEF IsActionOf

LEMMA AfterSets ==
  ASSUME NEW p \in Programs, NEW c \in States, NEW a \in Todo, a.key \in DOMAIN c
  PROVE  /\ After(p, c, a)[a.key].allowed = Allowed(p, c, a)
         /\ After(p, c, a)[a.key].value = IF Taken(p, c, a) THEN a.value ELSE c[a.key].value
<1> DEFINE new == [value   |-> IF Taken(p, c, a) THEN a.value ELSE c[a.key].value,
                   allowed |-> Allowed(p, c, a)]
<1>1. new.allowed = Allowed(p, c, a) /\ new.value = IF Taken(p, c, a) THEN a.value ELSE c[a.key].value
  OBVIOUS
<1>2. After(p, c, a) = [c EXCEPT ![a.key] = new]
  BY DEF After
<1> HIDE DEF new
<1>3. After(p, c, a)[a.key] = new
  BY <1>2, StatesAre
<1> QED
  BY <1>1, <1>3

\* What a rule does is never refused: a fixed value is made room for, and a restricted
\* enum is given one of its values.
LEMMA RulesAreTaken ==
  ASSUME RulesAreConsistent, NEW p \in Programs, NEW c \in States, DOMAIN c = Exposed(p),
         NEW a \in Todo, Applies(p, c, a), NEW h \in DOMAIN Rules[p], IsActionOf(a, Rules[p][h])
  PROVE  Taken(p, c, a)
<1> DEFINE r == Rules[p][h]
<1>1. a.key \in Exposed(p) /\ Schema[p][a.key].kind \in {"fixed", "enum", "range"} /\ a.value \in Codes
  BY SchemaAssumption DEF Applies, Todo
<1>2. a.by \in {"fixed", "enum"}
  BY RuleIs DEF IsActionOf, Todo
<1>3. CASE Schema[p][a.key].kind = "fixed"
  BY <1>3 DEF Taken, Accepts
<1>4. CASE a.by = "fixed" /\ Schema[p][a.key].kind = "enum"
  <2>1. Allowed(p, c, a) = {a.value}
    BY <1>4 DEF Allowed
  <2> QED
    BY <2>1 DEF Taken, Accepts
<1>5. CASE a.by = "fixed" /\ Schema[p][a.key].kind = "range"
  <2>1. Allowed(p, c, a) = Between(c[a.key].allowed \cup {a.value})
    BY <1>5 DEF Allowed
  <2>2. a.value \in Between(c[a.key].allowed \cup {a.value})
    <3> DEFINE S == c[a.key].allowed \cup {a.value}
    <3>1. a.value \in S /\ a.value <= a.value
      BY <1>1 DEF Codes
    <3> HIDE DEF S
    <3>2. a.value \in Between(S)
      BY <1>1, <3>1 DEF Between
    <3> QED
      BY <3>2 DEF S
  <2> QED
    BY <2>1, <2>2 DEF Taken, Accepts
<1>6. CASE a.by = "enum"
  <2>1. Allowed(p, c, a) = a.allow
    BY <1>6 DEF Allowed
  <2>2. a.value \in a.allow
    <3>1. a.by = r.by /\ a.value = r.to /\ a.allow = r.allow
      BY DEF IsActionOf
    <3>2. r.by = "enum" => r.to \in r.allow
      BY DEF RulesAreConsistent
    <3> QED
      BY <1>6, <3>1, <3>2
  <2> QED
    BY <2>1, <2>2 DEF Taken, Accepts
<1> QED
  BY <1>1, <1>2, <1>3, <1>4, <1>5, <1>6

\* A request that is refused changes nothing.
LEMMA RefusalChangesNothing ==
  ASSUME NEW p \in Programs, NEW c \in States, NEW a \in Todo, Applies(p, c, a), ~Taken(p, c, a), a.by = "set"
  PROVE  \A k \in DOMAIN c : After(p, c, a)[k].value = c[k].value /\ After(p, c, a)[k].allowed = c[k].allowed
<1>1. a.key \in DOMAIN c /\ Allowed(p, c, a) = c[a.key].allowed
  BY DEF Applies, Allowed
<1> TAKE k \in DOMAIN c
<1>2. CASE k = a.key
  BY <1>1, <1>2, AfterSets
<1>3. CASE k # a.key
  <2>1. After(p, c, a)[k] = c[k]
    BY <1>1, <1>3, AfterIs
  <2> QED
    BY <2>1
<1> QED
  BY <1>2, <1>3

\* An assignment leaves an enum fixed, and one that a rule was about to fix gets fixed:
\* a request for it is refused unless it is for that value, and any other rule for it
\* contradicts the conditions.
LEMMA StaysFixed ==
  ASSUME RulesAreConsistent, NEW p \in Programs, NEW c \in States, DOMAIN c = Exposed(p),
         NEW a \in Todo, Applies(p, c, a), Taken(p, c, a),
         a.by # "set" => \E h \in DOMAIN Rules[p] : IsActionOf(a, Rules[p][h]) /\ SetOff(c, a, Rules[p][h]),
         NEW i \in DOMAIN Rules[p], FixesEnum(p, Rules[p][i]), Met(c, Rules[p][i].when),
         IsFixed(c, Rules[p][i]) \/ IsActionOf(a, Rules[p][i])
  PROVE  IsFixed(After(p, c, a), Rules[p][i])
<1> DEFINE r == Rules[p][i]
<1> DEFINE d == After(p, c, a)
<1>1. a.key \in DOMAIN c /\ r.target \in DOMAIN c /\ Schema[p][r.target].kind = "enum" /\ r.by = "fixed"
  BY DEF Applies, FixesEnum
<1>2. d[a.key].allowed = Allowed(p, c, a) /\ d[a.key].value = a.value
  BY <1>1, AfterSets
<1>3. CASE a.key # r.target
  <2>1. d[r.target] = c[r.target]
    BY <1>1, <1>3, AfterIs
  <2>2. IsFixed(c, r)
    BY <1>3 DEF IsActionOf
  <2> QED
    BY <2>1, <2>2 DEF IsFixed
<1>4. CASE a.key = r.target /\ a.by = "fixed" /\ a.value = r.to
  <2>1. Allowed(p, c, a) = {a.value}
    BY <1>1, <1>4 DEF Allowed
  <2> QED
    BY <1>2, <1>4, <2>1 DEF IsFixed
<1>5. CASE a.key = r.target /\ a.by = "set"
  <2>1. IsFixed(c, r)
    BY <1>1, <1>5 DEF IsActionOf
  <2>2. Allowed(p, c, a) = {r.to}
    BY <1>5, <2>1 DEF Allowed, IsFixed
  <2>3. a.value = r.to
    BY <1>1, <1>5, <2>2 DEF Taken, Accepts
  <2> QED
    BY <1>2, <1>5, <2>2, <2>3 DEF IsFixed
<1>6. CASE a.key = r.target /\ a.by # "set"
  <2>1. PICK h \in DOMAIN Rules[p] : IsActionOf(a, Rules[p][h]) /\ SetOff(c, a, Rules[p][h])
    BY <1>6
  <2> DEFINE s == Rules[p][h]
  <2>2. Met(c, s.when)
    <3> SUFFICES ASSUME NEW k \in DOMAIN s.when  PROVE k \in DOMAIN c /\ c[k].value = s.when[k]
      BY DEF Met
    <3>1. CASE k \in DOMAIN a.given
      BY <2>1, <3>1 DEF Applies, IsActionOf
    <3>2. CASE k \notin DOMAIN a.given
      BY <2>1, <3>2 DEF SetOff
    <3> QED
      BY <3>1, <3>2
  <2>3. s.target = r.target
    BY <1>6, <2>1 DEF IsActionOf
  <2>4. \/ s.by = "fixed" /\ s.to = r.to
        \/ \E k \in DOMAIN r.when \cap DOMAIN s.when : r.when[k] # s.when[k]
    BY <2>3 DEF RulesAreConsistent
  <2>5. s.by = "fixed" /\ s.to = r.to
    BY <2>2, <2>4 DEF Met
  <2> QED
    BY <1>4, <1>6, <2>1, <2>5 DEF IsActionOf
<1> QED
  BY <1>3, <1>5, <1>6

\* The founded head of a list.
LEMMA HeadIsFounded ==
  ASSUME NEW p \in Programs, NEW depth, NEW c, NEW t \in Seq(Todo), t # <<>>, Founded(p, depth, c, t),
         Head(t).by # "set"
  PROVE  \E h \in DOMAIN Rules[p] : IsActionOf(Head(t), Rules[p][h]) /\ SetOff(c, Head(t), Rules[p][h])
<1>1. 1 \in DOMAIN t /\ Head(t) = t[1]
  BY ListParts
<1> QED
  BY <1>1 DEF Founded

\* An assignment that does not apply: its rule's conditions do not hold.
LEMMA SkippedIsInOrder ==
  ASSUME NEW p \in Programs, NEW depth, NEW c \in States, NEW t \in Seq(Todo), t # <<>>,
         InOrder(p, depth, c, t), ~Applies(p, c, Head(t))
  PROVE  InOrder(p, depth, c, Tail(t))
<1> DEFINE r == Tail(t)
<1> DEFINE n == Len(t)
<1>1. /\ n \in Nat /\ n > 0 /\ DOMAIN t = 1 .. n /\ DOMAIN r = 1 .. n - 1 /\ Head(t) = t[1]
      /\ \A i \in 1 .. n - 1 : r[i] = t[i + 1]
  BY ListParts
<1> HIDE DEF r, n
<1>2. Promised(p, c, r)
  <2> SUFFICES ASSUME NEW i \in DOMAIN Rules[p], FixesEnum(p, Rules[p][i]), Met(c, Rules[p][i].when),
                      ~IsFixed(c, Rules[p][i])
               PROVE  Awaits(Rules[p][i], r)
    BY DEF Promised
  <2>1. PICK m \in DOMAIN t : IsActionOf(t[m], Rules[p][i])
    BY DEF InOrder, Promised, Awaits
  <2>2. m # 1
    <3> SUFFICES ASSUME m = 1 PROVE FALSE
      OBVIOUS
    <3>1. IsActionOf(Head(t), Rules[p][i])
      BY <1>1, <2>1
    <3>2. Applies(p, c, Head(t))
      BY <3>1 DEF Applies, IsActionOf, Met, FixesEnum, InOrder
    <3> QED
      BY <3>2
  <2>3. m - 1 \in DOMAIN r /\ r[m - 1] = t[m]
    <3>1. m - 1 \in 1 .. n - 1 /\ (m - 1) + 1 = m
      BY <1>1, <2>2
    <3> QED
      BY <1>1, <3>1
  <2> QED
    BY <2>1, <2>3 DEF Awaits
<1>3. Founded(p, depth, c, r)
  <2> SUFFICES ASSUME NEW m \in DOMAIN r, r[m].by # "set"
               PROVE  \E h \in DOMAIN Rules[p] :
                        /\ IsActionOf(r[m], Rules[p][h]) /\ SetOff(c, r[m], Rules[p][h])
                        /\ Nested(depth, r, m, Rules[p][h])
    BY DEF Founded
  <2>1. m + 1 \in DOMAIN t /\ r[m] = t[m + 1] /\ m \in Nat
    BY <1>1
  <2>2. PICK h \in DOMAIN Rules[p] :
          /\ IsActionOf(r[m], Rules[p][h]) /\ SetOff(c, r[m], Rules[p][h])
          /\ Nested(depth, t, m + 1, Rules[p][h])
    BY <2>1 DEF InOrder, Founded
  <2>3. \A l \in 1 .. m : l + 1 \in 1 .. m + 1 /\ r[l] = t[l + 1]
    BY <1>1, <2>1
  <2>4. Nested(depth, r, m, Rules[p][h])
    BY <2>1, <2>2, <2>3 DEF Nested
  <2> QED
    BY <2>2, <2>4
<1> QED
  BY <1>2, <1>3 DEF InOrder, r

\* A request that is refused comes after all that rules had to do.
LEMMA RefusedObeys ==
  ASSUME RulesAreConsistent, NEW p \in Programs, NEW depth, NEW c \in States, NEW t \in Seq(Todo), t # <<>>,
         InOrder(p, depth, c, t), Applies(p, c, Head(t)), ~Taken(p, c, Head(t))
  PROVE  Obeys(p, After(p, c, Head(t)))
<1> DEFINE a == Head(t)
<1>1. DOMAIN t = 1 .. Len(t) /\ Len(t) \in Nat /\ Len(t) > 0 /\ a = t[1]
  BY ListParts
<1>2. a \in Todo
  BY <1>1
<1>3. a.by = "set"
  BY <1>2, HeadIsFounded, RulesAreTaken DEF InOrder
<1>4. \A m \in DOMAIN t : t[m].by = "set"
  <2> SUFFICES ASSUME NEW m \in DOMAIN t, t[m].by # "set"  PROVE FALSE
    OBVIOUS
  <2>1. PICK h \in DOMAIN Rules[p] : Nested(depth, t, m, Rules[p][h])
    BY DEF InOrder, Founded
  <2>2. 1 \in 1 .. m
    BY <1>1
  <2> QED
    BY <1>1, <1>3, <2>1, <2>2 DEF Nested
<1> DEFINE d == After(p, c, a)
<1>5. DOMAIN d = DOMAIN c /\ \A k \in DOMAIN c : d[k].value = c[k].value /\ d[k].allowed = c[k].allowed
  BY <1>2, <1>3, RefusalChangesNothing, AfterIs DEF Applies
<1> HIDE DEF d
<1>6. ASSUME NEW i \in DOMAIN Rules[p], FixesEnum(p, Rules[p][i]), Met(d, Rules[p][i].when)
      PROVE  IsFixed(d, Rules[p][i])
  <2>1. Met(c, Rules[p][i].when)
    BY <1>5, <1>6 DEF Met
  <2>2. ~Awaits(Rules[p][i], t)
    BY <1>4, RuleIs DEF Awaits, IsActionOf
  <2>3. IsFixed(c, Rules[p][i])
    BY <1>6, <2>1, <2>2 DEF InOrder, Promised
  <2> QED
    BY <1>5, <1>6, <2>3 DEF IsFixed, FixesEnum, InOrder
<1>7. Obeys(p, d)
  BY <1>6 DEF Obeys
<1> QED
  BY <1>7 DEF d

\* An assignment that is made, with all that it sets off.
LEMMA TakenIsInOrder ==
  ASSUME RulesAreConsistent, NEW p \in Programs, NEW depth, IsDepth(p, depth), NEW c \in States,
         NEW t \in Seq(Todo), t # <<>>,
         InOrder(p, depth, c, t), Applies(p, c, Head(t)), Taken(p, c, Head(t))
  PROVE  InOrder(p, depth, After(p, c, Head(t)), Triggered(p, Head(t).key, Head(t).value) \o Tail(t))
<1> DEFINE a == Head(t)
<1> DEFINE K == a.key
<1> DEFINE u == Triggered(p, a.key, a.value)
<1> DEFINE d == After(p, c, a)
<1> DEFINE x == u \o Tail(t)
<1> DEFINE n == Len(t)
<1> DEFINE m == Len(u)
<1>0. a \in Todo /\ u \in Seq(Todo)
  BY TriggeredIs
<1>1. /\ n \in Nat /\ n > 0 /\ DOMAIN t = 1 .. n /\ a = t[1]
      /\ m \in Nat /\ DOMAIN u = 1 .. m /\ DOMAIN x = 1 .. m + n - 1
      /\ \A i \in 1 .. m : x[i] = u[i]
      /\ \A i \in 1 .. n - 1 : x[m + i] = t[i + 1]
      /\ \A i \in m + 1 .. m + n - 1 : x[i] = t[i - m + 1]
  <2> HIDE DEF u
  <2> QED
    BY <1>0, ListParts
<1>2. ActionsOf(p, K, a.value, u)
  BY TriggeredActions
<1>3. K \in DOMAIN c /\ DOMAIN c = Exposed(p)
  BY DEF Applies, InOrder
<1>4. /\ DOMAIN d = DOMAIN c /\ d[K].value = a.value
      /\ \A k \in DOMAIN c \ {K} : d[k] = c[k]
  BY <1>0, <1>3, AfterIs
<1>5. ASSUME NEW i \in DOMAIN Rules[p], FixesEnum(p, Rules[p][i]), Met(c, Rules[p][i].when),
             IsFixed(c, Rules[p][i]) \/ IsActionOf(a, Rules[p][i])
      PROVE  IsFixed(d, Rules[p][i])
  <2>1. a.by # "set" => \E h \in DOMAIN Rules[p] : IsActionOf(a, Rules[p][h]) /\ SetOff(c, a, Rules[p][h])
    BY HeadIsFounded DEF InOrder
  <2> QED
    BY <1>0, <1>3, <1>5, <2>1, StaysFixed
<1> HIDE DEF u, d, x, n, m
<1>6. \A i \in DOMAIN u : \E h \in DOMAIN Rules[p] :
        /\ IsActionOf(u[i], Rules[p][h]) /\ SetOff(d, u[i], Rules[p][h])
        /\ K \in DOMAIN Rules[p][h].when /\ DOMAIN Rules[p][h].when \ DOMAIN u[i].given = {K}
  <2> TAKE i \in DOMAIN u
  <2>1. PICK h \in DOMAIN Rules[p] : TriggeredBy(p, K, a.value, h) /\ u[i] = Action(Rules[p][h], Rest(Rules[p][h], K))
    BY <1>2 DEF ActionsOf
  <2>2. K \in DOMAIN Rules[p][h].when /\ Rules[p][h].when[K] = a.value
    BY <2>1 DEF TriggeredBy
  <2>3. IsActionOf(u[i], Rules[p][h]) /\ DOMAIN Rules[p][h].when \ DOMAIN u[i].given = {K}
    BY <2>1, <2>2, RestIs
  <2>4. SetOff(d, u[i], Rules[p][h])
    BY <1>3, <1>4, <2>2, <2>3 DEF SetOff
  <2> QED
    BY <2>2, <2>3, <2>4
<1>7. Promised(p, d, x)
  <2> SUFFICES ASSUME NEW i \in DOMAIN Rules[p], FixesEnum(p, Rules[p][i]), Met(d, Rules[p][i].when),
                      ~IsFixed(d, Rules[p][i])
               PROVE  Awaits(Rules[p][i], x)
    BY DEF Promised
  <2> DEFINE r == Rules[p][i]
  <2>1. CASE K \in DOMAIN r.when
    <3>1. TriggeredBy(p, K, a.value, i)
      BY <1>4, <2>1 DEF Met, TriggeredBy
    <3>2. PICK h \in DOMAIN u : u[h] = Action(r, Rest(r, K))
      BY <1>2, <3>1 DEF ActionsOf
    <3>3. IsActionOf(u[h], r)
      BY <2>1, <3>2, RestIs
    <3>4. h \in DOMAIN x /\ x[h] = u[h]
      BY <1>1
    <3> QED
      BY <3>3, <3>4 DEF Awaits
  <2>2. CASE K \notin DOMAIN r.when
    <3>1. Met(c, r.when)
      BY <1>4, <2>2 DEF Met
    <3>2. ~IsFixed(c, r) /\ ~IsActionOf(a, r)
      BY <1>5, <3>1
    <3>3. PICK h \in DOMAIN t : IsActionOf(t[h], r)
      BY <3>1, <3>2 DEF InOrder, Promised, Awaits
    <3>4. h # 1
      BY <1>1, <3>2, <3>3
    <3>5. h - 1 \in 1 .. n - 1 /\ (h - 1) + 1 = h
      BY <1>1, <3>4
    <3>6. m + (h - 1) \in DOMAIN x /\ x[m + (h - 1)] = t[h]
      BY <1>1, <3>5
    <3> QED
      BY <3>3, <3>6 DEF Awaits
  <2> QED
    BY <2>1, <2>2
<1>8. Founded(p, depth, d, x)
  <2> SUFFICES ASSUME NEW i \in DOMAIN x, x[i].by # "set"
               PROVE  \E h \in DOMAIN Rules[p] :
                        /\ IsActionOf(x[i], Rules[p][h]) /\ SetOff(d, x[i], Rules[p][h])
                        /\ Nested(depth, x, i, Rules[p][h])
    BY DEF Founded
  <2>0. \A l \in DOMAIN u : u[l].by # "set" /\ depth[u[l].key] < depth[K]
    <3> TAKE l \in DOMAIN u
    <3>1. PICK h \in DOMAIN Rules[p] : IsActionOf(u[l], Rules[p][h]) /\ K \in DOMAIN Rules[p][h].when
      BY <1>6
    <3>2. u[l].by = Rules[p][h].by /\ u[l].key = Rules[p][h].target
      BY <3>1 DEF IsActionOf
    <3> QED
      BY <3>1, <3>2, RuleIs DEF IsDepth
  <2>1. CASE i \in DOMAIN u
    <3>1. PICK h \in DOMAIN Rules[p] :
            /\ IsActionOf(u[i], Rules[p][h]) /\ SetOff(d, u[i], Rules[p][h])
            /\ DOMAIN Rules[p][h].when \ DOMAIN u[i].given = {K}
      BY <1>6, <2>1
    <3>2. x[i] = u[i] /\ \A l \in 1 .. i : l \in DOMAIN u /\ x[l] = u[l]
      BY <1>1, <2>1
    <3>3. Nested(depth, x, i, Rules[p][h])
      BY <2>0, <3>1, <3>2 DEF Nested
    <3> QED
      BY <3>1, <3>2, <3>3
  <2>2. CASE i \notin DOMAIN u
    <3> DEFINE b == i - m + 1
    <3>1. b \in DOMAIN t /\ b > 1 /\ x[i] = t[b] /\ i \in Nat /\ m < i
      BY <1>1, <2>2
    <3>2. PICK h \in DOMAIN Rules[p] :
            /\ IsActionOf(t[b], Rules[p][h]) /\ SetOff(c, t[b], Rules[p][h])
            /\ Nested(depth, t, b, Rules[p][h])
      BY <3>1 DEF InOrder, Founded
    <3> DEFINE J == DOMAIN Rules[p][h].when \ DOMAIN t[b].given
    <3>3. 1 \in 1 .. b
      BY <1>1, <3>1
    <3>4. \A j \in J : depth[K] < depth[j]
      BY <1>1, <3>2, <3>3 DEF Nested
    <3>5. J \subseteq Options /\ K \in Options
      BY <1>0, RuleIs DEF Todo
    <3>6. \A j \in J : j # K
      BY <3>4, <3>5 DEF IsDepth
    <3>7. SetOff(d, x[i], Rules[p][h])
      BY <1>4, <3>1, <3>2, <3>6 DEF SetOff
    <3>8. Nested(depth, x, i, Rules[p][h])
      <4> SUFFICES ASSUME NEW l \in 1 .. i
                   PROVE  x[l].by # "set" /\ \A j \in J : depth[x[l].key] < depth[j]
        BY <3>1 DEF Nested
      <4>1. CASE l \in DOMAIN u
        <5>1. x[l] = u[l] /\ u[l].by # "set" /\ depth[u[l].key] < depth[K]
          BY <1>1, <2>0, <4>1
        <5>2. u[l].key \in Options
          BY <1>0, <4>1, RuleIs, <1>6 DEF IsActionOf
        <5>3. \A j \in J : depth[u[l].key] < depth[j]
          <6> HIDE DEF J, K
          <6> QED
            BY <3>4, <3>5, <5>1, <5>2 DEF IsDepth
        <5> QED
          BY <5>1, <5>3
      <4>2. CASE l \notin DOMAIN u
        <5>1. l - m + 1 \in 1 .. b /\ x[l] = t[l - m + 1]
          BY <1>1, <3>1, <4>2
        <5> QED
          BY <3>2, <5>1 DEF Nested
      <4> QED
        BY <4>1, <4>2
    <3> QED
      BY <3>1, <3>2, <3>7, <3>8
  <2> QED
    BY <2>1, <2>2
<1> QED
  BY <1>3, <1>4, <1>7, <1>8 DEF InOrder, x, d, u

\* What an orderly list of assignments leads to obeys the rules.
LEMMA OutcomeObeys ==
  ASSUME RulesTerminate, RulesAreConsistent, NEW depth, NEW w \in Work, IsDepth(w.program, depth),
         InOrder(w.program, depth, w.state, w.todo)
  PROVE  Obeys(w.program, Outcome[w].state)
<1> DEFINE Fit(x) == IsDepth(x.program, depth) /\ InOrder(x.program, depth, x.state, x.todo)
<1> DEFINE T == {x \in Work : Fit(x) => Obeys(x.program, Outcome[x].state)}
<1>1. ASSUME NEW x \in Work, Goes(x) => Onwards(x) \in T PROVE x \in T
  <2> SUFFICES ASSUME Fit(x) PROVE Obeys(x.program, Outcome[x].state)
    OBVIOUS
  <2> DEFINE p == x.program
  <2> DEFINE c == x.state
  <2> DEFINE t == x.todo
  <2>1. Outcome[x] = OutcomeAt(Outcome, x)
    BY OutcomeIs
  <2>2. p \in Programs /\ c \in States /\ t \in Seq(Todo)
    BY DEF Work
  <2>3. CASE t = <<>>
    <3>1. Outcome[x].state = c
      BY <2>1, <2>3 DEF OutcomeAt
    <3>2. Obeys(p, c)
      BY <2>3 DEF Obeys, InOrder, Promised, Awaits
    <3> QED
      BY <3>1, <3>2
  <2>4. CASE t # <<>> /\ Refused(x)
    <3>1. Outcome[x].state = After(p, c, Head(t))
      BY <2>1, <2>4 DEF OutcomeAt
    <3>2. Applies(p, c, Head(t)) /\ ~Taken(p, c, Head(t))
      BY <2>4 DEF Refused
    <3>3. InOrder(p, depth, c, t)
      OBVIOUS
    <3> HIDE DEF p, c, t
    <3>4. Obeys(p, After(p, c, Head(t)))
      BY <2>2, <2>4, <3>2, <3>3, RefusedObeys
    <3> QED
      BY <3>1, <3>4 DEF p
  <2>5. CASE t # <<>> /\ ~Refused(x)
    <3>1. Outcome[x] = Outcome[Onwards(x)] /\ Goes(x)
      BY <2>1, <2>5 DEF OutcomeAt, Goes
    <3>2. Onwards(x) \in Work /\ Onwards(x).program = p
      BY <2>5, OnwardsIs
    <3> DEFINE u == Triggered(p, Head(t).key, Head(t).value)
    <3>3. Applies(p, c, Head(t)) => Onwards(x).state = After(p, c, Head(t)) /\ Onwards(x).todo = u \o Tail(t)
      <4> DEFINE d == After(p, c, Head(t))
      <4> DEFINE l == u \o Tail(t)
      <4> SUFFICES ASSUME Applies(p, c, Head(t))
                   PROVE  Onwards(x).state = d /\ Onwards(x).todo = l
        OBVIOUS
      <4>1. Onwards(x) = [program |-> p, state |-> d, todo |-> l]
        BY DEF Onwards
      <4> HIDE DEF d, l
      <4> QED
        BY <4>1
    <3>4. ~Applies(p, c, Head(t)) => Onwards(x).state = c /\ Onwards(x).todo = Tail(t)
      BY DEF Onwards, Work
    <3>5. Applies(p, c, Head(t)) => Taken(p, c, Head(t))
      BY <2>5 DEF Refused
    <3>6. InOrder(p, depth, c, t) /\ IsDepth(p, depth)
      OBVIOUS
    <3>7. InOrder(p, depth, Onwards(x).state, Onwards(x).todo)
      <4> HIDE DEF p, c, t, u
      <4>1. CASE Applies(p, c, Head(t))
        <5>1. InOrder(p, depth, After(p, c, Head(t)), Triggered(p, Head(t).key, Head(t).value) \o Tail(t))
          BY <2>2, <2>5, <3>5, <3>6, <4>1, TakenIsInOrder
        <5> QED
          BY <3>3, <4>1, <5>1 DEF u
      <4>2. CASE ~Applies(p, c, Head(t))
        BY <2>2, <2>5, <3>4, <3>6, <4>2, SkippedIsInOrder
      <4> QED
        BY <4>1, <4>2
    <3>8. Fit(Onwards(x))
      BY <3>2, <3>6, <3>7
    <3> QED
      BY <1>1, <3>1, <3>2, <3>8
  <2> QED
    BY <2>3, <2>4, <2>5
<1>2. w \in T
  <2> HIDE DEF T
  <2> QED
    BY <1>1, WorkInduction
<1> QED
  BY <1>2

\* Requests keep to the rules.
LEMMA AssignObeys ==
  ASSUME RulesAreAcyclic, RulesAreConsistent, NEW p \in Programs, NEW c \in States, DOMAIN c = Exposed(p),
         Obeys(p, c), NEW t \in Seq(Todo), \A i \in DOMAIN t : t[i].by = "set"
  PROVE  Obeys(p, Assign(p, c, t).state)
<1>1. PICK depth : IsDepth(p, depth)
  BY DEF RulesAreAcyclic, IsDepth
<1>2. InOrder(p, depth, c, t)
  BY DEF InOrder, Promised, Founded, Obeys
<1> DEFINE w == [program |-> p, state |-> c, todo |-> t]
<1>3. w \in Work /\ w.program = p /\ w.state = c /\ w.todo = t /\ Assign(p, c, t) = Outcome[w]
  BY DEF Work, Assign
<1> HIDE DEF w
<1> QED
  BY <1>1, <1>2, <1>3, OutcomeObeys, AcyclicRulesTerminate

\* The parameters of a program that obey its rules.
Obedient(p) == {d \in Commanded(p) : Obeys(p, d)}

LEMMA LoadedObeys ==
  ASSUME RulesAreAcyclic, RulesAreConsistent, NEW p \in Programs
  PROVE  Loaded(p) \in Obedient(p)
<1> DEFINE initial == [k \in Exposed(p) |-> [value |-> Schema[p][k].default, allowed |-> Schema[p][k].choice]]
<1> DEFINE P == {i \in DOMAIN Rules[p] :
                   \E k \in DOMAIN Rules[p][i].when \cap Exposed(p) : Schema[p][k].kind # "range"}
<1> DEFINE due == Kept(Rules[p], P)
<1> DEFINE todo == [i \in DOMAIN due |-> Action(due[i], due[i].when)]
<1>1. initial \in States /\ DOMAIN initial = Exposed(p)
  <2>1. Exposed(p) \in SUBSET Options
    BY ProgramsAssumption
  <2>2. initial \in [Exposed(p) -> [value : Codes, allowed : SUBSET Codes]]
    BY SchemaAssumption
  <2> HIDE DEF initial
  <2>3. DOMAIN initial = Exposed(p)
    BY DEF initial
  <2> QED
    BY <2>1, <2>2, <2>3, StatesAre
<1>2. Loaded(p) = Assign(p, initial, todo).state
  BY DEF Loaded
<1> HIDE DEF initial
<1>3. Rules[p] \in Seq(Rule) /\ DOMAIN Rules[p] = 1 .. Len(Rules[p])
  BY SchemaAssumption
<1>4. ASSUME NEW i \in DOMAIN Rules[p], NEW c, DOMAIN c = Exposed(p),
             FixesEnum(p, Rules[p][i]), Met(c, Rules[p][i].when)
      PROVE  i \in P
  <2>1. PICK k \in DOMAIN Rules[p][i].when : k \in Exposed(p) => Schema[p][k].kind # "range"
    BY <1>4 DEF RulesAreConsistent
  <2> QED
    BY <1>4, <2>1 DEF Met
<1> HIDE DEF P
<1>5. due \in Seq(Rule) /\ \E at : PlacedBy(at, due, Rules[p], P, Len(Rules[p]))
  BY <1>3, KeptElements
<1> HIDE DEF due
<1>6. PICK at : PlacedBy(at, due, Rules[p], P, Len(Rules[p]))
  BY <1>5
<1>7. DOMAIN todo = DOMAIN due /\ DOMAIN due = 1 .. Len(due) /\ Len(due) \in Nat
  BY <1>5
<1>8. ASSUME NEW i \in DOMAIN due
      PROVE  /\ todo[i] \in Todo /\ at[i] \in P /\ at[i] \in DOMAIN Rules[p]
             /\ IsActionOf(todo[i], Rules[p][at[i]])
             /\ DOMAIN todo[i].given = DOMAIN Rules[p][at[i]].when
  <2> DEFINE r == due[i]
  <2>1. r \in Rule /\ at[i] \in P /\ at[i] \in DOMAIN Rules[p] /\ r = Rules[p][at[i]]
    BY <1>3, <1>5, <1>6 DEF PlacedBy
  <2>2. todo[i] = Action(r, r.when)
    OBVIOUS
  <2> HIDE DEF r, todo
  <2>3. r.when \in Settings
    BY <2>1 DEF Rule
  <2>4. Action(r, r.when) \in Todo
    BY <2>1, <2>3, ActionIs
  <2>5. IsActionOf(Action(r, r.when), r) /\ Action(r, r.when).given = r.when
    BY DEF IsActionOf, Action
  <2> QED
    BY <2>1, <2>2, <2>4, <2>5
<1> HIDE DEF todo
<1>9. todo \in Seq(Todo)
  <2>1. todo \in [1 .. Len(due) -> Todo]
    BY <1>7, <1>8 DEF todo
  <2> QED
    BY <1>7, <2>1
<1>10. PICK depth : IsDepth(p, depth)
  BY DEF RulesAreAcyclic, IsDepth
<1>11. Promised(p, initial, todo)
  <2> SUFFICES ASSUME NEW i \in DOMAIN Rules[p], FixesEnum(p, Rules[p][i]), Met(initial, Rules[p][i].when)
               PROVE  Awaits(Rules[p][i], todo)
    BY DEF Promised
  <2>1. i \in P
    BY <1>1, <1>4
  <2>2. PICK h \in DOMAIN due : at[h] = i
    BY <1>3, <1>6, <2>1 DEF PlacedBy
  <2> QED
    BY <1>7, <1>8, <2>2 DEF Awaits
<1>12. Founded(p, depth, initial, todo)
  <2> SUFFICES ASSUME NEW n \in DOMAIN todo
               PROVE  \E h \in DOMAIN Rules[p] :
                        /\ IsActionOf(todo[n], Rules[p][h]) /\ SetOff(initial, todo[n], Rules[p][h])
                        /\ Nested(depth, todo, n, Rules[p][h])
    BY DEF Founded
  <2>1. /\ at[n] \in DOMAIN Rules[p] /\ IsActionOf(todo[n], Rules[p][at[n]])
        /\ DOMAIN todo[n].given = DOMAIN Rules[p][at[n]].when
    BY <1>7, <1>8
  <2>2. \A m \in 1 .. n : m \in DOMAIN due
    BY <1>7
  <2>3. \A m \in 1 .. n : todo[m].by # "set"
    <3> TAKE m \in 1 .. n
    <3>1. at[m] \in DOMAIN Rules[p] /\ IsActionOf(todo[m], Rules[p][at[m]])
      BY <1>8, <2>2
    <3> QED
      BY <3>1, RuleIs DEF IsActionOf
  <2>4. Nested(depth, todo, n, Rules[p][at[n]]) /\ SetOff(initial, todo[n], Rules[p][at[n]])
    BY <2>1, <2>3 DEF Nested, SetOff
  <2> QED
    BY <2>1, <2>4
<1> DEFINE w == [program |-> p, state |-> initial, todo |-> todo]
<1>13. w \in Work /\ w.program = p /\ w.state = initial /\ w.todo = todo /\ Assign(p, initial, todo) = Outcome[w]
  BY <1>1, <1>9 DEF Work, Assign
<1> HIDE DEF w
<1>14. Obeys(p, Outcome[w].state)
  BY <1>1, <1>10, <1>11, <1>12, <1>13, OutcomeObeys, AcyclicRulesTerminate DEF InOrder
<1>15. Loaded(p) \in Commanded(p)
  BY LoadedIs, AcyclicRulesTerminate
<1> QED
  BY <1>2, <1>13, <1>14, <1>15 DEF Obedient

LEMMA KeepsObedient ==
  ASSUME RulesAreAcyclic, RulesAreConsistent, NEW p \in Programs
  PROVE  Keeps(p, Obedient(p))
<1> SUFFICES ASSUME NEW d \in Obedient(p), NEW k \in Options, NEW v \in Codes
             PROVE  Assign(p, d, <<Set(k, v)>>).state \in Obedient(p)
  BY DEF Keeps
<1>1. d \in States /\ DOMAIN d = Exposed(p) /\ Obeys(p, d)
  BY DEF Obedient, Commanded
<1>2. IsResult(Assign(p, d, <<Set(k, v)>>), d)
  BY <1>1, RequestIs, AcyclicRulesTerminate
<1>3. <<Set(k, v)>> \in Seq(Todo) /\ \A i \in DOMAIN <<Set(k, v)>> : <<Set(k, v)>>[i].by = "set"
  <2> DEFINE a == Set(k, v)
  <2>1. a \in Todo /\ a.by = "set"
    BY SetIs
  <2> HIDE DEF a
  <2>2. <<a>> \in Seq(Todo) /\ \A i \in DOMAIN <<a>> : <<a>>[i] = a
    BY <2>1
  <2> QED
    BY <2>1, <2>2 DEF a
<1>4. Obeys(p, Assign(p, d, <<Set(k, v)>>).state)
  BY <1>1, <1>3, AssignObeys
<1> QED
  BY <1>1, <1>2, <1>4 DEF IsResult, Obedient, Commanded

\* The state of every category obeys its rules.
AllObedient(s) == s \in [Programs -> States] /\ \A p \in Programs : s[p] \in Obedient(p)

LEMMA RecoveredObeys ==
  ASSUME RulesAreAcyclic, RulesAreConsistent
  PROVE  AllObedient(WithFavourites) /\ \A data \in Settings : AllObedient(Recovered(data))
<1>1. \A p \in Programs : Favoured(p) \in Obedient(p)
  BY KeepsObedient, LoadedObeys, FavouredIn
<1>2. AllObedient(WithFavourites)
  BY <1>1 DEF WithFavourites, AllObedient, Obedient, Commanded
<1>3. ASSUME NEW data \in Settings PROVE AllObedient(Recovered(data))
  <2>1. FirstProgram \in Programs
    BY ProgramsAssumption
  <2> DEFINE new == Restored(FirstProgram, WithFavourites[FirstProgram], data)
  <2>2. new \in Obedient(FirstProgram)
    BY <1>2, <2>1, KeepsObedient, RestoredIn DEF AllObedient
  <2>3. Recovered(data) = [WithFavourites EXCEPT ![FirstProgram] = new]
    BY DEF Recovered
  <2> HIDE DEF new
  <2> QED
    BY <1>2, <2>1, <2>2, <2>3 DEF AllObedient, Obedient, Commanded
<1> QED
  BY <1>2, <1>3

LEMMA OverlayObeys ==
  ASSUME RulesAreAcyclic, RulesAreConsistent, AllObedient(state), NEW p \in Programs,
         NEW os \in Seq(Buffered)
  PROVE  Overlay(p, os).state \in Obedient(p)
<1> DEFINE P == {i \in DOMAIN os : os[i].key \in Exposed(p)}
<1> DEFINE set == Kept(os, P)
<1> DEFINE todo == [i \in DOMAIN set |-> Set(set[i].key, set[i].value)]
<1>1. Overlay(p, os) = Assign(p, state[p], todo)
  BY DEF Overlay
<1> HIDE DEF P
<1>2. set \in Seq(Buffered)
  BY KeptElements
<1> HIDE DEF set
<1>3. ASSUME NEW i \in DOMAIN set PROVE set[i].key \in Options /\ set[i].value \in Codes
  <2> DEFINE o == set[i]
  <2>1. o \in Buffered
    BY <1>2
  <2> HIDE DEF o
  <2>2. o.key \in Options /\ o.value \in Codes
    BY <2>1 DEF Buffered
  <2> QED
    BY <2>2 DEF o
<1>4. DOMAIN todo = DOMAIN set /\ \A i \in DOMAIN set : todo[i] \in Todo /\ todo[i].by = "set"
  BY <1>3, SetIs
<1>5. todo \in Seq(Todo)
  <2>1. DOMAIN set = 1 .. Len(set) /\ Len(set) \in Nat
    BY <1>2
  <2>2. todo \in [1 .. Len(set) -> Todo]
    BY <1>4, <2>1
  <2> QED
    BY <2>1, <2>2
<1> HIDE DEF todo
<1>6. state[p] \in States /\ DOMAIN state[p] = Exposed(p) /\ Obeys(p, state[p])
  BY DEF AllObedient, Obedient, Commanded
<1>7. IsResult(Assign(p, state[p], todo), state[p])
  BY <1>5, <1>6, AssignIs, AcyclicRulesTerminate
<1>8. Obeys(p, Assign(p, state[p], todo).state)
  BY <1>4, <1>5, <1>6, AssignObeys
<1> QED
  BY <1>1, <1>6, <1>7, <1>8 DEF IsResult, Obedient, Commanded

\* The commands obey their rules, and so does what is sent.
IsSentBy(b) == b.program \in Programs /\ \E c \in Obedient(b.program) : b.values = Values(c)
ObeysInv ==
  /\ AllObedient(state)
  /\ \A j \in Presses : phase[j] = "sending" => IsSentBy(bundle[j])

LEMMA ObeysInit == RulesAreAcyclic /\ RulesAreConsistent => (Init => ObeysInv)
<1> SUFFICES ASSUME RulesAreAcyclic, RulesAreConsistent, Init PROVE ObeysInv
  OBVIOUS
<1>1. AllObedient(state)
  BY RecoveredObeys DEF Init
<1> QED
  BY <1>1 DEF Init, ObeysInv

LEMMA PostedObeys ==
  ASSUME Shape, NEW j \in Presses, NEW p \in Programs, NEW c \in Obedient(p), Posted(j, p, c)
  PROVE  IsSentBy(bundle'[j])
<1> DEFINE b == [program |-> p, values |-> Values(c)]
<1>1. b.program = p /\ b.values = Values(c)
  OBVIOUS
<1> HIDE DEF b
<1>2. bundle'[j] = b
  BY DEF Posted, Shape, b
<1> QED
  BY <1>1, <1>2 DEF IsSentBy

LEMMA ObeysStep ==
  ASSUME RulesAreAcyclic, RulesAreConsistent
  PROVE  StateInv /\ TypeInv /\ ObeysInv /\ [Next]_vars => ObeysInv'
<1> SUFFICES ASSUME StateInv, TypeInv, ObeysInv, [Next]_vars PROVE ObeysInv'
  OBVIOUS
<1>s. Shape /\ NothingBuffered /\ EngineType /\ BufferType /\ PressType
  BY DEF StateInv, TypeInv
<1> DEFINE Fine(j) == phase[j] = "sending" => IsSentBy(bundle[j])
<1>f. AllObedient(state) /\ \A j \in Presses : Fine(j)
  BY DEF ObeysInv
<1>a. ASSUME NEW j \in Presses, Alike(j) PROVE Fine(j)'
  BY <1>a, <1>f DEF Alike, IsSentBy
<1>o. ASSUME NEW j \in Presses, Only(j), Fine(j)', AllObedient(state') PROVE ObeysInv'
  <2>1. \A i \in Presses : Fine(i)'
    BY <1>a, <1>o DEF Only
  <2> QED
    BY <1>o, <2>1 DEF ObeysInv, AllObedient
<1>u. state' = state => AllObedient(state')
  BY <1>f
<1>0. CASE UNCHANGED pressVar /\ state' = state
  BY <1>0, <1>u DEF pressVar, ObeysInv, IsSentBy, AllObedient
<1>1. ASSUME NEW n \in Names, Choose(n) PROVE ObeysInv'
  BY <1>0, <1>1 DEF Choose, engine
<1>2. ASSUME NEW k \in Options, NEW v, Buffer(k, v) PROVE ObeysInv'
  BY <1>0, <1>2 DEF Buffer, engine
<1>3. ASSUME NEW j \in Presses, NEW n \in Names \cup {NoName}, NEW os, Queue(j, n, os) PROVE ObeysInv'
  <2>1. state' = state
    BY <1>3 DEF Queue, engine
  <2>2. Only(j) /\ phase'[j] = "queued"
    BY <1>s, <1>3, Queued
  <2> QED
    BY <1>o, <1>u, <2>1, <2>2
<1>4. ASSUME NEW j \in Presses, Run(j) PROVE ObeysInv'
  <2> DEFINE p == Base(Target(j))
  <2> DEFINE r == Overlay(p, chosen[j])
  <2>1. Only(j)
    BY <1>s, <1>4, Runs
  <2>2. /\ state' = [state EXCEPT ![p] = r.state]
        /\ IF r.ok THEN Posted(j, p, r.state)
                   ELSE phase' = [phase EXCEPT ![j] = "failed"] /\ UNCHANGED bundle
    BY <1>4 DEF Run
  <2>3. p \in Programs
    BY <1>s, BaseIs DEF Target, Shape, EngineType
  <2> HIDE DEF p
  <2>4. r.state \in Obedient(p)
    BY <1>f, <1>s, <2>3, OverlayObeys DEF BufferType
  <2> HIDE DEF r
  <2>5. AllObedient(state')
    BY <1>f, <2>2, <2>3, <2>4 DEF AllObedient, Obedient, Commanded
  <2>6. Fine(j)'
    <3>1. CASE r.ok
      <4>1. IsSentBy(bundle'[j])
        BY <1>s, <2>2, <2>3, <2>4, <3>1, PostedObeys
      <4> QED
        BY <4>1 DEF IsSentBy
    <3>2. CASE ~r.ok
      BY <1>s, <2>2, <3>2 DEF Shape
    <3> QED
      BY <3>1, <3>2
  <2> QED
    BY <1>o, <2>1, <2>5, <2>6
<1>5. ASSUME NEW j \in Presses, SendProgram(j) PROVE ObeysInv'
  <2> DEFINE p == Base(wanted[j])
  <2>1. Only(j) /\ Posted(j, p, state[p]) /\ state' = state
    BY <1>s, <1>5, Runs DEF SendProgram
  <2>2. p \in Programs
    BY <1>5, <1>s, BaseIs DEF SendProgram, Turn, PressType, InFlight
  <2> HIDE DEF p
  <2>3. IsSentBy(bundle'[j])
    BY <1>f, <1>s, <2>1, <2>2, PostedObeys DEF AllObedient
  <2>4. Fine(j)'
    BY <2>3 DEF IsSentBy
  <2> QED
    BY <1>o, <1>u, <2>1, <2>4
<1>6. ASSUME NEW j \in Presses, RunStale(j) \/ Accepted(j) \/ Fails(j) \/ TimesOut(j) PROVE ObeysInv'
  <2>1. Only(j) /\ phase'[j] \in {"accepted", "failed"}
    BY <1>s, <1>6, Ends
  <2>2. state' = state
    BY <1>6 DEF RunStale, Accepted, Fails, TimesOut, engine
  <2> QED
    BY <1>o, <1>u, <2>1, <2>2
<1>7. ASSUME NEW j \in Presses, Returns(j) PROVE ObeysInv'
  <2>1. Only(j) /\ phase'[j] = "idle" /\ state' = state
    BY <1>s, <1>7, ReturnsTo DEF Returns, engine
  <2> QED
    BY <1>o, <1>u, <2>1
<1>8. ASSUME NEW closed \in BOOLEAN, Reload(closed) PROVE ObeysInv'
  <2>1. phase' = phase /\ bundle' = bundle /\ state' = Recovered(IF last = NoEntry THEN <<>> ELSE last.values)
    BY <1>8 DEF Reload
  <2>2. (IF last = NoEntry THEN <<>> ELSE last.values) \in Settings
    BY <1>s, SettingsAre DEF EngineType, Sent
  <2>3. AllObedient(state')
    BY <2>1, <2>2, RecoveredObeys
  <2> QED
    BY <1>f, <2>1, <2>3 DEF ObeysInv, AllObedient, IsSentBy
<1>9. CASE UNCHANGED vars
  BY <1>0, <1>9 DEF vars, engine
<1>10. ASSUME NEW j \in Presses, Press(j) \/ \E n \in Names : Pick(j, n) PROVE ObeysInv'
  BY <1>3, <1>10, <1>s DEF Press, Pick, Shape
<1> QED
  BY <1>1, <1>2, <1>4, <1>5, <1>6, <1>7, <1>8, <1>9, <1>10 DEF Next

\* What is sent never contradicts the rules of its program, if no rule leads back to
\* itself and no two want different things.
THEOREM ConsistentRulesAreObeyed ==
  ASSUME RulesAreAcyclic, RulesAreConsistent
  PROVE  Spec => []RulesAreObeyed
<1>1. ObeysInv => RulesAreObeyed
  <2> SUFFICES ASSUME ObeysInv, NEW j \in Presses, phase[j] = "sending",
                      NEW i \in DOMAIN Rules[bundle[j].program],
                      Rules[bundle[j].program][i].by = "fixed",
                      Rules[bundle[j].program][i].target \in DOMAIN bundle[j].values,
                      Schema[bundle[j].program][Rules[bundle[j].program][i].target].kind = "enum",
                      \A k \in DOMAIN Rules[bundle[j].program][i].when :
                        k \in DOMAIN bundle[j].values /\ bundle[j].values[k] = Rules[bundle[j].program][i].when[k]
               PROVE  bundle[j].values[Rules[bundle[j].program][i].target] = Rules[bundle[j].program][i].to
    BY DEF RulesAreObeyed
  <2> DEFINE p == bundle[j].program
  <2> DEFINE r == Rules[p][i]
  <2>1. PICK c \in Obedient(p) : p \in Programs /\ bundle[j].values = Values(c)
    BY DEF ObeysInv, IsSentBy
  <2>2. c \in States /\ DOMAIN c = Exposed(p) /\ Obeys(p, c)
    BY DEF Obedient, Commanded
  <2>3. DOMAIN Values(c) = DOMAIN c /\ \A k \in DOMAIN c : Values(c)[k] = c[k].value
    BY <2>1, <2>2, ValuesAre
  <2>4. FixesEnum(p, r) /\ Met(c, r.when)
    BY <2>1, <2>2, <2>3 DEF FixesEnum, Met
  <2>5. IsFixed(c, r)
    BY <2>2, <2>4 DEF Obeys
  <2> QED
    BY <2>1, <2>2, <2>3, <2>4, <2>5 DEF IsFixed, FixesEnum
<1>2. Init => ObeysInv
  BY ObeysInit
<1>3. StateInv /\ TypeInv /\ ObeysInv /\ [Next]_vars => ObeysInv'
  BY ObeysStep
<1>4. Spec => []TypeInv
  BY TypeHolds, AcyclicRulesTerminate
<1> QED
  BY <1>1, <1>2, <1>3, <1>4, StateHolds, PTL DEF Spec
===============================================================================
