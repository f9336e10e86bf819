----------------------------- MODULE TrafficProofs -----------------------------
(***************************************************************************)
(* No byte is charged twice or to another user, none is dropped while the    *)
(* database answers, nobody is shown as seen for nothing, and every step is   *)
(* one of Ledger: for any users, connections, bounds and faults.             *)
(*                                                                         *)
(* The counters are followed one connection and one user on mtg at a time,   *)
(* through seen, billed and what was really moved.  What a row says is about *)
(* sums over connections; the lemmas on sums come first.                     *)
(***************************************************************************)
EXTENDS MCTraffic, FiniteSetTheorems, WellFoundedInduction, TLAPS

(* What a sum over a set is.  SumFunctionOnSet takes out one chosen element     *)
(* after the other; that this adds up to what a sum should be follows from a    *)
(* set of sets always having a member that contains no other (MinimalSubset).   *)
LEMMA MinimalSubset ==
    ASSUME NEW S, IsFiniteSet(S), NEW W \in SUBSET (SUBSET S), W # {}
    PROVE  \E T \in W : \A U \in W : U \subseteq T => U = T
<1>1. IsWellFoundedOn(StrictSubsetOrdering(S), SUBSET S)
  BY FS_StrictSubsetOrderingWellFounded, FS_FiniteSubsetsOfFinite, Zenon
<1>2. \E T \in W : \A U \in W : <<U, T>> \notin StrictSubsetOrdering(S)
  BY <1>1, WFMin, Zenon
<1> QED BY <1>2 DEF StrictSubsetOrdering

(* SumFunctionOnSet(f, S) is read off a function that is defined by recursion   *)
(* on the subsets of S: there is one, and one for T <= S agrees with one for S.  *)
Chosen(s) == CHOOSE x \in s : TRUE
Solves(g, f, S) ==
    g = [s \in SUBSET S |-> IF s = {} THEN 0 ELSE f[Chosen(s)] + g[s \ {Chosen(s)}]]

LEMMA SumSolves ==
    ASSUME NEW f, NEW S
    PROVE  SumFunctionOnSet(f, S) = (CHOOSE g : Solves(g, f, S))[S]
BY DEF SumFunctionOnSet, FoldFunctionOnSet, MapThenFoldSet, Solves, Chosen

LEMMA ChosenIn == \A s : s # {} => Chosen(s) \in s
BY DEF Chosen

LEMMA SolvesAt ==
    ASSUME NEW f, NEW S, NEW g, Solves(g, f, S), NEW s \in SUBSET S
    PROVE  g[s] = IF s = {} THEN 0 ELSE f[Chosen(s)] + g[s \ {Chosen(s)}]
<1> DEFINE G == [t \in SUBSET S |-> IF t = {} THEN 0 ELSE f[Chosen(t)] + g[t \ {Chosen(t)}]]
<1>1. g = G
  BY DEF Solves
<1>2. G[s] = IF s = {} THEN 0 ELSE f[Chosen(s)] + g[s \ {Chosen(s)}]
  OBVIOUS
<1> QED BY <1>1, <1>2, Zenon

LEMMA SolutionsAgree ==
    ASSUME NEW S, IsFiniteSet(S), NEW T \in SUBSET S, NEW f, NEW g, NEW h,
           Solves(g, f, S), Solves(h, f, T)
    PROVE  \A s \in SUBSET T : g[s] = h[s]
<1> DEFINE W == {s \in SUBSET T : g[s] # h[s]}
<1> SUFFICES ASSUME W # {} PROVE FALSE
  OBVIOUS
<1>1. PICK s \in W : \A u \in W : u \subseteq s => u = s
  <2>1. W \in SUBSET (SUBSET S)
    OBVIOUS
  <2> HIDE DEF W
  <2> QED BY <2>1, MinimalSubset
<1>2. s # {} => s \ {Chosen(s)} \notin W
  BY <1>1, ChosenIn
<1>3. s # {} => g[s \ {Chosen(s)}] = h[s \ {Chosen(s)}]
  BY <1>2
<1>4. g[s] = IF s = {} THEN 0 ELSE f[Chosen(s)] + g[s \ {Chosen(s)}]
  BY SolvesAt
<1>5. h[s] = IF s = {} THEN 0 ELSE f[Chosen(s)] + h[s \ {Chosen(s)}]
  BY SolvesAt
<1> QED BY <1>3, <1>4, <1>5

LEMMA Solvable ==
    ASSUME NEW S, IsFiniteSet(S), NEW f
    PROVE  \E g : Solves(g, f, S)
<1> DEFINE W == {T \in SUBSET S : ~\E g : Solves(g, f, T)}
<1> SUFFICES ASSUME W # {} PROVE FALSE
  OBVIOUS
<1>1. PICK T \in W : \A U \in W : U \subseteq T => U = T
  <2>1. W \in SUBSET (SUBSET S)
    OBVIOUS
  <2> HIDE DEF W
  <2> QED BY <2>1, MinimalSubset
<1> DEFINE Sol(u) == CHOOSE g : Solves(g, f, u)
           H == [u \in SUBSET T |-> Sol(u)[u]]
           g == [s \in SUBSET T |-> IF s = {} THEN 0 ELSE f[Chosen(s)] + H[s \ {Chosen(s)}]]
<1>2. ASSUME NEW u \in SUBSET T, u # T PROVE Solves(Sol(u), f, u)
  <2>1. u \notin W
    BY <1>1, <1>2
  <2> QED BY <2>1
<1>3. ASSUME NEW u \in SUBSET T, u # T PROVE g[u] = H[u]
  <2>1. Sol(u)[u] = IF u = {} THEN 0 ELSE f[Chosen(u)] + Sol(u)[u \ {Chosen(u)}]
    <3> HIDE DEF Sol
    <3> QED BY <1>2, <1>3, SolvesAt
  <2>2. CASE u = {}
    BY <2>1, <2>2
  <2>3. CASE u # {}
    <3> DEFINE v == u \ {Chosen(u)}
    <3>1. v \in SUBSET u /\ v # T /\ v \in SUBSET T /\ IsFiniteSet(u)
      BY <1>3, <2>3, ChosenIn, FS_Subset
    <3>2. Solves(Sol(u), f, u) /\ Solves(Sol(v), f, v)
      BY <1>2, <1>3, <3>1
    <3>3. Sol(u)[v] = Sol(v)[v]
      <4> HIDE DEF Sol, v
      <4> QED BY <3>1, <3>2, SolutionsAgree
    <3> HIDE DEF Sol
    <3> QED BY <2>1, <2>3, <3>1, <3>3
  <2> QED BY <2>2, <2>3
<1>4. Solves(g, f, T)
  <2>1. ASSUME NEW s \in SUBSET T
        PROVE  s # {} => H[s \ {Chosen(s)}] = g[s \ {Chosen(s)}]
    <3>1. s # {} => s \ {Chosen(s)} \in SUBSET T /\ s \ {Chosen(s)} # T
      BY ChosenIn
    <3> HIDE DEF g, H
    <3> QED BY <1>3, <3>1
  <2> DEFINE G == [s \in SUBSET T |-> IF s = {} THEN 0 ELSE f[Chosen(s)] + g[s \ {Chosen(s)}]]
  <2>2. g = G
    <3> HIDE DEF H
    <3>1. \A s \in SUBSET T : (IF s = {} THEN 0 ELSE f[Chosen(s)] + H[s \ {Chosen(s)}])
                            = (IF s = {} THEN 0 ELSE f[Chosen(s)] + g[s \ {Chosen(s)}])
      <4> HIDE DEF g
      <4> QED BY <2>1
    <3> QED BY <3>1, Zenon
  <2> HIDE DEF g
  <2> QED BY <2>2 DEF Solves
<1> QED BY <1>4

(* The two equations of a sum, and what they give by taking a smallest set for   *)
(* which a claim fails.                                                           *)
LEMMA SumEmpty == \A f : SumFunctionOnSet(f, {}) = 0
<1> TAKE f
<1>1. Solves(CHOOSE g : Solves(g, f, {}), f, {})
  BY Solvable, FS_EmptySet
<1> QED BY <1>1, SolvesAt, SumSolves

LEMMA SumUnfolds ==
    ASSUME NEW S, IsFiniteSet(S), S # {}, NEW f
    PROVE  SumFunctionOnSet(f, S) = f[Chosen(S)] + SumFunctionOnSet(f, S \ {Chosen(S)})
<1> DEFINE g == CHOOSE g : Solves(g, f, S)
           T == S \ {Chosen(S)}
           h == CHOOSE h : Solves(h, f, T)
<1>1. T \in SUBSET S /\ IsFiniteSet(T)
  BY FS_Subset
<1>2. Solves(g, f, S) /\ Solves(h, f, T)
  BY <1>1, Solvable
<1>3. SumFunctionOnSet(f, S) = g[S] /\ SumFunctionOnSet(f, T) = h[T]
  BY SumSolves
<1> HIDE DEF g, h, T
<1>4. g[T] = h[T]
  BY <1>1, <1>2, SolutionsAgree
<1>5. g[S] = f[Chosen(S)] + g[T]
  BY <1>2, SolvesAt DEF T
<1> QED BY <1>3, <1>4, <1>5 DEF T

LEMMA SumType ==
    ASSUME NEW S, IsFiniteSet(S), NEW f, \A x \in S : f[x] \in Nat
    PROVE  SumFunctionOnSet(f, S) \in Nat
<1> DEFINE W == {T \in SUBSET S : SumFunctionOnSet(f, T) \notin Nat}
<1> SUFFICES ASSUME W # {} PROVE FALSE
  OBVIOUS
<1>1. PICK T \in W : \A U \in W : U \subseteq T => U = T
  <2>1. W \in SUBSET (SUBSET S)
    OBVIOUS
  <2> HIDE DEF W
  <2> QED BY <2>1, MinimalSubset
<1>2. T \in SUBSET S /\ SumFunctionOnSet(f, T) \notin Nat
  OBVIOUS
<1>3. T # {}
  BY <1>2, SumEmpty
<1>4. Chosen(T) \in T /\ IsFiniteSet(T)
  BY <1>2, <1>3, ChosenIn, FS_Subset
<1>5. SumFunctionOnSet(f, T \ {Chosen(T)}) \in Nat
  BY <1>1, <1>4
<1>6. SumFunctionOnSet(f, T) = f[Chosen(T)] + SumFunctionOnSet(f, T \ {Chosen(T)})
  BY <1>3, <1>4, SumUnfolds
<1>7. f[Chosen(T)] \in Nat
  BY <1>2, <1>4
<1> HIDE DEF W
<1> QED BY <1>2, <1>5, <1>6, <1>7

LEMMA SumAdd ==
    ASSUME NEW S, IsFiniteSet(S), NEW f, NEW g, NEW h,
           \A x \in S : f[x] \in Nat /\ g[x] \in Nat /\ h[x] = f[x] + g[x]
    PROVE  SumFunctionOnSet(h, S) = SumFunctionOnSet(f, S) + SumFunctionOnSet(g, S)
<1> DEFINE Splits(T) == SumFunctionOnSet(h, T) = SumFunctionOnSet(f, T) + SumFunctionOnSet(g, T)
           W == {T \in SUBSET S : ~Splits(T)}
<1> SUFFICES ASSUME W # {} PROVE FALSE
  OBVIOUS
<1>1. PICK T \in W : \A U \in W : U \subseteq T => U = T
  <2>1. W \in SUBSET (SUBSET S)
    OBVIOUS
  <2> HIDE DEF W
  <2> QED BY <2>1, MinimalSubset
<1> DEFINE x == Chosen(T)
           U == T \ {x}
<1>2. T \in SUBSET S /\ ~Splits(T)
  OBVIOUS
<1>3. T # {}
  <2>1. /\ SumFunctionOnSet(f, {}) = 0 /\ SumFunctionOnSet(g, {}) = 0
        /\ SumFunctionOnSet(h, {}) = 0
    BY SumEmpty
  <2>2. Splits({})
    BY <2>1
  <2> HIDE DEF Splits, W
  <2> QED BY <1>2, <2>2, Zenon
<1>4. x \in T /\ U \in SUBSET S /\ IsFiniteSet(T) /\ IsFiniteSet(U)
  BY <1>2, <1>3, ChosenIn, FS_Subset
<1>5. Splits(U)
  BY <1>1, <1>4
<1>6. SumFunctionOnSet(f, U) \in Nat /\ SumFunctionOnSet(g, U) \in Nat
  BY <1>4, SumType
<1>7. /\ SumFunctionOnSet(f, T) = f[x] + SumFunctionOnSet(f, U)
      /\ SumFunctionOnSet(g, T) = g[x] + SumFunctionOnSet(g, U)
      /\ SumFunctionOnSet(h, T) = h[x] + SumFunctionOnSet(h, U)
  BY <1>3, <1>4, SumUnfolds
<1>8. f[x] \in Nat /\ g[x] \in Nat /\ h[x] = f[x] + g[x]
  BY <1>2, <1>4
<1> HIDE DEF W, U, x
<1> QED BY <1>2, <1>5, <1>6, <1>7, <1>8

LEMMA SumMonotone ==
    ASSUME NEW S, IsFiniteSet(S), NEW f, NEW g,
           \A x \in S : f[x] \in Nat /\ g[x] \in Nat /\ f[x] <= g[x]
    PROVE  SumFunctionOnSet(f, S) <= SumFunctionOnSet(g, S)
<1> DEFINE d == [x \in S |-> g[x] - f[x]]
<1>1. \A x \in S : d[x] \in Nat /\ g[x] = f[x] + d[x]
  OBVIOUS
<1> HIDE DEF d
<1>2. SumFunctionOnSet(g, S) = SumFunctionOnSet(f, S) + SumFunctionOnSet(d, S)
  BY <1>1, SumAdd
<1>3. SumFunctionOnSet(f, S) \in Nat /\ SumFunctionOnSet(d, S) \in Nat
  BY <1>1, SumType
<1> QED BY <1>2, <1>3

LEMMA SumZero ==
    ASSUME NEW S, IsFiniteSet(S), NEW f, \A x \in S : f[x] = 0
    PROVE  SumFunctionOnSet(f, S) = 0
<1>1. SumFunctionOnSet(f, S) = SumFunctionOnSet(f, S) + SumFunctionOnSet(f, S)
  BY SumAdd
<1>2. SumFunctionOnSet(f, S) \in Nat
  BY SumType
<1> QED BY <1>1, <1>2

-------------------------------------------------------------------------------
(* The counters. *)
CounterTypes ==
    /\ owner \in [Conns -> Users \cup {Nobody}]
    /\ conn \in [Conns -> {"new", "open", "gone"}]
    /\ bytes \in [Conns -> Nat]
    /\ count \in [Users -> Pair]
    /\ seen \in [Conns -> Nat]
    /\ tgSeen \in [Users -> SUBSET Pair]
    /\ billed \in [Conns -> Nat]
    /\ tgMoved \in [Users -> Nat]
    /\ tgBilled \in [Users -> Nat]

(* Counter.seen is exactly what an open connection was charged so far.  *)
ConnInv ==
    \A c \in Conns :
        /\ billed[c] <= bytes[c]
        /\ seen[c] <= bytes[c]
        /\ conn[c] = "new" => billed[c] = 0 /\ seen[c] = 0
        /\ c \in Attributed => billed[c] = seen[c]

(* What is charged and what the next poll would charge were both moved: all   *)
(* of the counters when they show a restart, else what they grew by.           *)
UserInv ==
    \A u \in Users :
        /\ tgBilled[u] <= tgMoved[u]
        /\ \A p, q \in tgSeen[u] : p = q
        /\ \A p \in tgSeen[u] :
            /\ WentDown(u, p) =>
                 tgBilled[u] + (count[u].in + count[u].out) <= tgMoved[u]
            /\ ~WentDown(u, p) =>
                 tgBilled[u] + (count[u].in + count[u].out)
                     <= tgMoved[u] + (p.in + p.out)

BillingInv == CounterTypes /\ ConnInv /\ UserInv

LEMMA InitBilling == Init => BillingInv
BY DEF Init, BillingInv, CounterTypes, ConnInv, UserInv, Attributed, Pair, Zero, None

-------------------------------------------------------------------------------
(* A delta is a number, and it is at most what was moved and not yet charged.  *)
LEMMA DeltaBound ==
    ASSUME CounterTypes, ConnInv, NEW c \in Conns
    PROVE  /\ ConnDelta[c] \in Nat
           /\ billed[c] + ConnDelta[c] <= bytes[c]
           /\ c \in Attributed => billed[c] + ConnDelta[c] = bytes[c]
           /\ c \notin Attributed => ConnDelta[c] = 0
BY DEF CounterTypes, ConnInv, ConnDelta, Delta

LEMMA TgDeltaBound ==
    ASSUME CounterTypes, UserInv, NEW u \in Users
    PROVE  /\ TgDelta(u) \in Nat
           /\ tgBilled[u] + TgDelta(u) <= tgMoved[u]
<1>1. CASE u \notin listed \/ tgSeen[u] = {}
  BY <1>1 DEF CounterTypes, UserInv, TgDelta
<1>2. CASE ~(u \notin listed \/ tgSeen[u] = {})
  <2> DEFINE prev == CHOOSE p \in tgSeen[u] : TRUE
             new == count[u].in + count[u].out
  <2>1. prev \in tgSeen[u]
    BY <1>2
  <2>2. /\ count[u].in \in Nat /\ count[u].out \in Nat
        /\ prev.in \in Nat /\ prev.out \in Nat
        /\ tgBilled[u] \in Nat /\ tgMoved[u] \in Nat
    BY <2>1 DEF CounterTypes, Pair
  <2>3. /\ WentDown(u, prev) => tgBilled[u] + new <= tgMoved[u]
        /\ ~WentDown(u, prev) => tgBilled[u] + new <= tgMoved[u] + (prev.in + prev.out)
    BY <2>1 DEF UserInv
  <2>4. TgDelta(u) = IF WentDown(u, prev) THEN new ELSE new - (prev.in + prev.out)
    BY <1>2 DEF TgDelta
  <2> HIDE DEF prev
  <2>5. CASE WentDown(u, prev)
    BY <2>2, <2>3, <2>4, <2>5
  <2>6. CASE ~WentDown(u, prev)
    <3>1. count[u].in >= prev.in /\ count[u].out >= prev.out
      BY <2>2, <2>6 DEF WentDown
    <3> QED BY <2>2, <2>3, <2>4, <2>6, <3>1
  <2> QED BY <2>5, <2>6
<1> QED BY <1>1, <1>2

LEMMA StepBilling == BillingInv /\ [Next]_vars => BillingInv'
<1> SUFFICES ASSUME BillingInv, [Next]_vars PROVE BillingInv'
  OBVIOUS
<1>a. CounterTypes /\ ConnInv /\ UserInv
  BY DEF BillingInv
<1>b. ASSUME UNCHANGED <<owner, conn, bytes, count, seen, tgSeen, billed, tgMoved, tgBilled>>
      PROVE  BillingInv'
  BY <1>a, <1>b DEF BillingInv, CounterTypes, ConnInv, UserInv, Attributed, WentDown
<1>1. CASE Poll
  <2>1. CounterTypes'
    BY <1>1, <1>a, DeltaBound DEF Poll, CounterTypes, proxies
  <2>2. ConnInv'
    BY <1>1, <1>a, DeltaBound DEF Poll, CounterTypes, ConnInv, Attributed, proxies
  <2>3. UserInv'
    BY <1>1, <1>a DEF Poll, UserInv, WentDown, proxies
  <2> QED BY <2>1, <2>2, <2>3 DEF BillingInv
<1>2. CASE TgPoll
  <2>1. CounterTypes'
    BY <1>2, <1>a, TgDeltaBound DEF TgPoll, CounterTypes, proxies
  <2>2. ConnInv'
    BY <1>2, <1>a DEF TgPoll, ConnInv, Attributed, proxies
  <2>3. ASSUME NEW u \in Users
        PROVE  /\ (tgBilled[u] <= tgMoved[u])'
               /\ (\A p, q \in tgSeen[u] : p = q)'
               /\ \A p \in tgSeen'[u] : p = count[u] /\ p \in Pair
    BY <1>2, <1>a, TgDeltaBound DEF TgPoll, CounterTypes, Pair, WentDown, proxies
  <2>4. UserInv'
    <3> SUFFICES ASSUME NEW u \in Users, NEW p \in tgSeen'[u]
                 PROVE  /\ ~(count'[u].in < p.in \/ count'[u].out < p.out)
                        /\ tgBilled'[u] + (count'[u].in + count'[u].out)
                             <= tgMoved'[u] + (p.in + p.out)
      BY <2>3 DEF UserInv, WentDown
    <3>1. tgBilled'[u] <= tgMoved'[u] /\ p = count[u] /\ count' = count
      BY <1>2, <2>3 DEF TgPoll, proxies
    <3>2. /\ tgBilled'[u] \in Nat /\ tgMoved'[u] \in Nat
          /\ count[u].in \in Nat /\ count[u].out \in Nat
      BY <1>a, <2>1 DEF CounterTypes, Pair
    <3> QED BY <3>1, <3>2
  <2> QED BY <2>1, <2>2, <2>4 DEF BillingInv
<1>3. ASSUME NEW c \in Conns, Open(c) \/ Move(c) PROVE BillingInv'
  BY <1>3, <1>a
     DEF Open, Move, BillingInv, CounterTypes, ConnInv, UserInv, Attributed, WentDown, counters
<1>4. ASSUME NEW C \in SUBSET Conns, Close(C) PROVE BillingInv'
  BY <1>4, <1>a
     DEF Close, BillingInv, CounterTypes, ConnInv, UserInv, Attributed, WentDown, counters
<1>5. ASSUME NEW u \in Users, NEW dir \in {"in", "out"}, TgMove(u, dir)
      PROVE  BillingInv'
  <2>1. CASE dir = "in"
    BY <1>5, <1>a, <2>1
       DEF TgMove, BillingInv, CounterTypes, ConnInv, UserInv, Attributed, WentDown,
           counters, Pair
  <2>2. CASE dir = "out"
    BY <1>5, <1>a, <2>2
       DEF TgMove, BillingInv, CounterTypes, ConnInv, UserInv, Attributed, WentDown,
           counters, Pair
  <2> QED BY <1>5, <2>1, <2>2
<1>6. ASSUME NEW L \in SUBSET Users, NEW Z \in SUBSET Users, TgRestart(L, Z)
      PROVE  BillingInv'
  BY <1>6, <1>a
     DEF TgRestart, BillingInv, CounterTypes, ConnInv, UserInv, Attributed, WentDown,
         counters, Pair, Zero
<1>7. CASE PollFails \/ TgPollFails \/ Touch \/ UsersFails \/ EndRound
  BY <1>b, <1>7 DEF PollFails, TgPollFails, Touch, UsersFails, EndRound, proxies, counters
<1>8. ASSUME NEW u \in Users,
             Charge(u) \/ TgCharge(u) \/ ResetTraffic(u) \/ DeleteUser(u)
      PROVE  BillingInv'
  BY <1>b, <1>8 DEF Charge, TgCharge, ResetTraffic, DeleteUser, proxies, counters
<1>9. CASE UNCHANGED vars
  BY <1>b, <1>9 DEF vars, proxies, counters
<1> QED
  BY <1>1, <1>2, <1>3, <1>4, <1>5, <1>6, <1>7, <1>8, <1>9 DEF Next, Round, Proxies, Admin

(* Whatever polls fail, proxies restart and lists change: what became a delta  *)
(* for a connection or a user on mtg is at most what was moved.                 *)
THEOREM NoDoubleBilling == Spec => []BilledOnce
<1>1. BillingInv => BilledOnce
  BY DEF BillingInv, ConnInv, UserInv, BilledOnce
<1> QED BY <1>1, InitBilling, StepBilling, PTL DEF Spec

-------------------------------------------------------------------------------
(* A positive delta of mtg is backed by bytes (TgDeltaBound), and a connection *)
(* that was opened is never new again.                                          *)
PresenceInv ==
    /\ BillingInv
    /\ live \subseteq Users /\ stamped \subseteq Users
    /\ PresenceEarned

LEMMA StepPresence == PresenceInv /\ [Next]_vars => PresenceInv'
<1> DEFINE Goal == live \subseteq Users /\ stamped \subseteq Users /\ PresenceEarned
<1> SUFFICES ASSUME PresenceInv, [Next]_vars PROVE Goal'
  BY StepBilling DEF PresenceInv
<1>a. CounterTypes /\ ConnInv /\ UserInv /\ Goal
  BY DEF PresenceInv, BillingInv
<1>b. ASSUME UNCHANGED <<owner, conn, tgMoved>>, live' \subseteq live,
             stamped' \subseteq stamped \cup live
      PROVE  Goal'
  BY <1>a, <1>b DEF PresenceEarned
<1>1. CASE Poll
  <2>1. UNCHANGED <<owner, conn, stamped, tgMoved>> /\ live' = {owner[c] : c \in Attributed}
    BY <1>1 DEF Poll, proxies, rows
  <2>2. \A u \in live' : u \in Users /\ \E c \in Conns : owner[c] = u /\ conn[c] # "new"
    BY <1>a, <2>1 DEF CounterTypes, Attributed
  <2> QED BY <1>a, <2>1, <2>2 DEF PresenceEarned
<1>2. CASE TgPoll
  <2>1. UNCHANGED <<owner, conn, stamped, tgMoved>>
        /\ live' = live \cup {u \in Users : TgDelta(u) > 0}
    BY <1>2 DEF TgPoll, proxies, rows
  <2>2. ASSUME NEW u \in Users, TgDelta(u) > 0 PROVE tgMoved[u] > 0
    <3>1. TgDelta(u) \in Nat /\ tgBilled[u] + TgDelta(u) <= tgMoved[u]
      BY <1>a, TgDeltaBound
    <3>2. tgBilled[u] \in Nat /\ tgMoved[u] \in Nat
      BY <1>a DEF CounterTypes
    <3> QED BY <2>2, <3>1, <3>2
  <2> QED BY <1>a, <2>1, <2>2 DEF PresenceEarned
<1>3. ASSUME NEW c \in Conns, Open(c) \/ Move(c) PROVE Goal'
  BY <1>3, <1>a DEF Open, Move, PresenceEarned, CounterTypes, rows, loop
<1>4. ASSUME NEW C \in SUBSET Conns, Close(C) PROVE Goal'
  BY <1>4, <1>a DEF Close, PresenceEarned, CounterTypes, rows, loop
<1>5. ASSUME NEW u \in Users, NEW dir \in {"in", "out"}, TgMove(u, dir) PROVE Goal'
  BY <1>5, <1>a DEF TgMove, PresenceEarned, CounterTypes, rows, loop
<1>6. ASSUME NEW L \in SUBSET Users, NEW Z \in SUBSET Users, TgRestart(L, Z) PROVE Goal'
  BY <1>6, <1>b DEF TgRestart, rows, loop
<1>7. CASE PollFails \/ TgPollFails \/ Touch \/ UsersFails \/ EndRound
  BY <1>b, <1>7 DEF PollFails, TgPollFails, Touch, UsersFails, EndRound, proxies, rows
<1>8. ASSUME NEW u \in Users,
             Charge(u) \/ TgCharge(u) \/ ResetTraffic(u) \/ DeleteUser(u)
      PROVE  Goal'
  BY <1>b, <1>8 DEF Charge, TgCharge, ResetTraffic, DeleteUser, proxies, loop
<1>9. CASE UNCHANGED vars
  BY <1>b, <1>9 DEF vars, proxies, rows, loop
<1> QED
  BY <1>1, <1>2, <1>3, <1>4, <1>5, <1>6, <1>7, <1>8, <1>9 DEF Next, Round, Proxies, Admin

(* Nobody is shown as seen who had no connection and moved nothing through     *)
(* mtg, whatever mtg lists, drops or counts anew.                               *)
THEOREM PresenceIsEarned == Spec => []PresenceEarned
<1>1. Init => PresenceInv
  BY InitBilling DEF Init, PresenceInv, PresenceEarned
<1>2. PresenceInv => PresenceEarned
  BY DEF PresenceInv
<1> QED BY <1>1, <1>2, StepPresence, PTL DEF Spec

-------------------------------------------------------------------------------
(* The accounts: what the counters say of a user, and the deltas on their way    *)
(* to the user's row.                                                            *)
Own(u) == {c \in Conns : owner[c] = u}

(* Between two rounds nothing is on its way, and before the poll of mtg nothing  *)
(* of mtg is: this is why a poll may overwrite the deltas.                       *)
Phases ==
    /\ pc = "idle" => deltas = None /\ tgDeltas = None
    /\ pc = "mtg" => tgDeltas = None

AccountInv == TypeOK /\ BillingInv /\ Phases

LEMMA OwnFinite == \A u : IsFiniteSet(Own(u)) /\ Own(u) \subseteq Conns
BY FS_Subset, TrafficAssumption DEF TrafficAssumption, Own

LEMMA SumsTyped ==
    ASSUME CounterTypes, NEW u \in Users
    PROVE  /\ SumFunctionOnSet(bytes, Own(u)) \in Nat /\ Moved(u) \in Nat
           /\ SumFunctionOnSet(billed, Own(u)) \in Nat /\ Billed(u) \in Nat
           /\ tgMoved[u] \in Nat /\ tgBilled[u] \in Nat
<1>1. /\ \A c \in Own(u) : bytes[c] \in Nat /\ billed[c] \in Nat
      /\ tgMoved[u] \in Nat /\ tgBilled[u] \in Nat
  BY OwnFinite DEF CounterTypes
<1>2. SumFunctionOnSet(bytes, Own(u)) \in Nat /\ SumFunctionOnSet(billed, Own(u)) \in Nat
  BY <1>1, OwnFinite, SumType
<1> QED BY <1>1, <1>2 DEF Moved, Billed, Own

BooksTyped == \A u \in Users : Moved(u) \in Nat /\ Billed(u) \in Nat
BilledBacked == \A u \in Users : Billed(u) <= Moved(u)

LEMMA TypedBooks == CounterTypes => BooksTyped
BY SumsTyped DEF BooksTyped

LEMMA BilledWasMoved == BillingInv => BilledBacked
<1> SUFFICES ASSUME BillingInv, NEW u \in Users PROVE Billed(u) <= Moved(u)
  BY DEF BilledBacked
<1>1. /\ \A c \in Own(u) : bytes[c] \in Nat /\ billed[c] \in Nat /\ billed[c] <= bytes[c]
      /\ tgBilled[u] <= tgMoved[u]
  BY OwnFinite DEF BillingInv, CounterTypes, ConnInv, UserInv
<1>2. SumFunctionOnSet(billed, Own(u)) <= SumFunctionOnSet(bytes, Own(u))
  BY <1>1, OwnFinite, SumMonotone
<1>3. CounterTypes
  BY DEF BillingInv
<1> QED BY <1>1, <1>2, <1>3, SumsTyped DEF Moved, Billed, Own

(* What a poll of sing-box hands to the loop is, per user, the sum of what the   *)
(* user's connections are billed in it.                                          *)
LEMMA PollBills ==
    ASSUME BillingInv, Poll, NEW u \in Users
    PROVE  /\ deltas'[u] \in Nat
           /\ SumFunctionOnSet(billed', Own(u)) = SumFunctionOnSet(billed, Own(u)) + deltas'[u]
<1>1. \A c \in Own(u) : /\ billed[c] \in Nat /\ ConnDelta[c] \in Nat
                        /\ billed'[c] = billed[c] + ConnDelta[c]
  BY OwnFinite, DeltaBound DEF Poll, BillingInv, CounterTypes
<1>2. deltas'[u] = SumFunctionOnSet(ConnDelta, Own(u))
  BY DEF Poll, Own
<1> QED BY <1>1, <1>2, OwnFinite, SumType, SumAdd

LEMMA StepTypes == AccountInv /\ [Next]_vars => TypeOK'
<1> SUFFICES ASSUME AccountInv, [Next]_vars PROVE TypeOK'
  OBVIOUS
<1> USE DEF TypeOK, None
<1>a. TypeOK /\ BillingInv /\ CounterTypes /\ UserInv
  BY DEF AccountInv, BillingInv
<1>b. BillingInv' /\ CounterTypes'
  BY <1>a, StepBilling DEF BillingInv
<1>1. CASE Poll
  <2>1. deltas' \in [Users -> Nat]
    BY <1>1, <1>a, PollBills DEF Poll
  <2>2. live' \in SUBSET Users /\ UNCHANGED <<listed, rows, tgDeltas>> /\ pc' = "mtg"
    BY <1>1, <1>a DEF Poll, Attributed, proxies
  <2> QED BY <1>a, <1>b, <2>1, <2>2 DEF CounterTypes, rows
<1>2. CASE TgPoll
  <2>1. tgDeltas' \in [Users -> Nat]
    BY <1>2, <1>a, TgDeltaBound DEF TgPoll
  <2>2. live' \in SUBSET Users /\ UNCHANGED <<listed, rows, deltas>> /\ pc' = "users"
    BY <1>2, <1>a DEF TgPoll, proxies
  <2> QED BY <1>a, <1>b, <2>1, <2>2 DEF CounterTypes, rows
<1>3. ASSUME NEW c \in Conns, Open(c) \/ Move(c) PROVE TypeOK'
  BY <1>3, <1>a, <1>b DEF Open, Move, CounterTypes, rows, loop
<1>4. ASSUME NEW C \in SUBSET Conns, Close(C) PROVE TypeOK'
  BY <1>4, <1>a, <1>b DEF Close, CounterTypes, rows, loop
<1>5. ASSUME NEW u \in Users, NEW dir \in {"in", "out"}, TgMove(u, dir) PROVE TypeOK'
  BY <1>5, <1>a, <1>b DEF TgMove, CounterTypes, rows, loop
<1>6. ASSUME NEW L \in SUBSET Users, NEW Z \in SUBSET Users, TgRestart(L, Z) PROVE TypeOK'
  BY <1>6, <1>a, <1>b DEF TgRestart, CounterTypes, rows, loop
<1>7. CASE PollFails \/ TgPollFails \/ Touch \/ UsersFails \/ EndRound
  BY <1>7, <1>a, <1>b
     DEF PollFails, TgPollFails, Touch, UsersFails, EndRound, CounterTypes, proxies, rows
<1>8. ASSUME NEW u \in Users, Charge(u) \/ TgCharge(u) PROVE TypeOK'
  BY <1>8, <1>a, <1>b DEF Charge, TgCharge, AddTraffic, CounterTypes, proxies, rows
<1>9. ASSUME NEW u \in Users, ResetTraffic(u) \/ DeleteUser(u) PROVE TypeOK'
  BY <1>9, <1>a, <1>b DEF ResetTraffic, DeleteUser, CounterTypes, proxies, loop
<1>10. CASE UNCHANGED vars
  BY <1>10, <1>a DEF vars, proxies, counters, rows, loop
<1> QED
  BY <1>1, <1>2, <1>3, <1>4, <1>5, <1>6, <1>7, <1>8, <1>9, <1>10
     DEF Next, Round, Proxies, Admin

LEMMA StepAccount == AccountInv /\ [Next]_vars => AccountInv'
<1> SUFFICES ASSUME AccountInv, [Next]_vars PROVE Phases'
  BY StepTypes, StepBilling DEF AccountInv
<1> USE DEF Phases
<1>a. Phases /\ TypeOK
  BY DEF AccountInv
<1>1. CASE \/ Poll \/ PollFails \/ TgPoll \/ TgPollFails \/ Touch \/ UsersFails \/ EndRound
  BY <1>1, <1>a DEF Poll, PollFails, TgPoll, TgPollFails, Touch, UsersFails, EndRound
<1>2. ASSUME NEW u \in Users, Charge(u) \/ TgCharge(u) PROVE Phases'
  BY <1>2, <1>a DEF Charge, TgCharge
<1>3. CASE Proxies \/ Admin \/ UNCHANGED vars
  BY <1>3, <1>a
     DEF Proxies, Admin, Open, Move, Close, TgMove, TgRestart, ResetTraffic, DeleteUser,
         vars, loop
<1> QED BY <1>1, <1>2, <1>3 DEF Next, Round

LEMMA InitAccount == Init => AccountInv
BY InitBilling DEF Init, AccountInv, TypeOK, Phases, Pair, Zero, None

(* Rows, deltas and counters keep their types for any users, connections and   *)
(* faults; deltas, which are differences, never become negative.                 *)
THEOREM TrafficTypes == Spec => []TypeOK
<1>1. AccountInv => TypeOK
  BY DEF AccountInv
<1> QED BY <1>1, InitAccount, StepAccount, PTL DEF Spec

-------------------------------------------------------------------------------
(* Every step is a step of the ledger.  Moved and billed bytes are the only sums  *)
(* in the mapping; they change by TgMove, Move and the two polls.                *)
LEMMA SameBooks ==
    ASSUME UNCHANGED <<owner, bytes, billed, tgMoved, tgBilled>>, NEW u \in Users
    PROVE  Moved(u)' = Moved(u) /\ Billed(u)' = Billed(u)
BY DEF Moved, Billed

LEMMA MoveIsUse ==
    ASSUME CounterTypes, CounterTypes', NEW u \in Users,
           UNCHANGED <<owner, billed, tgBilled>>, tgMoved[u] <= tgMoved'[u],
           \A c \in Conns : bytes[c] <= bytes'[c]
    PROVE  Moved(u)' >= Moved(u) /\ Billed(u)' = Billed(u)
<1>1. Own(u)' = Own(u)
  BY DEF Own
<1>2. \A c \in Own(u) : bytes[c] \in Nat /\ bytes'[c] \in Nat /\ bytes[c] <= bytes'[c]
  BY OwnFinite DEF CounterTypes
<1>3. SumFunctionOnSet(bytes, Own(u)) <= SumFunctionOnSet(bytes', Own(u))
  BY <1>2, OwnFinite, SumMonotone
<1>4. /\ SumFunctionOnSet(bytes, Own(u)) \in Nat /\ SumFunctionOnSet(bytes', Own(u)) \in Nat
      /\ tgMoved[u] \in Nat /\ tgMoved'[u] \in Nat
  BY <1>2, OwnFinite, SumType DEF CounterTypes
<1>5. /\ Moved(u) = SumFunctionOnSet(bytes, Own(u)) + tgMoved[u]
      /\ Moved(u)' = SumFunctionOnSet(bytes', Own(u)) + tgMoved'[u]
  BY <1>1 DEF Moved, Own
<1> QED BY <1>3, <1>4, <1>5 DEF Billed

LEMMA PollIsCollect ==
    ASSUME AccountInv, Poll, NEW u \in Users
    PROVE  /\ Moved(u)' = Moved(u) /\ Billed(u) <= Billed(u)' /\ Billed(u)' <= Moved(u)
           /\ deltas'[u] + tgDeltas'[u] = deltas[u] + tgDeltas[u] + (Billed(u)' - Billed(u))
<1>1. UNCHANGED <<owner, bytes, tgMoved, tgBilled, tgDeltas>>
  BY DEF Poll, proxies
<1>2. deltas[u] = 0 /\ tgDeltas[u] = 0
  BY DEF AccountInv, Phases, Poll, None
<1>3. BillingInv /\ CounterTypes /\ BillingInv' /\ CounterTypes'
  BY StepBilling DEF AccountInv, BillingInv, Next, Round
<1>4. /\ deltas'[u] \in Nat
      /\ SumFunctionOnSet(billed', Own(u)) = SumFunctionOnSet(billed, Own(u)) + deltas'[u]
  BY <1>3, PollBills
<1>5. /\ Billed(u) = SumFunctionOnSet(billed, Own(u)) + tgBilled[u]
      /\ Billed(u)' = SumFunctionOnSet(billed', Own(u)) + tgBilled[u]
  BY <1>1 DEF Billed, Own
<1>6. /\ SumFunctionOnSet(billed, Own(u)) \in Nat /\ tgBilled[u] \in Nat
      /\ Billed(u) \in Nat
  BY <1>3, SumsTyped
<1>7. Billed(u)' = Billed(u) + deltas'[u]
  BY <1>4, <1>5, <1>6
<1>8. Moved(u)' = Moved(u)
  BY <1>1 DEF Moved
<1>9. (Billed(u) <= Moved(u))'
  <2>1. BilledBacked'
    BY <1>3, BilledWasMoved, PTL
  <2> QED BY <2>1 DEF BilledBacked
<1> QED BY <1>1, <1>2, <1>4, <1>6, <1>7, <1>8, <1>9

LEMMA TgPollIsCollect ==
    ASSUME AccountInv, TgPoll, NEW u \in Users
    PROVE  /\ Moved(u)' = Moved(u) /\ Billed(u) <= Billed(u)' /\ Billed(u)' <= Moved(u)
           /\ deltas'[u] + tgDeltas'[u] = deltas[u] + tgDeltas[u] + (Billed(u)' - Billed(u))
<1>1. /\ UNCHANGED <<owner, bytes, billed, tgMoved, deltas>>
      /\ tgBilled'[u] = tgBilled[u] + TgDelta(u) /\ tgDeltas'[u] = TgDelta(u)
  BY DEF TgPoll, proxies
<1>2. tgDeltas[u] = 0 /\ deltas[u] \in Nat
  BY DEF AccountInv, TypeOK, Phases, TgPoll, None
<1>3. BillingInv /\ CounterTypes /\ UserInv
  BY DEF AccountInv, BillingInv
<1>4. TgDelta(u) \in Nat /\ tgBilled[u] + TgDelta(u) <= tgMoved[u]
  BY <1>3, TgDeltaBound
<1>5. SumFunctionOnSet(billed, Own(u)) <= SumFunctionOnSet(bytes, Own(u))
  <2>1. \A c \in Own(u) : bytes[c] \in Nat /\ billed[c] \in Nat /\ billed[c] <= bytes[c]
    BY <1>3, OwnFinite DEF BillingInv, CounterTypes, ConnInv
  <2> QED BY <2>1, OwnFinite, SumMonotone
<1>6. /\ SumFunctionOnSet(billed, Own(u)) \in Nat /\ SumFunctionOnSet(bytes, Own(u)) \in Nat
      /\ tgBilled[u] \in Nat /\ tgMoved[u] \in Nat
  BY <1>3, SumsTyped
<1>7. /\ Billed(u) = SumFunctionOnSet(billed, Own(u)) + tgBilled[u]
      /\ Billed(u)' = SumFunctionOnSet(billed, Own(u)) + (tgBilled[u] + TgDelta(u))
      /\ Moved(u) = SumFunctionOnSet(bytes, Own(u)) + tgMoved[u]
      /\ Moved(u)' = Moved(u)
  BY <1>1 DEF Billed, Moved, Own
<1> QED BY <1>1, <1>2, <1>4, <1>5, <1>6, <1>7

LEMMA StepLedger == AccountInv /\ [Next]_vars => [Accounts!Next]_(Accounts!vars)
<1> SUFFICES ASSUME AccountInv, [Next]_vars PROVE [Accounts!Next]_(Accounts!vars)
  OBVIOUS
<1>a. TypeOK /\ CounterTypes /\ BillingInv /\ CounterTypes'
  BY StepBilling DEF AccountInv, BillingInv
<1>s. ASSUME UNCHANGED <<owner, bytes, billed, tgMoved, tgBilled, deltas, tgDeltas, traffic>>
      PROVE  UNCHANGED Accounts!vars
  BY <1>s, SameBooks DEF Accounts!vars
<1>u. ASSUME UNCHANGED <<owner, billed, tgBilled, deltas, tgDeltas, traffic>>,
             \A u \in Users : tgMoved[u] <= tgMoved'[u],
             \A c \in Conns : bytes[c] <= bytes'[c]
      PROVE  Accounts!Use
  <2>1. \A u \in Users : Moved(u)' >= Moved(u) /\ Billed(u)' = Billed(u)
    BY <1>a, <1>u, MoveIsUse
  <2> QED BY <1>u, <2>1 DEF Accounts!Use
<1>c. ASSUME UNCHANGED traffic,
             \A u \in Users :
                /\ Moved(u)' = Moved(u) /\ Billed(u) <= Billed(u)' /\ Billed(u)' <= Moved(u)
                /\ deltas'[u] + tgDeltas'[u]
                     = deltas[u] + tgDeltas[u] + (Billed(u)' - Billed(u))
      PROVE  Accounts!Collect
  BY <1>c DEF Accounts!Collect
<1>1. CASE Poll
  BY <1>1, <1>c, PollIsCollect DEF Poll, rows, Accounts!Next
<1>2. CASE TgPoll
  BY <1>2, <1>c, TgPollIsCollect DEF TgPoll, rows, Accounts!Next
<1>3. ASSUME NEW c \in Conns, Move(c) PROVE Accounts!Use
  <2>1. /\ UNCHANGED <<owner, billed, tgBilled, deltas, tgDeltas, traffic, tgMoved>>
        /\ \A d \in Conns : bytes[d] <= bytes'[d]
        /\ \A u \in Users : tgMoved[u] <= tgMoved'[u]
    BY <1>3, <1>a DEF Move, CounterTypes, counters, rows, loop
  <2> QED BY <2>1, <1>u
<1>4. ASSUME NEW u \in Users, NEW dir \in {"in", "out"}, TgMove(u, dir) PROVE Accounts!Use
  <2>1. /\ UNCHANGED <<owner, billed, tgBilled, deltas, tgDeltas, traffic, bytes>>
        /\ \A d \in Conns : bytes[d] <= bytes'[d]
        /\ \A v \in Users : tgMoved[v] <= tgMoved'[v]
    BY <1>4, <1>a DEF TgMove, CounterTypes, counters, rows, loop
  <2> QED BY <2>1, <1>u
<1>5. CASE \/ PollFails \/ TgPollFails \/ Touch \/ EndRound \/ UNCHANGED vars
           \/ \E c \in Conns : Open(c)
           \/ \E C \in SUBSET Conns : Close(C)
           \/ \E L, Z \in SUBSET Users : TgRestart(L, Z)
  <2>1. UNCHANGED <<owner, bytes, billed, tgMoved, tgBilled, deltas, tgDeltas, traffic>>
    BY <1>5 DEF PollFails, TgPollFails, Touch, EndRound, Open, Close, TgRestart,
                vars, proxies, counters, rows, loop
  <2> QED BY <2>1, <1>s
<1>6. CASE UsersFails
  <2>1. /\ UNCHANGED <<owner, bytes, billed, tgMoved, tgBilled, traffic>>
        /\ \A u \in Users : deltas'[u] = 0 /\ tgDeltas'[u] = 0
    BY <1>6 DEF UsersFails, None, proxies, counters, rows
  <2> QED BY <2>1, SameBooks DEF Accounts!Next, Accounts!Drop, Accounts!Nothing
<1>7. ASSUME NEW u \in Users, Charge(u) \/ TgCharge(u) PROVE Accounts!Enter(u)
  <2> DEFINE n == IF deltas'[u] = deltas[u] THEN tgDeltas[u] ELSE deltas[u]
             due == [v \in Users |-> deltas[v] + tgDeltas[v]]
  <2>1. /\ UNCHANGED <<owner, bytes, billed, tgMoved, tgBilled>>
        /\ traffic' \in {traffic, [traffic EXCEPT ![u] = @ + n]}
        /\ n \in 1..due[u]
        /\ due' = [due EXCEPT ![u] = @ - n]
    <3>0. /\ deltas \in [Users -> Nat] /\ tgDeltas \in [Users -> Nat]
          /\ traffic \in [Users -> Nat]
      BY <1>a DEF TypeOK
    <3>a. ASSUME \A v \in Users : due'[v] = IF v = u THEN due[v] - n ELSE due[v]
          PROVE  due' = [due EXCEPT ![u] = @ - n]
      <4> HIDE DEF n
      <4> QED BY <3>a
    <3>1. CASE Charge(u)
      <4>1. /\ UNCHANGED <<owner, bytes, billed, tgMoved, tgBilled, tgDeltas>>
            /\ deltas[u] > 0 /\ deltas' = [deltas EXCEPT ![u] = 0]
            /\ AddTraffic(u, deltas[u])
        BY <3>1 DEF Charge, proxies, counters
      <4>2. n = deltas[u]
        BY <3>0, <4>1
      <4>3. /\ n \in 1..due[u]
            /\ \A v \in Users : due'[v] = IF v = u THEN due[v] - n ELSE due[v]
        BY <3>0, <4>1, <4>2
      <4> QED BY <4>1, <4>2, <4>3, <3>a DEF AddTraffic
    <3>2. CASE TgCharge(u)
      <4>1. /\ UNCHANGED <<owner, bytes, billed, tgMoved, tgBilled, deltas>>
            /\ tgDeltas[u] > 0 /\ tgDeltas' = [tgDeltas EXCEPT ![u] = 0]
            /\ AddTraffic(u, tgDeltas[u])
        BY <3>2 DEF TgCharge, proxies, counters
      <4>2. n = tgDeltas[u]
        BY <3>0, <4>1
      <4>3. /\ n \in 1..due[u]
            /\ \A v \in Users : due'[v] = IF v = u THEN due[v] - n ELSE due[v]
        BY <3>0, <4>1, <4>2
      <4> QED BY <4>1, <4>2, <4>3, <3>a DEF AddTraffic
    <3> QED BY <1>7, <3>1, <3>2
  <2> HIDE DEF n
  <2> QED BY <2>1, SameBooks DEF Accounts!Enter
<1>8. ASSUME NEW u \in Users, ResetTraffic(u) \/ DeleteUser(u) PROVE Accounts!Reset(u)
  <2>1. /\ UNCHANGED <<owner, bytes, billed, tgMoved, tgBilled, deltas, tgDeltas>>
        /\ traffic' = [traffic EXCEPT ![u] = 0]
    BY <1>8 DEF ResetTraffic, DeleteUser, proxies, counters, loop
  <2> QED BY <2>1, SameBooks DEF Accounts!Reset
<1> QED
  BY <1>1, <1>2, <1>3, <1>4, <1>5, <1>6, <1>7, <1>8
     DEF Next, Round, Proxies, Admin, Accounts!Next

(* The loop and its two counters implement the ledger, under every fault: no     *)
(* interleaving of polls, failures, restarts, resets and deletions lets a row    *)
(* grow by anything but bytes of that user that are due for the first time.      *)
THEOREM ImplementsLedger == Spec => KeepsLedger
<1>1. Init => Accounts!Init
  <2>1. ASSUME Init, NEW u \in Users PROVE Moved(u) = 0 /\ Billed(u) = 0
    <3>1. tgMoved[u] = 0 /\ tgBilled[u] = 0
      BY <2>1 DEF Init, None
    <3>2. SumFunctionOnSet(bytes, Own(u)) = 0 /\ SumFunctionOnSet(billed, Own(u)) = 0
      <4>1. \A c \in Own(u) : bytes[c] = 0 /\ billed[c] = 0
        BY <2>1, OwnFinite DEF Init
      <4> QED BY <4>1, OwnFinite, SumZero
    <3> QED BY <3>1, <3>2 DEF Moved, Billed, Own
  <2> QED BY <2>1 DEF Init, None, Accounts!Init, Accounts!Nothing
<1> QED
  BY <1>1, InitAccount, StepAccount, StepLedger, PTL DEF Spec, KeepsLedger, Accounts!Spec

-------------------------------------------------------------------------------
(* What the ledger gives: a row and what is due for it stay within what was       *)
(* billed, whatever is lost on the way.                                          *)
RowsBilled == \A u \in Users : traffic[u] + (deltas[u] + tgDeltas[u]) <= Billed(u)

LEMMA LedgerKeepsRows ==
    ASSUME AccountInv, AccountInv', RowsBilled, [Accounts!Next]_(Accounts!vars)
    PROVE  RowsBilled'
<1> DEFINE due == [u \in Users |-> deltas[u] + tgDeltas[u]]
           taken == [u \in Users |-> Billed(u)]
           Within == \A u \in Users : traffic[u] + due[u] <= taken[u]
<1>1. Within /\ (Within' <=> RowsBilled')
  BY DEF RowsBilled
<1>2. /\ traffic \in [Users -> Nat] /\ due \in [Users -> Nat] /\ taken \in [Users -> Nat]
      /\ taken' \in [Users -> Nat]
  <2>1. CounterTypes /\ CounterTypes'
    BY DEF AccountInv, BillingInv
  <2>2. BooksTyped /\ BooksTyped'
    BY <2>1, TypedBooks, PTL
  <2> QED BY <2>2 DEF BooksTyped, AccountInv, TypeOK
<1>3. /\ UNCHANGED <<taken, due, traffic>> => Within'
      /\ Accounts!Use => Within'
  BY <1>1 DEF Accounts!Use
<1>4. Accounts!Collect => Within'
  <2> SUFFICES ASSUME Accounts!Collect, NEW u \in Users
               PROVE  traffic'[u] + due'[u] <= taken'[u]
    OBVIOUS
  <2>1. traffic' = traffic /\ due'[u] = due[u] + (taken'[u] - taken[u])
    BY DEF Accounts!Collect
  <2> HIDE DEF due, taken
  <2> QED BY <1>1, <1>2, <2>1
<1>5. Accounts!Drop => Within'
  <2> SUFFICES ASSUME Accounts!Drop, NEW u \in Users
               PROVE  traffic'[u] + due'[u] <= taken'[u]
    OBVIOUS
  <2>1. traffic' = traffic /\ due'[u] = 0 /\ taken' = taken
    BY DEF Accounts!Drop, Accounts!Nothing
  <2> HIDE DEF due, taken
  <2> QED BY <1>1, <1>2, <2>1
<1>6. ASSUME NEW v \in Users, Accounts!Enter(v) \/ Accounts!Reset(v) PROVE Within'
  <2>1. ASSUME NEW n \in 1..due[v], due' = [due EXCEPT ![v] = @ - n],
               traffic' \in {traffic, [traffic EXCEPT ![v] = @ + n]}, taken' = taken
        PROVE  Within'
    <3> HIDE DEF due, taken
    <3> QED BY <1>1, <1>2, <2>1
  <2>2. ASSUME traffic' = [traffic EXCEPT ![v] = 0], due' = due, taken' = taken
        PROVE  Within'
    <3> HIDE DEF due, taken
    <3> QED BY <1>1, <1>2, <2>2
  <2> QED BY <1>6, <2>1, <2>2 DEF Accounts!Enter, Accounts!Reset
<1> QED BY <1>1, <1>3, <1>4, <1>5, <1>6 DEF Accounts!Next, Accounts!vars

LEMMA InitRows == Init => RowsBilled
<1> SUFFICES ASSUME Init, NEW u \in Users
             PROVE  traffic[u] + (deltas[u] + tgDeltas[u]) <= Billed(u)
  BY DEF RowsBilled
<1>1. CounterTypes /\ traffic[u] = 0 /\ deltas[u] = 0 /\ tgDeltas[u] = 0
  BY InitBilling DEF Init, None, BillingInv
<1> QED BY <1>1, SumsTyped

(* No user's row ever shows more than that user's own connections and secret     *)
(* have moved, whatever fails, restarts, is reset or deleted in between.         *)
THEOREM RowsAlwaysBacked == Spec => []RowsBacked
<1>1. AccountInv /\ RowsBilled => RowsBacked
  <2> SUFFICES ASSUME AccountInv, RowsBilled, NEW u \in Users
               PROVE  traffic[u] + deltas[u] + tgDeltas[u] <= Moved(u)
    BY DEF RowsBacked
  <2>1. Billed(u) <= Moved(u) /\ Billed(u) \in Nat /\ Moved(u) \in Nat
    BY BilledWasMoved, SumsTyped DEF AccountInv, BillingInv, BilledBacked
  <2>2. traffic[u] \in Nat /\ deltas[u] \in Nat /\ tgDeltas[u] \in Nat
    BY DEF AccountInv, TypeOK
  <2>3. traffic[u] + (deltas[u] + tgDeltas[u]) <= Billed(u)
    BY DEF RowsBilled
  <2> QED BY <2>1, <2>2, <2>3
<1>2. AccountInv /\ RowsBilled /\ [Next]_vars => AccountInv' /\ RowsBilled'
  BY StepAccount, StepLedger, LedgerKeepsRows
<1> QED BY <1>1, <1>2, InitAccount, InitRows, PTL DEF Spec

-------------------------------------------------------------------------------
(* While the database answers and no row is reset or deleted, what is billed is  *)
(* in the row or on its way to it.  The polls may fail: a counter that was not   *)
(* read has billed nothing.                                                      *)
AnsweredNext ==
    \/ Proxies
    \/ Poll \/ PollFails \/ TgPoll \/ TgPollFails \/ Touch \/ EndRound
    \/ \E u \in Users : (Charge(u) \/ TgCharge(u)) /\ traffic' # traffic

LEMMA StepDropsNothing ==
    ASSUME AccountInv, NothingDropped, [AnsweredNext]_vars
    PROVE  NothingDropped'
<1>a. /\ deltas \in [Users -> Nat] /\ tgDeltas \in [Users -> Nat]
      /\ traffic \in [Users -> Nat] /\ CounterTypes
  BY DEF AccountInv, TypeOK, BillingInv
<1>1. CASE Poll \/ TgPoll
  <2> SUFFICES ASSUME NEW u \in Users
               PROVE  traffic'[u] + deltas'[u] + tgDeltas'[u] = Billed(u)'
    BY DEF NothingDropped
  <2>1. /\ traffic' = traffic /\ Billed(u) <= Billed(u)' /\ Billed(u)' <= Moved(u)
        /\ deltas'[u] + tgDeltas'[u] = deltas[u] + tgDeltas[u] + (Billed(u)' - Billed(u))
    BY <1>1, PollIsCollect, TgPollIsCollect DEF Poll, TgPoll, rows
  <2>2. /\ Billed(u) \in Nat /\ Billed(u)' \in Nat
        /\ deltas'[u] \in Nat /\ tgDeltas'[u] \in Nat
    <3>1. AccountInv' /\ CounterTypes'
      BY <1>1, StepAccount DEF Next, Round, AccountInv, BillingInv
    <3>2. BooksTyped /\ BooksTyped'
      BY <1>a, <3>1, TypedBooks, PTL
    <3> QED BY <3>1, <3>2 DEF AccountInv, TypeOK, BooksTyped
  <2>3. traffic[u] + deltas[u] + tgDeltas[u] = Billed(u)
    BY DEF NothingDropped
  <2> QED BY <1>a, <2>1, <2>2, <2>3
<1>2. ASSUME NEW u \in Users, Charge(u) \/ TgCharge(u), traffic' # traffic
      PROVE  NothingDropped'
  <2>1. UNCHANGED <<owner, bytes, billed, tgMoved, tgBilled>>
    BY <1>2 DEF Charge, TgCharge, proxies, counters
  <2>2. /\ traffic' = [traffic EXCEPT ![u] = @ + deltas[u] + tgDeltas[u] - deltas'[u] - tgDeltas'[u]]
        /\ deltas' \in [Users -> Nat] /\ tgDeltas' \in [Users -> Nat]
        /\ \A v \in Users : v # u => deltas'[v] = deltas[v] /\ tgDeltas'[v] = tgDeltas[v]
    BY <1>2, <1>a DEF Charge, TgCharge, AddTraffic
  <2>3. ASSUME NEW v \in Users
        PROVE  traffic'[v] + deltas'[v] + tgDeltas'[v] = Billed(v)'
    <3>1. Billed(v)' = Billed(v) /\ Billed(v) \in Nat
      BY <1>a, <2>1, SameBooks, SumsTyped
    <3>2. traffic[v] + deltas[v] + tgDeltas[v] = Billed(v)
      BY DEF NothingDropped
    <3> QED BY <1>a, <2>2, <3>1, <3>2
  <2> QED BY <2>3 DEF NothingDropped
<1>3. CASE PollFails \/ TgPollFails \/ Touch \/ EndRound \/ Proxies \/ UNCHANGED vars
  <2>1. UNCHANGED <<owner, billed, tgBilled, deltas, tgDeltas, traffic>>
    BY <1>3 DEF PollFails, TgPollFails, Touch, EndRound, Proxies, Open, Move, Close, TgMove,
                TgRestart, vars, counters, rows, loop
  <2>2. \A u \in Users : Billed(u)' = Billed(u)
    BY <2>1 DEF Billed
  <2> QED BY <2>1, <2>2 DEF NothingDropped
<1> QED BY <1>1, <1>2, <1>3 DEF AnsweredNext

LEMMA InitDropsNothing == Init => NothingDropped
<1> SUFFICES ASSUME Init, NEW u \in Users
             PROVE  traffic[u] + deltas[u] + tgDeltas[u] = Billed(u)
  BY DEF NothingDropped
<1>1. \A c \in Own(u) : billed[c] = 0
  BY OwnFinite DEF Init
<1>2. SumFunctionOnSet(billed, Own(u)) = 0
  BY <1>1, OwnFinite, SumZero
<1>3. traffic[u] = 0 /\ deltas[u] = 0 /\ tgDeltas[u] = 0 /\ tgBilled[u] = 0
  BY DEF Init, None
<1> QED BY <1>2, <1>3 DEF Billed, Own

(* With a database that answers and nobody who resets or deletes a row, for any  *)
(* number of users and polls that may fail, all that was billed reaches a row.    *)
THEOREM NothingIsDropped == Init /\ [][AnsweredNext]_vars => []NothingDropped
<1>1. AnsweredNext => Next
  BY DEF AnsweredNext, Next, Round
<1>2. AccountInv /\ NothingDropped /\ [AnsweredNext]_vars => AccountInv' /\ NothingDropped'
  BY <1>1, StepAccount, StepDropsNothing
<1> QED BY <1>2, InitAccount, InitDropsNothing, PTL

(* The same of the behaviours MCTraffic calls calm, beside those that are not.    *)
THEOREM CalmNeverDrops == MCSpec => []CalmDropsNothing
<1> DEFINE Inv == AccountInv /\ CalmDropsNothing
<1>1. MCInit => Inv
  BY InitAccount, InitDropsNothing DEF MCInit, CalmDropsNothing
<1>2. Inv /\ [CalmRound \/ CalmProxies \/ RoughNext]_mcvars => Inv'
  <2> SUFFICES ASSUME Inv, [CalmRound \/ CalmProxies \/ RoughNext]_mcvars PROVE Inv'
    OBVIOUS
  <2>1. [Next]_vars /\ calm' = calm /\ (calm => [AnsweredNext]_vars)
    BY DEF CalmRound, CalmProxies, RoughNext, AnsweredNext, Next, Round, mcvars
  <2> QED BY <2>1, StepAccount, StepDropsNothing DEF CalmDropsNothing
<1> QED BY <1>1, <1>2, PTL DEF MCSpec
===============================================================================
