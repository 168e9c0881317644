-------------------------- MODULE ContractLedgerProofs --------------------------
(***************************************************************************)
(* Proofs about ContractLedger, for any number of instalments and requests   *)
(* and any amounts.  First what a total over the accounts is.  Then, of      *)
(* contracts that only the form writes (FormAssumption): that the books      *)
(* agree, completion follows payment, what is open is worked on, and         *)
(* approval is final; that no amount goes below zero, the charges are the    *)
(* price, and a cancelled sale owes nothing.  Of every client: that a        *)
(* contract is approved once.                                                *)
(***************************************************************************)
EXTENDS ContractForm, FiniteSetTheorems, TLAPS

-----------------------------------------------------------------------------
(* Sums.  A total is the value at the whole domain of a function that is    *)
(* defined on all its subsets, each by the one without a chosen element.    *)
(* What holds of every subset is proved by the smallest counterexample: no  *)
(* set of subsets without one is empty.                                     *)

\* The order in which a fold goes through a set, and its partial results g over
\* the family D of subsets.
Pick(s) == CHOOSE x \in s : TRUE
Sums(f, D, g) ==
    g = [s \in D |-> IF s = {} THEN 0 ELSE f[Pick(s)] + g[s \ {Pick(s)}]]
PartialSum(f) == CHOOSE g : Sums(f, SUBSET DOMAIN f, g)

LEMMA TotalIsPartialSum ==
    ASSUME NEW f
    PROVE  Total(f) = PartialSum(f)[DOMAIN f]
BY DEF Total, FoldFunction, FoldFunctionOnSet, MapThenFoldSet, PartialSum, Sums, Pick

\* Induction over the subsets of a finite set, as the existence of a smallest one.
LEMMA SmallestSubset ==
    ASSUME NEW S, IsFiniteSet(S), NEW T, T \subseteq SUBSET S, T # {}
    PROVE  \E x \in T : \A y \in T : y \subseteq x => y = x
<1>1. FiniteSubsetsOf(S) = SUBSET S
  BY FS_FiniteSubsetsOfFinite
<1>2. IsWellFoundedOn(StrictSubsetOrdering(S), SUBSET S)
  BY <1>1, FS_StrictSubsetOrderingWellFounded
<1>3. PICK x \in T : \A y \in T : ~ (<<y, x>> \in StrictSubsetOrdering(S))
  BY <1>2, WFMin
<1> QED BY <1>3 DEF StrictSubsetOrdering

UpTo(S, T) == {s \in SUBSET S : Cardinality(s) <= Cardinality(T)}

LEMMA PickedLeaves ==
    ASSUME NEW S, IsFiniteSet(S), NEW s \in SUBSET S, s # {}
    PROVE  /\ Pick(s) \in s
           /\ s \ {Pick(s)} \in SUBSET S
           /\ Cardinality(s) \in Nat /\ Cardinality(s \ {Pick(s)}) = Cardinality(s) - 1
<1>1. Pick(s) \in s
  BY DEF Pick
<1>2. IsFiniteSet(s)
  BY FS_Subset
<1> QED BY <1>1, <1>2, FS_CardinalityType, FS_RemoveElement

\* Induction over the subsets of a finite set: T holds what is true of them.
LEMMA SubsetInduction ==
    ASSUME NEW S, IsFiniteSet(S), NEW T \in SUBSET SUBSET S,
           \A s \in SUBSET S : (\A u \in SUBSET s : u # s => u \in T) => s \in T
    PROVE  T = SUBSET S
<1> DEFINE U == (SUBSET S) \ T
<1> SUFFICES ASSUME U # {} PROVE FALSE
  OBVIOUS
<1>1. PICK s \in U : \A u \in U : u \subseteq s => u = s
  <2>1. U \subseteq SUBSET S
    OBVIOUS
  <2> HIDE DEF U
  <2> QED BY <2>1, SmallestSubset
<1>2. ASSUME NEW u \in SUBSET s, u # s PROVE u \in T
  BY <1>1, <1>2
<1> QED BY <1>2

\* The same, leaving out one element at a time.
LEMMA PickInduction ==
    ASSUME NEW S, IsFiniteSet(S), NEW T \in SUBSET SUBSET S, {} \in T,
           \A s \in SUBSET S : s # {} /\ s \ {Pick(s)} \in T => s \in T
    PROVE  T = SUBSET S
<1>1. ASSUME NEW s \in SUBSET S, \A u \in SUBSET s : u # s => u \in T PROVE s \in T
  <2>1. CASE s = {}
    BY <2>1
  <2>2. CASE s # {}
    <3>1. Pick(s) \in s
      BY <2>2, PickedLeaves
    <3>2. s \ {Pick(s)} \in SUBSET s /\ s \ {Pick(s)} # s
      BY <3>1
    <3> QED BY <1>1, <2>2, <3>2
  <2> QED BY <2>1, <2>2
<1> QED BY <1>1, SubsetInduction

LEMMA SumsExtend ==
    ASSUME NEW S, IsFiniteSet(S), NEW f, NEW T \in SUBSET S, NEW g,
           T # {} => Sums(f, UpTo(S, T \ {Pick(T)}), g)
    PROVE  \E h : Sums(f, UpTo(S, T), h)
<1> DEFINE next(s) == IF s = {} THEN 0 ELSE f[Pick(s)] + g[s \ {Pick(s)}]
           h == [s \in UpTo(S, T) |-> next(s)]
<1>1. ASSUME NEW s \in UpTo(S, T), s # {} PROVE h[s \ {Pick(s)}] = g[s \ {Pick(s)}]
  <2> DEFINE u == s \ {Pick(s)}
  <2>0. s \in SUBSET S /\ Cardinality(s) <= Cardinality(T)
    BY DEF UpTo
  <2>1. u \in SUBSET S /\ Cardinality(s) \in Nat /\ Cardinality(u) = Cardinality(s) - 1
        /\ Cardinality(u) \in Nat
    BY <1>1, <2>0, PickedLeaves, FS_CardinalityType, FS_Subset
  <2>2. T # {} /\ Cardinality(T) \in Nat
    BY <1>1, <2>0, <2>1, FS_CardinalityType, FS_Subset, FS_EmptySet
  <2>3. Cardinality(T \ {Pick(T)}) = Cardinality(T) - 1
    BY <2>2, PickedLeaves
  <2>4. u \in UpTo(S, T \ {Pick(T)}) /\ u \in UpTo(S, T)
    BY <2>0, <2>1, <2>2, <2>3 DEF UpTo
  <2>5. g[u] = next(u)
    BY <2>2, <2>4 DEF Sums
  <2>6. h[u] = next(u)
    BY <2>4
  <2> QED BY <2>5, <2>6
<1>2. h = [s \in UpTo(S, T) |-> IF s = {} THEN 0 ELSE f[Pick(s)] + h[s \ {Pick(s)}]]
  <2> DEFINE k == [s \in UpTo(S, T) |-> IF s = {} THEN 0 ELSE f[Pick(s)] + h[s \ {Pick(s)}]]
  <2>1. ASSUME NEW s \in UpTo(S, T) PROVE h[s] = k[s]
    <3>1. h[s] = next(s)
      OBVIOUS
    <3>2. k[s] = IF s = {} THEN 0 ELSE f[Pick(s)] + h[s \ {Pick(s)}]
      OBVIOUS
    <3> QED BY <1>1, <3>1, <3>2
  <2>2. /\ DOMAIN h = UpTo(S, T) /\ DOMAIN k = UpTo(S, T)
        /\ h = [s \in UpTo(S, T) |-> h[s]] /\ k = [s \in UpTo(S, T) |-> k[s]]
    OBVIOUS
  <2> HIDE DEF h, k
  <2>3. h = k
    BY <2>1, <2>2
  <2> QED BY <2>3 DEF k
<1>3. Sums(f, UpTo(S, T), h)
  BY <1>2 DEF Sums
<1> QED BY <1>3

LEMMA SumsExist ==
    ASSUME NEW S, IsFiniteSet(S), NEW f
    PROVE  \E g : Sums(f, SUBSET S, g)
<1> DEFINE T == {s \in SUBSET S : \E g : Sums(f, UpTo(S, s), g)}
<1>1. {} \in T
  BY SumsExtend
<1>2. ASSUME NEW s \in SUBSET S, s # {}, s \ {Pick(s)} \in T PROVE s \in T
  BY <1>2, SumsExtend
<1>3. S \in T
  <2> HIDE DEF T
  <2>1. T \in SUBSET SUBSET S
    BY DEF T
  <2>2. T = SUBSET S
    BY <1>1, <1>2, <2>1, PickInduction
  <2> QED BY <2>2
<1>4. UpTo(S, S) = SUBSET S
  BY FS_Subset DEF UpTo
<1> QED BY <1>3, <1>4

LEMMA PartialSums ==
    ASSUME NEW f, IsFiniteSet(DOMAIN f)
    PROVE  /\ PartialSum(f)[{}] = 0
           /\ \A s \in SUBSET DOMAIN f :
                s # {} => /\ Pick(s) \in s /\ s \ {Pick(s)} \in SUBSET DOMAIN f
                          /\ s \ {Pick(s)} # s
                          /\ PartialSum(f)[s] = f[Pick(s)] + PartialSum(f)[s \ {Pick(s)}]
<1> DEFINE g == PartialSum(f)
<1>1. Sums(f, SUBSET DOMAIN f, g)
  BY SumsExist DEF PartialSum
<1> HIDE DEF g
<1>2. \A s \in SUBSET DOMAIN f :
        g[s] = IF s = {} THEN 0 ELSE f[Pick(s)] + g[s \ {Pick(s)}]
  BY <1>1 DEF Sums
<1>3. \A s \in SUBSET DOMAIN f : s # {} => Pick(s) \in s
  BY DEF Pick
<1> QED BY <1>2, <1>3 DEF g

LEMMA PartialSumNat ==
    ASSUME NEW S, IsFiniteSet(S), NEW f \in [S -> Nat], NEW s \in SUBSET S
    PROVE  PartialSum(f)[s] \in Nat
<1> DEFINE g == PartialSum(f)
           T == {u \in SUBSET S : g[u] \in Nat}
<1>1. {} \in T
  BY PartialSums
<1>2. ASSUME NEW u \in SUBSET S, u # {}, u \ {Pick(u)} \in T PROVE u \in T
  <2>1. g[u] = f[Pick(u)] + g[u \ {Pick(u)}] /\ Pick(u) \in S
    BY <1>2, PartialSums
  <2> QED BY <1>2, <2>1
<1>3. T = SUBSET S
  <2> HIDE DEF T
  <2>1. T \in SUBSET SUBSET S
    BY DEF T
  <2> QED BY <1>1, <1>2, <2>1, PickInduction
<1> QED BY <1>3

\* Any element of a set may be counted first.
LEMMA AnyOrder ==
    ASSUME NEW S, IsFiniteSet(S), NEW f \in [S -> Nat], NEW s \in SUBSET S, NEW x \in s
    PROVE  PartialSum(f)[s] = f[x] + PartialSum(f)[s \ {x}]
<1> DEFINE g == PartialSum(f)
           T == {u \in SUBSET S : \A y \in u : g[u] = f[y] + g[u \ {y}]}
<1>1. ASSUME NEW u \in SUBSET S, \A v \in SUBSET u : v # u => v \in T PROVE u \in T
  <2> SUFFICES ASSUME NEW y \in u PROVE g[u] = f[y] + g[u \ {y}]
    OBVIOUS
  <2> DEFINE p == Pick(u)
  <2>1. p \in u /\ g[u] = f[p] + g[u \ {p}]
    BY PartialSums
  <2>2. CASE p = y
    BY <2>1, <2>2
  <2>3. CASE p # y
    <3> DEFINE v == (u \ {p}) \ {y}
    <3>1. /\ u \ {p} \in SUBSET u /\ u \ {p} # u /\ y \in u \ {p}
          /\ u \ {y} \in SUBSET u /\ u \ {y} # u /\ p \in u \ {y}
          /\ v = (u \ {y}) \ {p} /\ v \in SUBSET S /\ p \in S /\ y \in S
      BY <2>1, <2>3
    <3>2. u \ {p} \in T /\ u \ {y} \in T
      BY <1>1, <3>1
    <3>3. g[u \ {p}] = f[y] + g[v] /\ g[u \ {y}] = f[p] + g[v]
      BY <3>1, <3>2
    <3>4. g[v] \in Nat /\ f[y] \in Nat /\ f[p] \in Nat
      BY <3>1, PartialSumNat
    <3> HIDE DEF g, v, p
    <3> QED BY <2>1, <3>3, <3>4
  <2> QED BY <2>2, <2>3
<1>2. T = SUBSET S
  <2> HIDE DEF T
  <2>1. T \in SUBSET SUBSET S
    BY DEF T
  <2> QED BY <1>1, <2>1, SubsetInduction
<1> QED BY <1>2

\* Two functions have the same sums over what they agree on.
LEMMA SumsAgree ==
    ASSUME NEW S, IsFiniteSet(S), NEW f \in [S -> Nat],
           NEW R, IsFiniteSet(R), NEW h \in [R -> Nat],
           NEW Q, Q \subseteq S, Q \subseteq R, \A x \in Q : f[x] = h[x]
    PROVE  PartialSum(f)[Q] = PartialSum(h)[Q]
<1> DEFINE g == PartialSum(f)
           k == PartialSum(h)
           T == {s \in SUBSET Q : g[s] = k[s]}
<1>1. {} \in T
  BY PartialSums
<1>2. ASSUME NEW s \in SUBSET Q, s # {}, s \ {Pick(s)} \in T PROVE s \in T
  <2>1. s \in SUBSET S /\ s \in SUBSET R /\ DOMAIN f = S /\ DOMAIN h = R
    OBVIOUS
  <2>2. g[s] = f[Pick(s)] + g[s \ {Pick(s)}] /\ Pick(s) \in s
    BY <1>2, <2>1, PartialSums
  <2>3. k[s] = h[Pick(s)] + k[s \ {Pick(s)}]
    BY <1>2, <2>1, PartialSums
  <2> QED BY <1>2, <2>2, <2>3
<1>3. T = SUBSET Q
  <2> HIDE DEF T
  <2>1. T \in SUBSET SUBSET Q /\ IsFiniteSet(Q)
    BY FS_Subset DEF T
  <2> QED BY <1>1, <1>2, <2>1, PickInduction
<1> QED BY <1>3

LEMMA TotalNat ==
    ASSUME NEW S, IsFiniteSet(S), NEW f \in [S -> Nat]
    PROVE  Total(f) \in Nat
BY TotalIsPartialSum, PartialSumNat

LEMMA TotalZero ==
    ASSUME NEW S, IsFiniteSet(S), NEW f \in [S -> Nat], Total(f) = 0, NEW x \in S
    PROVE  f[x] = 0
<1>1. PartialSum(f)[S] = f[x] + PartialSum(f)[S \ {x}]
  BY AnyOrder
<1>2. PartialSum(f)[S \ {x}] \in Nat
  BY PartialSumNat
<1> QED BY <1>1, <1>2, TotalIsPartialSum

\* One entry more.
LEMMA TotalWith ==
    ASSUME NEW S, IsFiniteSet(S), NEW x, x \notin S, NEW f \in [S \cup {x} -> Nat],
           NEW h \in [S -> Nat], \A y \in S : h[y] = f[y]
    PROVE  Total(f) = f[x] + Total(h)
<1>1. IsFiniteSet(S \cup {x})
  BY FS_AddElement
<1>2. PartialSum(f)[S \cup {x}] = f[x] + PartialSum(f)[(S \cup {x}) \ {x}]
  BY <1>1, AnyOrder
<1>3. (S \cup {x}) \ {x} = S /\ S \subseteq S \cup {x}
  OBVIOUS
<1>4. PartialSum(f)[S] = PartialSum(h)[S]
  BY <1>1, <1>3, SumsAgree
<1> QED BY <1>2, <1>3, <1>4, TotalIsPartialSum

-----------------------------------------------------------------------------
(* The inductive invariant.                                                *)

\* A sum is no known number here: requests and movements have only their shape.
Figures == {"charge", "credit", "discount"}
Typing ==
    /\ contract \in Contract
    /\ device \in BOOLEAN
    /\ inst \in [Lines -> Instalment]
    /\ paid \in [Accounts -> Nat]
    /\ tasks \in [Lines -> Seq(Attempt)]
    /\ DOMAIN ledger = Accounts /\ \A k \in Accounts : DOMAIN ledger[k] = Figures
    /\ DOMAIN call = Calls

\* The device is installed with the approval, and only then.
DeviceIsSold == device <=> contract.status \in {"active", "completed", "cancelled"}

\* No payment counts before the approval, and each does from then on.
RowsFollowPayments ==
    \A l \in Lines :
      inst[l].left = IF contract.status \in {"draft", "discarded"}
                     THEN inst[l].amount ELSE Excess(inst[l].amount, paid[l])

\* What was paid on an instalment keeps its row and the task it was collected with.
PaidIsKept ==
    \A l \in Lines :
      paid[l] > 0 => /\ HasRow(l)
                     /\ \E a \in DOMAIN tasks[l] : tasks[l][a] # "active"

\* The balance a collection has read is never less than what is still open.
ReadsAreHigh ==
    \A c \in Calls :
      call[c].op = "collect" =>
        /\ call[c].line \in Lines /\ call[c].before \in Nat
        /\ HasRow(call[c].line)
        /\ inst[call[c].line].left <= call[c].before

DiscountsEndIt ==
    contract.status # "cancelled" => \A k \in Accounts : ledger[k].discount = 0

IInv == /\ Typing /\ DeviceIsSold /\ RowsFollowPayments /\ PaidIsKept /\ ReadsAreHigh
        /\ DiscountsEndIt /\ LedgerFollowsBooks /\ CompletionFollowsPayment
        /\ OpenReceivableIsWorked

-----------------------------------------------------------------------------
(* What the helpers compute.                                               *)

LEMMA AccountFacts == Lines \subseteq Accounts /\ Signing \in Accounts /\ Signing \notin Lines
BY LedgerAssumption DEF Accounts

LEMMA RowFacts ==
    ASSUME NEW r \in Instalment
    PROVE  r.amount \in Nat /\ r.left \in Nat /\ r.confirmed \in BOOLEAN
<1>1. Amounts \cup {0} \subseteq Nat
  BY LedgerAssumption
<1>2. r.amount \in Amounts \cup {0} /\ r.left \in Nat /\ r.confirmed \in BOOLEAN
  BY DEF Instalment
<1> QED BY <1>1, <1>2

LEMMA ExcessFacts ==
    ASSUME NEW a \in Nat, NEW b \in Nat
    PROVE  Excess(a, b) \in Nat /\ Excess(a, b) <= a
BY DEF Excess

LEMMA BalancedRows ==
    ASSUME NEW i \in [Lines -> Instalment], NEW p \in [Accounts -> Nat], NEW L
    PROVE  /\ Balanced(i, p, L) \in [Lines -> Instalment]
           /\ \A l \in Lines :
                /\ Balanced(i, p, L)[l].amount = i[l].amount
                /\ Balanced(i, p, L)[l].confirmed = i[l].confirmed
                /\ Balanced(i, p, L)[l].left =
                     IF l \in L THEN Excess(i[l].amount, p[l]) ELSE i[l].left
           /\ Scheduled(Balanced(i, p, L)) = Scheduled(i)
<1> DEFINE b == Balanced(i, p, L)
<1>1. ASSUME NEW l \in Lines
      PROVE  /\ b[l] \in Instalment /\ b[l].amount = i[l].amount
             /\ b[l].confirmed = i[l].confirmed
             /\ b[l].left = IF l \in L THEN Excess(i[l].amount, p[l]) ELSE i[l].left
  <2>1. i[l] \in Instalment /\ p[l] \in Nat /\ i[l].amount \in Nat
    BY AccountFacts, RowFacts
  <2>2. b[l] = IF l \in L THEN [i[l] EXCEPT !.left = Excess(i[l].amount, p[l])] ELSE i[l]
    BY DEF Balanced
  <2>3. Excess(i[l].amount, p[l]) \in Nat
    BY <2>1, ExcessFacts
  <2> QED BY <2>1, <2>2, <2>3 DEF Instalment
<1>2. b = [l \in Lines |-> b[l]]
  BY DEF Balanced
<1>3. [l \in Lines |-> b[l].amount] = [l \in Lines |-> i[l].amount]
  BY <1>1
<1> QED BY <1>1, <1>2, <1>3 DEF Scheduled

LEMMA CompletedContract ==
    ASSUME NEW c \in Contract, NEW i, NEW p
    PROVE  LET d == Completed(c, i, p) IN
           /\ d \in Contract /\ d.kind = c.kind /\ d.cash = c.cash /\ d.price = c.price
           /\ \/ /\ d.status = c.status
                 /\ ~(c.status = "active" /\ c.kind # "temporary" /\ PaidUp(c, i, p))
              \/ /\ d.status = "completed" /\ c.status = "active"
                 /\ c.kind # "temporary" /\ PaidUp(c, i, p)
<1>1. [c EXCEPT !.status = "completed"] \in Contract
  BY DEF Contract
<1> QED BY <1>1 DEF Completed, Contract

LEMMA TasksAppended ==
    ASSUME NEW t \in [Lines -> Seq(Attempt)], NEW i, NEW L, NEW l \in Lines
    PROVE  /\ WithTasks(t, i, L)[l] \in Seq(Attempt)
           /\ \A a \in DOMAIN t[l] : /\ a \in DOMAIN WithTasks(t, i, L)[l]
                                     /\ WithTasks(t, i, L)[l][a] = t[l][a]
           /\ l \in L /\ i[l].left > 0 =>
                \E a \in DOMAIN WithTasks(t, i, L)[l] : WithTasks(t, i, L)[l][a] = "active"
<1> DEFINE w == WithTasks(t, i, L)
<1>1. t[l] \in Seq(Attempt) /\ "active" \in Attempt
  BY DEF Attempt
<1>2. w[l] = IF l \in L /\ i[l].left > 0 /\ ~Active(t, l) THEN Append(t[l], "active") ELSE t[l]
  BY DEF WithTasks
<1>3. /\ Append(t[l], "active") \in Seq(Attempt)
      /\ \A a \in DOMAIN t[l] : /\ a \in DOMAIN Append(t[l], "active")
                                /\ Append(t[l], "active")[a] = t[l][a]
      /\ Len(t[l]) + 1 \in DOMAIN Append(t[l], "active")
      /\ Append(t[l], "active")[Len(t[l]) + 1] = "active"
  BY <1>1
<1>4. CASE l \in L /\ i[l].left > 0 /\ ~Active(t, l)
  BY <1>2, <1>3, <1>4
<1>5. CASE ~(l \in L /\ i[l].left > 0 /\ ~Active(t, l))
  BY <1>1, <1>2, <1>5 DEF Active
<1> QED BY <1>4, <1>5

LEMMA FollowUp ==
    ASSUME NEW t \in [Lines -> Seq(Attempt)], NEW i, NEW l \in Lines, i[l].left > 0
    PROVE  \E a \in DOMAIN WithTasks(t, i, {l})[l] : WithTasks(t, i, {l})[l][a] = "active"
<1>1. t[l] \in Seq(Attempt)
  OBVIOUS
<1>2. WithTasks(t, i, {l})[l] = IF Active(t, l) THEN t[l] ELSE Append(t[l], "active")
  BY DEF WithTasks
<1>3. /\ Len(t[l]) + 1 \in DOMAIN Append(t[l], "active")
      /\ Append(t[l], "active")[Len(t[l]) + 1] = "active"
  BY <1>1
<1>4. CASE Active(t, l)
  BY <1>2, <1>4 DEF Active
<1>5. CASE ~Active(t, l)
  BY <1>2, <1>3, <1>5
<1> QED BY <1>4, <1>5

LEMMA TasksTyped ==
    ASSUME NEW t \in [Lines -> Seq(Attempt)], NEW i, NEW L
    PROVE  WithTasks(t, i, L) \in [Lines -> Seq(Attempt)]
<1>1. WithTasks(t, i, L) = [l \in Lines |-> WithTasks(t, i, L)[l]]
  BY DEF WithTasks
<1> QED BY <1>1, TasksAppended

\* The synchronisation of a ledger without movements writes what the books say.
LEMMA SyncedLedger ==
    ASSUME NEW c, NEW i, NEW p, NEW g, KeepsMovements(c), NEW k \in Accounts,
           DOMAIN g[k] = Figures, g[k].charge = 0
    PROVE  /\ DOMAIN Synced(c, i, p, g) = Accounts
           /\ DOMAIN Synced(c, i, p, g)[k] = Figures
           /\ Synced(c, i, p, g)[k].charge = Due(c, i, k)
           /\ Synced(c, i, p, g)[k].credit = p[k]
           /\ Synced(c, i, p, g)[k].discount = g[k].discount
BY DEF Synced, Figures
LEMMA CreditedLedger ==
    ASSUME NEW g, NEW l \in Accounts, NEW amount, DOMAIN g = Accounts,
           \A k \in Accounts : DOMAIN g[k] = Figures
    PROVE  LET h == Credited(g, l, amount) IN
           /\ DOMAIN h = Accounts
           /\ \A k \in Accounts : /\ DOMAIN h[k] = Figures
                                  /\ h[k].charge = g[k].charge
                                  /\ h[k].discount = g[k].discount
                                  /\ k # l => h[k].credit = g[k].credit
           /\ h[l].credit = g[l].credit + amount
<1> DEFINE row == [g[l] EXCEPT !.credit = @ + amount]
<1>1. Credited(g, l, amount) = [g EXCEPT ![l] = row]
  BY DEF Credited
<1>2. /\ DOMAIN row = Figures /\ row.charge = g[l].charge /\ row.discount = g[l].discount
      /\ row.credit = g[l].credit + amount
  BY DEF Figures
<1> HIDE DEF row
<1> QED BY <1>1, <1>2

-----------------------------------------------------------------------------
(* What the invariant says of any state, in the form the steps use.        *)

LEMMA InvFacts ==
    ASSUME IInv
    PROVE  /\ contract \in Contract /\ device \in BOOLEAN /\ DOMAIN call = Calls
           /\ inst \in [Lines -> Instalment] /\ paid \in [Accounts -> Nat]
           /\ tasks \in [Lines -> Seq(Attempt)]
           /\ \A l \in Lines : /\ inst[l] \in Instalment /\ inst[l].amount \in Nat
                                /\ inst[l].left \in Nat /\ inst[l].left <= inst[l].amount
                                /\ paid[l] \in Nat
<1>1. Typing /\ RowsFollowPayments
  BY DEF IInv
<1>2. ASSUME NEW l \in Lines
      PROVE  /\ inst[l] \in Instalment /\ inst[l].amount \in Nat /\ paid[l] \in Nat
             /\ inst[l].left \in Nat
  BY <1>1, AccountFacts, RowFacts DEF Typing
<1>3. ASSUME NEW l \in Lines PROVE inst[l].left <= inst[l].amount
  <2>1. Excess(inst[l].amount, paid[l]) <= inst[l].amount /\ inst[l].amount <= inst[l].amount
    BY <1>2, ExcessFacts
  <2> QED BY <1>1, <2>1 DEF RowsFollowPayments
<1> QED BY <1>1, <1>2, <1>3 DEF Typing

\* A step that leaves the contract's books alone, and reads nothing wrong.
LEMMA RestStep ==
    ASSUME IInv, UNCHANGED <<contract, device, inst, paid, ledger, tasks>>,
           DOMAIN call' = Calls,
           \A c \in Calls : call'[c].op = "collect" =>
             \/ call'[c] = call[c]
             \/ /\ call'[c].line \in Lines /\ call'[c].before = inst[call'[c].line].left
                /\ inst[call'[c].line].left > 0
    PROVE  IInv'
<1>1. Typing' /\ DeviceIsSold' /\ RowsFollowPayments' /\ PaidIsKept' /\ DiscountsEndIt'
  BY DEF IInv, Typing, DeviceIsSold, RowsFollowPayments, PaidIsKept, DiscountsEndIt, HasRow
<1>2. LedgerFollowsBooks' /\ CompletionFollowsPayment' /\ OpenReceivableIsWorked'
  BY DEF IInv, LedgerFollowsBooks, CompletionFollowsPayment, OpenReceivableIsWorked, HasRow
<1>3. ReadsAreHigh'
  <2> SUFFICES ASSUME NEW c \in Calls, call'[c].op = "collect"
               PROVE  /\ call'[c].line \in Lines /\ call'[c].before \in Nat
                      /\ inst[call'[c].line].amount > 0
                      /\ inst[call'[c].line].left <= call'[c].before
    BY DEF ReadsAreHigh, HasRow
  <2>1. CASE call'[c] = call[c]
    BY <2>1 DEF IInv, ReadsAreHigh, HasRow
  <2>2. CASE call'[c] # call[c]
    <3> DEFINE l == call'[c].line
    <3>1. l \in Lines /\ call'[c].before = inst[l].left /\ inst[l].left > 0
      BY <2>2
    <3> HIDE DEF l
    <3>2. inst[l].amount \in Nat /\ inst[l].left \in Nat /\ inst[l].left <= inst[l].amount
      BY <3>1, InvFacts
    <3>3. inst[l].amount > 0 /\ inst[l].left <= inst[l].left
      BY <3>1, <3>2
    <3> QED BY <3>1, <3>2, <3>3 DEF l
  <2> QED BY <2>1, <2>2
<1> QED BY <1>1, <1>2, <1>3 DEF IInv

\* A step after which no balance that was read is too low.
LEMMA ReadsStep ==
    ASSUME IInv, inst' \in [Lines -> Instalment],
           \A c \in Calls : call'[c].op = "collect" =>
             /\ call'[c] = call[c]
             /\ inst'[call[c].line].amount > 0
             /\ inst'[call[c].line].left <= inst[call[c].line].left
    PROVE  ReadsAreHigh'
<1> SUFFICES ASSUME NEW c \in Calls, call'[c].op = "collect"
             PROVE  /\ call'[c].line \in Lines /\ call'[c].before \in Nat
                    /\ inst'[call'[c].line].amount > 0
                    /\ inst'[call'[c].line].left <= call'[c].before
  BY DEF ReadsAreHigh, HasRow
<1> DEFINE l == call[c].line
<1>1. call'[c] = call[c] /\ inst'[l].amount > 0 /\ inst'[l].left <= inst[l].left
  OBVIOUS
<1>2. l \in Lines /\ call[c].before \in Nat /\ inst[l].left <= call[c].before
  BY <1>1 DEF IInv, ReadsAreHigh
<1> HIDE DEF l
<1>3. inst'[l].left \in Nat /\ inst[l].left \in Nat
  BY <1>2, RowFacts, InvFacts
<1>4. inst'[l].left <= call[c].before
  BY <1>1, <1>2, <1>3
<1> QED BY <1>1, <1>2, <1>4 DEF l

-----------------------------------------------------------------------------
(* The draft.                                                              *)

LEMMA WrittenStatus ==
    ASSUME NEW body \in Contract
    PROVE  /\ Written(body) \in Contract
           /\ Written(body).status \in {"draft", "cancelled", "completed", "discarded"}
           /\ body.status = "draft" => Written(body).status = "draft"
BY DEF Written, deriveContractWriteStatus, Contract

\* What the form saves is a draft.
LEMMA FormSavesDraft ==
    ASSUME NEW body \in Bodies
    PROVE  Written(body) \in Contract /\ Written(body).status = "draft"
BY WrittenStatus, LedgerAssumption, FormAssumption

LEMMA EditWriteStep ==
    ASSUME IInv, NEW c \in Calls, NEW body \in Bodies, EditWrite(c, body)
    PROVE  IInv'
<1>1. contract.status \in {"draft", "discarded"} /\ ~device
  BY FormSavesDraft DEF EditWrite, BackToDraft, IInv, DeviceIsSold, Typing, Contract
<1>2. /\ contract' \in Contract /\ contract'.status = "draft" /\ DOMAIN call' = Calls
      /\ call' = [call EXCEPT ![c] = Idle]
      /\ UNCHANGED <<device, inst, paid, ledger, tasks>>
  BY FormSavesDraft, InvFacts DEF EditWrite
<1>3. Typing' /\ DeviceIsSold' /\ RowsFollowPayments' /\ PaidIsKept'
  BY <1>1, <1>2 DEF IInv, Typing, DeviceIsSold, RowsFollowPayments, PaidIsKept, HasRow
<1>4. ReadsAreHigh'
  BY <1>2, ReadsStep, InvFacts DEF Idle, IInv, ReadsAreHigh, HasRow
<1>5. DiscountsEndIt'
  BY <1>1, <1>2 DEF IInv, DiscountsEndIt
<1>6. LedgerFollowsBooks' /\ CompletionFollowsPayment' /\ OpenReceivableIsWorked'
  BY <1>1, <1>2 DEF IInv, LedgerFollowsBooks, KeepsMovements, CompletionFollowsPayment,
                    OpenReceivableIsWorked
<1> QED BY <1>3, <1>4, <1>5, <1>6 DEF IInv

\* A step on a draft that keeps it one, or discards it.
LEMMA DraftStep ==
    ASSUME IInv, contract.status = "draft", contract' \in Contract,
           contract'.status \in {"draft", "discarded"}, Typing', RowsFollowPayments',
           PaidIsKept', ReadsAreHigh', UNCHANGED <<device, ledger>>
    PROVE  IInv'
<1>1. DeviceIsSold' /\ DiscountsEndIt'
  BY DEF IInv, DeviceIsSold, DiscountsEndIt
<1>2. LedgerFollowsBooks'
  BY DEF IInv, LedgerFollowsBooks, KeepsMovements
<1>3. CompletionFollowsPayment' /\ OpenReceivableIsWorked'
  BY DEF CompletionFollowsPayment, OpenReceivableIsWorked
<1> QED BY <1>1, <1>2, <1>3 DEF IInv

LEMMA SavePaymentsStep ==
    ASSUME IInv, NEW amount \in Amounts \cup Prices \cup {0}, SavePayments(amount)
    PROVE  IInv'
<1>1. /\ contract.status = "draft" /\ UNCHANGED <<contract, device, inst, ledger, tasks, call>>
      /\ paid' = [k \in Accounts |-> IF k = Signing THEN amount ELSE 0]
  BY DEF SavePayments
<1>2. amount \in Nat
  BY LedgerAssumption
<1>3. paid' \in [Accounts -> Nat] /\ \A l \in Lines : paid'[l] = 0
  BY <1>1, <1>2, AccountFacts
<1>4. Typing' /\ RowsFollowPayments' /\ ReadsAreHigh'
  BY <1>1, <1>3 DEF IInv, Typing, RowsFollowPayments, ReadsAreHigh, HasRow
<1>5. PaidIsKept'
  BY <1>3 DEF PaidIsKept
<1> QED BY <1>1, <1>4, <1>5, DraftStep DEF IInv, Typing

LEMMA NewRow ==
    ASSUME NEW rows \in Schedules
    PROVE  /\ rows \in [Lines -> Instalment]
           /\ \A l \in Lines : rows[l].left = rows[l].amount
<1>1. PICK f \in [Lines -> Amounts \cup {0}], b \in BOOLEAN :
        rows = [l \in Lines |-> Row(f[l], b)]
  BY DEF Schedules
<1>2. Amounts \cup {0} \subseteq Nat
  BY LedgerAssumption
<1>3. ASSUME NEW l \in Lines PROVE Row(f[l], b) \in Instalment /\ rows[l] = Row(f[l], b)
  <2>1. f[l] \in Amounts \cup {0} /\ f[l] \in Nat /\ (b /\ f[l] > 0) \in BOOLEAN
    BY <1>2
  <2> QED BY <1>1, <2>1 DEF Row, Instalment
<1> QED BY <1>1, <1>3 DEF Row

LEMMA SaveInstallmentsStep ==
    ASSUME IInv, NEW rows \in Schedules, SaveInstallments(rows)
    PROVE  IInv'
<1> DEFINE open == {l \in Lines : ~inst[l].confirmed}
           dropped == {l \in open : HasRow(l)}
<1>1. /\ contract.status = "draft" /\ UNCHANGED <<contract, device, paid, ledger, call>>
      /\ Deletable(dropped)
      /\ inst' = [l \in Lines |-> IF l \in open THEN rows[l] ELSE inst[l]]
      /\ tasks' = [l \in Lines |-> IF l \in dropped THEN <<>> ELSE tasks[l]]
  BY DEF SaveInstallments, Unlinked
<1>2. inst' \in [Lines -> Instalment] /\ tasks' \in [Lines -> Seq(Attempt)]
  BY <1>1, NewRow, InvFacts
<1>3. Typing' /\ RowsFollowPayments'
  BY <1>1, <1>2, NewRow DEF IInv, Typing, RowsFollowPayments
<1>4. ASSUME NEW l \in Lines, paid[l] > 0 \/ \E c \in Calls : call[c].op = "collect" /\ call[c].line = l
      PROVE  inst'[l] = inst[l] /\ tasks'[l] = tasks[l] /\ HasRow(l)
  <2>1. HasRow(l) /\ l \notin dropped
    BY <1>1, <1>4 DEF Deletable, IInv, PaidIsKept, ReadsAreHigh
  <2> QED BY <1>1, <2>1
<1>5. PaidIsKept'
  BY <1>1, <1>4 DEF IInv, PaidIsKept, HasRow
<1>6. ReadsAreHigh'
  BY <1>1, <1>4 DEF IInv, ReadsAreHigh, HasRow
<1> QED BY <1>1, <1>3, <1>5, <1>6, DraftStep DEF IInv, Typing

LEMMA ConfirmInstallmentsStep == IInv /\ ConfirmInstallments => IInv'
<1> SUFFICES ASSUME IInv, ConfirmInstallments PROVE IInv'
  OBVIOUS
<1>1. /\ contract.status = "draft"
      /\ UNCHANGED <<contract, device, paid, ledger, tasks, call>>
      /\ inst' = [l \in Lines |-> [inst[l] EXCEPT !.confirmed = HasRow(l)]]
  BY DEF ConfirmInstallments
<1>2. ASSUME NEW l \in Lines
      PROVE  /\ inst'[l] \in Instalment
             /\ inst'[l].amount = inst[l].amount /\ inst'[l].left = inst[l].left
  <2>1. inst[l] \in Instalment /\ HasRow(l) \in BOOLEAN
    BY InvFacts DEF HasRow
  <2> QED BY <1>1, <2>1 DEF Instalment
<1>3. inst' \in [Lines -> Instalment]
  BY <1>1, <1>2
<1>4. Typing' /\ RowsFollowPayments' /\ PaidIsKept'
  BY <1>1, <1>2, <1>3 DEF IInv, Typing, RowsFollowPayments, PaidIsKept, HasRow
<1>5. ReadsAreHigh'
  BY <1>1, <1>2 DEF IInv, ReadsAreHigh, HasRow
<1> QED BY <1>1, <1>4, <1>5, DraftStep DEF IInv, Typing

LEMMA RejectStep == IInv /\ Reject => IInv'
<1> SUFFICES ASSUME IInv, Reject PROVE IInv'
  OBVIOUS
<1>1. /\ contract.status = "draft" /\ contract'.status = "discarded" /\ contract' \in Contract
      /\ UNCHANGED <<device, inst, paid, ledger, tasks, call>>
  BY InvFacts DEF Reject, Contract
<1>2. Typing' /\ RowsFollowPayments' /\ PaidIsKept' /\ ReadsAreHigh'
  BY <1>1 DEF IInv, Typing, RowsFollowPayments, PaidIsKept, ReadsAreHigh, HasRow
<1> QED BY <1>1, <1>2, DraftStep

-----------------------------------------------------------------------------
(* Approval, settlement and activation.                                    *)

\* Whatever calls the completion leaves it evaluated.
LEMMA CompletionStep ==
    ASSUME NEW c \in Contract, contract' = Completed(c, inst', paid'),
           inst' \in [Lines -> Instalment],
           c.status = "completed" => c.kind # "temporary" /\ PaidUp(c, inst', paid')
    PROVE  CompletionFollowsPayment'
<1>1. /\ contract'.kind = c.kind /\ contract'.cash = c.cash /\ contract'.price = c.price
      /\ \/ /\ contract'.status = c.status
            /\ ~(c.status = "active" /\ c.kind # "temporary" /\ PaidUp(c, inst', paid'))
         \/ /\ contract'.status = "completed" /\ c.kind # "temporary"
            /\ PaidUp(c, inst', paid')
  BY CompletedContract
<1>2. PaidUp(contract', inst', paid') <=> PaidUp(c, inst', paid')
  BY <1>1 DEF PaidUp
<1>3. contract'.status = "completed" =>
        contract'.kind # "temporary" /\ PaidUp(contract', inst', paid')
  BY <1>1, <1>2
<1>4. ASSUME contract'.status = "active", contract'.kind = "definitive",
             \E l \in Lines : inst'[l].amount > 0
      PROVE  \E l \in Lines : inst'[l].left > 0
  <2>1. ~PaidUp(c, inst', paid')
    BY <1>1, <1>4
  <2>2. PICK l \in Lines : inst'[l].left # 0
    BY <1>4, <2>1 DEF PaidUp
  <2>3. inst'[l].left \in Nat
    BY RowFacts
  <2> QED BY <2>2, <2>3
<1> QED BY <1>3, <1>4 DEF CompletionFollowsPayment, HasRow

\* The synchronisation of a contract without movements.
LEMMA LedgerStep ==
    ASSUME IInv, contract.status # "cancelled",
           contract.status \in {"draft", "discarded"} \/ contract.kind # "definitive",
           contract'.status \in {"active", "completed"},
           ledger' = Synced(contract', inst', paid', ledger),
           \A l \in Lines : inst'[l].left = Excess(inst'[l].amount, paid'[l])
    PROVE  /\ LedgerFollowsBooks' /\ DiscountsEndIt'
           /\ DOMAIN ledger' = Accounts /\ \A k \in Accounts : DOMAIN ledger'[k] = Figures
<1>1. ASSUME NEW k \in Accounts
      PROVE  /\ ledger[k].charge = 0 /\ ledger[k].credit = 0 /\ ledger[k].discount = 0
             /\ DOMAIN ledger[k] = Figures
  BY DEF IInv, LedgerFollowsBooks, DiscountsEndIt, Typing
<1>2. CASE KeepsMovements(contract')
  <2>1. ASSUME NEW k \in Accounts
        PROVE  /\ DOMAIN ledger' = Accounts /\ DOMAIN ledger'[k] = Figures
               /\ ledger'[k].charge = Due(contract', inst', k)
               /\ ledger'[k].credit = paid'[k] /\ ledger'[k].discount = 0
    BY <1>1, <1>2, SyncedLedger
  <2>2. DOMAIN ledger' = Accounts
    BY <2>1, AccountFacts
  <2> QED BY <1>2, <2>1, <2>2 DEF LedgerFollowsBooks, DiscountsEndIt, KeepsMovements
<1>3. CASE ~KeepsMovements(contract')
  <2>1. ledger' = ledger /\ contract'.kind # "definitive"
    BY <1>3 DEF Synced, KeepsMovements
  <2> QED BY <1>1, <1>3, <2>1 DEF LedgerFollowsBooks, DiscountsEndIt, IInv, Typing
<1> QED BY <1>2, <1>3

LEMMA ApproveStep == IInv /\ Approve => IInv'
<1> SUFFICES ASSUME IInv, Approve PROVE IInv'
  OBVIOUS
<1> DEFINE c == [contract EXCEPT !.status = "active"]
<1>1. /\ contract.status = "draft" /\ device' = TRUE
      /\ inst' = Balanced(inst, paid, Lines) /\ contract' = Completed(c, inst', paid)
      /\ tasks' = WithTasks(tasks, inst', {l \in Lines : inst[l].confirmed})
      /\ ledger' = Synced(contract', inst', paid, ledger)
      /\ UNCHANGED <<paid, call>>
  BY DEF Approve
<1>2. c \in Contract /\ c.status = "active"
  BY InvFacts DEF Contract
<1> HIDE DEF c
<1>3. contract' \in Contract /\ contract'.status \in {"active", "completed"}
  BY <1>1, <1>2, CompletedContract
<1>4. /\ inst' \in [Lines -> Instalment]
      /\ \A l \in Lines : /\ inst'[l].amount = inst[l].amount
                          /\ inst'[l].confirmed = inst[l].confirmed
                          /\ inst'[l].left = Excess(inst[l].amount, paid[l])
  <2>1. inst \in [Lines -> Instalment] /\ paid \in [Accounts -> Nat]
    BY InvFacts
  <2> QED BY <1>1, <2>1, BalancedRows
<1>5. CompletionFollowsPayment'
  BY <1>1, <1>2, <1>4, CompletionStep
<1>6. /\ LedgerFollowsBooks' /\ DiscountsEndIt'
      /\ DOMAIN ledger' = Accounts /\ \A k \in Accounts : DOMAIN ledger'[k] = Figures
  BY <1>1, <1>3, <1>4, LedgerStep
<1>7. tasks' \in [Lines -> Seq(Attempt)]
  BY <1>1, TasksTyped, InvFacts
<1>8. Typing' /\ DeviceIsSold' /\ RowsFollowPayments'
  BY <1>1, <1>3, <1>4, <1>6, <1>7 DEF IInv, Typing, DeviceIsSold, RowsFollowPayments
<1>9. PaidIsKept'
  <2> SUFFICES ASSUME NEW l \in Lines, paid[l] > 0
               PROVE  /\ inst'[l].amount > 0
                      /\ \E a \in DOMAIN tasks'[l] : tasks'[l][a] # "active"
    BY <1>1 DEF PaidIsKept, HasRow
  <2>1. PICK a \in DOMAIN tasks[l] : inst[l].amount > 0 /\ tasks[l][a] # "active"
    BY DEF IInv, PaidIsKept, HasRow
  <2>2. a \in DOMAIN tasks'[l] /\ tasks'[l][a] = tasks[l][a]
    BY <1>1, <2>1, TasksAppended, InvFacts
  <2> QED BY <1>4, <2>1, <2>2
<1>10. ReadsAreHigh'
  <2> SUFFICES ASSUME NEW d \in Calls, call[d].op = "collect"
               PROVE  /\ inst'[call[d].line].amount > 0
                      /\ inst'[call[d].line].left <= inst[call[d].line].left
    BY <1>1, <1>4, ReadsStep
  <2>1. call[d].line \in Lines /\ inst[call[d].line].amount > 0
    BY DEF IInv, ReadsAreHigh, HasRow
  <2>2. ASSUME NEW l \in Lines PROVE inst'[l].left <= inst[l].left
    <3>1. inst[l].left = inst[l].amount /\ inst[l].amount \in Nat /\ paid[l] \in Nat
      BY <1>1, InvFacts DEF IInv, RowsFollowPayments
    <3> QED BY <1>4, <3>1, ExcessFacts
  <2> QED BY <1>4, <2>1, <2>2
<1>11. OpenReceivableIsWorked'
  <2> SUFFICES ASSUME NEW l \in Lines, inst'[l].confirmed, inst'[l].left > 0
               PROVE  \E a \in DOMAIN tasks'[l] : tasks'[l][a] = "active"
    BY DEF OpenReceivableIsWorked
  <2> DEFINE L == {m \in Lines : inst[m].confirmed}
  <2>1. l \in L /\ tasks \in [Lines -> Seq(Attempt)] /\ tasks' = WithTasks(tasks, inst', L)
    BY <1>1, <1>4, InvFacts
  <2> HIDE DEF L
  <2> QED BY <2>1, TasksAppended
<1> QED BY <1>5, <1>6, <1>8, <1>9, <1>10, <1>11 DEF IInv

\* The activation of a contract that was completed already changes nothing.
LEMMA ActivateChangesNothing ==
    ASSUME IInv, Activate
    PROVE  UNCHANGED vars
<1> DEFINE c == [contract EXCEPT !.status = "active"]
<1>1. contract.status \in {"active", "completed"} /\ UNCHANGED <<device, paid, ledger, tasks, call>>
  BY DEF Activate, IInv, DeviceIsSold
<1>2. CASE contract.status = "active"
  BY <1>1, <1>2 DEF Activate, vars
<1>3. CASE contract.status = "completed"
  <2>1. inst' = Balanced(inst, paid, Lines) /\ contract' = Completed(c, inst', paid)
    BY <1>3 DEF Activate
  <2>2. ASSUME NEW l \in Lines PROVE Balanced(inst, paid, Lines)[l] = inst[l]
    <3>1. inst[l].left = Excess(inst[l].amount, paid[l]) /\ inst[l] \in Instalment
      BY <1>3, InvFacts DEF IInv, RowsFollowPayments
    <3>2. [inst[l] EXCEPT !.left = inst[l].left] = inst[l]
      BY <3>1 DEF Instalment
    <3> QED BY <3>1, <3>2 DEF Balanced
  <2>3. inst' = inst
    <3>1. Balanced(inst, paid, Lines) = [l \in Lines |-> Balanced(inst, paid, Lines)[l]]
      BY DEF Balanced
    <3> QED BY <2>1, <2>2, <3>1, InvFacts
  <2>4. /\ contract \in Contract /\ contract.kind # "temporary"
        /\ PaidUp(contract, inst, paid)
    BY <1>3, InvFacts DEF IInv, CompletionFollowsPayment
  <2>5. c.status = "active" /\ c.kind = contract.kind /\ c.cash = contract.cash
        /\ c.price = contract.price
    BY <2>4 DEF Contract
  <2>6. contract' = [c EXCEPT !.status = "completed"]
    BY <2>1, <2>3, <2>4, <2>5 DEF Completed, PaidUp
  <2>7. contract' = contract
    BY <1>3, <2>4, <2>6 DEF Contract
  <2> QED BY <1>1, <2>3, <2>7 DEF vars
<1> QED BY <1>1, <1>2, <1>3

\* A trial that can be settled was never paid, and no collection is under way.
LEMMA SettledIsUnpaid ==
    ASSUME IInv, Deletable({l \in Lines : HasRow(l)})
    PROVE  /\ \A l \in Lines : paid[l] = 0
           /\ \A c \in Calls : call[c].op # "collect"
<1>1. ASSUME NEW l \in Lines PROVE paid[l] = 0
  <2>1. paid[l] \in Nat /\ ~(paid[l] > 0)
    BY InvFacts DEF Deletable, IInv, PaidIsKept
  <2> QED BY <2>1
<1>2. ASSUME NEW c \in Calls PROVE call[c].op # "collect"
  BY DEF Deletable, IInv, ReadsAreHigh
<1> QED BY <1>1, <1>2

LEMMA SettleStep ==
    ASSUME IInv, NEW cash \in BOOLEAN, NEW price \in Prices, NEW down \in Amounts \cup {0},
           NEW rows \in Schedules, Settle(cash, price, down, rows)
    PROVE  IInv'
<1> DEFINE old == {l \in Lines : HasRow(l)}
           sale == [contract EXCEPT !.kind = "definitive", !.cash = cash, !.price = price]
           signing == IF cash THEN price ELSE down
<1>1. /\ contract.status = "active" /\ contract.kind = "temporary"
      /\ IF cash THEN \A l \in Lines : rows[l] = NoRow ELSE \E l \in Lines : rows[l] # NoRow
      /\ Deletable(old)
      /\ paid' = [paid EXCEPT ![Signing] = signing]
      /\ contract' = IF signing > 0 THEN Completed(sale, inst, paid') ELSE sale
      /\ inst' = rows
      /\ ledger' = Synced(contract', inst', paid', ledger)
      /\ tasks' = WithTasks(Unlinked(old), inst', Lines)
      /\ UNCHANGED <<device, call>>
  BY DEF Settle
<1>2. /\ \A l \in Lines : paid[l] = 0
      /\ \A c \in Calls : call[c].op # "collect"
  BY <1>1, SettledIsUnpaid
<1>3. sale \in Contract /\ sale.status = "active" /\ sale.kind = "definitive" /\ sale.cash = cash
      /\ sale.price = price
  <2>1. contract \in Contract
    BY InvFacts
  <2>2. sale \in Contract
    BY <2>1, ZenonT(60) DEF Contract
  <2> QED BY <1>1, <2>1, <2>2 DEF Contract
<1>4. paid' \in [Accounts -> Nat] /\ \A l \in Lines : paid'[l] = 0
  <2>1. price \in Nat /\ down \in Nat /\ signing \in Nat
    BY LedgerAssumption
  <2> QED BY <1>1, <1>2, <2>1, AccountFacts, InvFacts
<1> HIDE DEF sale, signing
<1>5. contract' = sale \/ contract' = Completed(sale, inst, paid')
  BY <1>1
<1>6. /\ contract' \in Contract /\ contract'.kind = "definitive" /\ contract'.cash = cash
      /\ contract'.price = price /\ contract'.status \in {"active", "completed"}
  BY <1>3, <1>5, CompletedContract
<1>7. /\ inst' \in [Lines -> Instalment]
      /\ \A l \in Lines : /\ inst'[l] \in Instalment /\ inst'[l].amount \in Nat
                          /\ inst'[l].left = inst'[l].amount
                          /\ inst'[l].left = Excess(inst'[l].amount, paid'[l])
  <2>1. ASSUME NEW l \in Lines
        PROVE  inst'[l] \in Instalment /\ inst'[l].amount \in Nat /\ inst'[l].left = inst'[l].amount
    BY <1>1, NewRow, RowFacts
  <2>2. ASSUME NEW l \in Lines PROVE inst'[l].left = Excess(inst'[l].amount, paid'[l])
    BY <1>4, <2>1 DEF Excess
  <2> QED BY <1>1, <2>1, <2>2, NewRow
<1>8. /\ LedgerFollowsBooks' /\ DiscountsEndIt'
      /\ DOMAIN ledger' = Accounts /\ \A k \in Accounts : DOMAIN ledger'[k] = Figures
  BY <1>1, <1>6, <1>7, LedgerStep
<1> DEFINE t == Unlinked(old)
<1>9. t \in [Lines -> Seq(Attempt)]
  BY InvFacts DEF Unlinked
<1> HIDE DEF t
<1>10. tasks' = WithTasks(t, inst', Lines) /\ tasks' \in [Lines -> Seq(Attempt)]
  BY <1>1, <1>9, TasksTyped DEF t
<1>11. Typing' /\ DeviceIsSold' /\ RowsFollowPayments' /\ PaidIsKept' /\ ReadsAreHigh'
  <2>1. Typing'
    BY <1>1, <1>4, <1>6, <1>7, <1>8, <1>10 DEF IInv, Typing
  <2>2. DeviceIsSold'
    BY <1>1, <1>6 DEF IInv, DeviceIsSold
  <2>3. RowsFollowPayments'
    BY <1>7 DEF RowsFollowPayments
  <2>4. PaidIsKept' /\ ReadsAreHigh'
    BY <1>1, <1>2, <1>4 DEF PaidIsKept, ReadsAreHigh
  <2> QED BY <2>1, <2>2, <2>3, <2>4
<1>12. CompletionFollowsPayment'
  <2>1. CASE contract'.status = "completed"
    <3>1. PaidUp(sale, inst, paid')
      BY <1>3, <1>5, <2>1, CompletedContract
    <3>2. ASSUME NEW l \in Lines, inst[l].amount > 0 PROVE inst[l].left # 0
      <4>1. inst[l].left = Excess(inst[l].amount, 0) /\ inst[l].amount \in Nat
        BY <1>1, <1>2, InvFacts DEF IInv, RowsFollowPayments
      <4> QED BY <3>2, <4>1 DEF Excess
    <3>3. cash /\ Total(paid') >= price
      BY <1>3, <3>1, <3>2 DEF PaidUp
    <3>4. \A l \in Lines : ~(inst'[l].amount > 0)
      BY <1>1, <3>3 DEF NoRow
    <3>5. PaidUp(contract', inst', paid')
      BY <1>6, <3>3, <3>4 DEF PaidUp
    <3> QED BY <1>6, <2>1, <3>5 DEF CompletionFollowsPayment
  <2>2. CASE contract'.status # "completed"
    BY <1>7, <2>2 DEF CompletionFollowsPayment, HasRow
  <2> QED BY <2>1, <2>2
<1>13. OpenReceivableIsWorked'
  <2> SUFFICES ASSUME NEW l \in Lines, inst'[l].left > 0
               PROVE  \E a \in DOMAIN tasks'[l] : tasks'[l][a] = "active"
    BY DEF OpenReceivableIsWorked
  <2> QED BY <1>9, <1>10, TasksAppended
<1> QED BY <1>8, <1>11, <1>12, <1>13 DEF IInv

-----------------------------------------------------------------------------
(* The end without a sale.                                                 *)

\* A step that cancels an active contract, gives up some of its active tasks, and
\* records nothing but discounts.
LEMMA CancelStep ==
    ASSUME IInv, contract.status = "active",
           contract' = [contract EXCEPT !.status = "cancelled"],
           tasks' \in [Lines -> Seq(Attempt)],
           \A l \in Lines : \A a \in DOMAIN tasks[l] :
             /\ a \in DOMAIN tasks'[l]
             /\ tasks[l][a] # "active" => tasks'[l][a] = tasks[l][a],
           DOMAIN ledger' = Accounts,
           \A k \in Accounts : /\ DOMAIN ledger'[k] = Figures
                               /\ ledger'[k].charge = ledger[k].charge
                               /\ ledger'[k].credit = ledger[k].credit,
           DOMAIN call' = Calls,
           \A c \in Calls : call'[c].op = "collect" => call'[c] = call[c],
           UNCHANGED <<device, inst, paid>>
    PROVE  IInv'
<1>1. contract' \in Contract /\ contract'.status = "cancelled" /\ contract'.kind = contract.kind
  BY InvFacts DEF Contract
<1>2. Typing' /\ DeviceIsSold' /\ RowsFollowPayments' /\ DiscountsEndIt'
  BY <1>1 DEF IInv, Typing, DeviceIsSold, RowsFollowPayments, DiscountsEndIt
<1>3. PaidIsKept'
  BY DEF IInv, PaidIsKept, HasRow
<1>4. ReadsAreHigh'
  BY DEF IInv, ReadsAreHigh, HasRow
<1>5. LedgerFollowsBooks'
  BY <1>1 DEF IInv, LedgerFollowsBooks, KeepsMovements
<1>6. CompletionFollowsPayment' /\ OpenReceivableIsWorked'
  BY <1>1 DEF CompletionFollowsPayment, OpenReceivableIsWorked
<1> QED BY <1>2, <1>3, <1>4, <1>5, <1>6 DEF IInv

LEMMA CancelWriteStep ==
    ASSUME IInv, NEW c \in Calls, CancelWrite(c)
    PROVE  IInv'
<1>1. /\ contract.status = "active" /\ contract' = [contract EXCEPT !.status = "cancelled"]
      /\ tasks' = [l \in Lines |-> [a \in DOMAIN tasks[l] |->
                     IF tasks[l][a] = "active" THEN "cancelled" ELSE tasks[l][a]]]
      /\ ledger' = Discounted(call[c])
      /\ call' = [call EXCEPT ![c] = Idle]
      /\ UNCHANGED <<device, inst, paid>>
  BY DEF CancelWrite
<1>2. ASSUME NEW l \in Lines
      PROVE  /\ tasks'[l] \in Seq(Attempt)
             /\ \A a \in DOMAIN tasks[l] :
                  /\ a \in DOMAIN tasks'[l]
                  /\ tasks[l][a] # "active" => tasks'[l][a] = tasks[l][a]
  <2>1. tasks[l] \in Seq(Attempt)
    BY InvFacts
  <2>2. DOMAIN tasks[l] = 1..Len(tasks[l]) /\ Len(tasks[l]) \in Nat
        /\ \A a \in DOMAIN tasks[l] : tasks[l][a] \in Attempt
    BY <2>1
  <2>3. tasks'[l] = [a \in 1..Len(tasks[l]) |->
                       IF tasks[l][a] = "active" THEN "cancelled" ELSE tasks[l][a]]
    BY <1>1, <2>2
  <2>4. tasks'[l] \in Seq(Attempt)
    BY <2>2, <2>3 DEF Attempt
  <2> QED BY <2>2, <2>3, <2>4
<1>3. tasks' \in [Lines -> Seq(Attempt)]
  BY <1>1, <1>2
<1>4. /\ DOMAIN ledger' = Accounts
      /\ \A k \in Accounts : /\ DOMAIN ledger'[k] = Figures
                             /\ ledger'[k].charge = ledger[k].charge
                             /\ ledger'[k].credit = ledger[k].credit
  <2>1. DOMAIN ledger = Accounts /\ \A k \in Accounts : DOMAIN ledger[k] = Figures
    BY DEF IInv, Typing
  <2> QED BY <1>1, <2>1 DEF Discounted, Figures
<1>5. DOMAIN call' = Calls /\ \A d \in Calls : call'[d].op = "collect" => call'[d] = call[d]
  BY <1>1, InvFacts DEF Idle
<1> QED BY <1>1, <1>2, <1>3, <1>4, <1>5, CancelStep

LEMMA RetrieveTrialDeviceStep == IInv /\ RetrieveTrialDevice => IInv'
<1> SUFFICES ASSUME IInv, RetrieveTrialDevice PROVE IInv'
  OBVIOUS
<1>1. /\ contract.status = "active" /\ contract' = [contract EXCEPT !.status = "cancelled"]
      /\ UNCHANGED <<device, inst, paid, ledger, tasks, call>>
  BY DEF RetrieveTrialDevice
<1>2. DOMAIN ledger = Accounts /\ \A k \in Accounts : DOMAIN ledger[k] = Figures
  BY DEF IInv, Typing
<1> QED BY <1>1, <1>2, InvFacts, CancelStep

-----------------------------------------------------------------------------
(* Collection.                                                             *)

LEMMA CreateTaskStep ==
    ASSUME IInv, NEW m \in Lines, CreateTask(m)
    PROVE  IInv'
<1>1. /\ tasks' = WithTasks(tasks, inst, {m})
      /\ UNCHANGED <<contract, device, inst, paid, ledger, call>>
  BY DEF CreateTask
<1>2. /\ tasks' \in [Lines -> Seq(Attempt)]
      /\ \A l \in Lines : \A a \in DOMAIN tasks[l] :
           a \in DOMAIN tasks'[l] /\ tasks'[l][a] = tasks[l][a]
  BY <1>1, TasksTyped, TasksAppended, InvFacts
<1>3. Typing' /\ DeviceIsSold' /\ RowsFollowPayments' /\ ReadsAreHigh' /\ DiscountsEndIt'
  BY <1>1, <1>2 DEF IInv, Typing, DeviceIsSold, RowsFollowPayments, ReadsAreHigh,
                    DiscountsEndIt, HasRow
<1>4. LedgerFollowsBooks' /\ CompletionFollowsPayment'
  BY <1>1 DEF IInv, LedgerFollowsBooks, CompletionFollowsPayment, HasRow
<1>5. PaidIsKept'
  <2> SUFFICES ASSUME NEW l \in Lines, paid[l] > 0
               PROVE  /\ inst[l].amount > 0
                      /\ \E a \in DOMAIN tasks'[l] : tasks'[l][a] # "active"
    BY <1>1 DEF PaidIsKept, HasRow
  <2>1. PICK a \in DOMAIN tasks[l] : inst[l].amount > 0 /\ tasks[l][a] # "active"
    BY DEF IInv, PaidIsKept, HasRow
  <2> QED BY <1>2, <2>1
<1>6. OpenReceivableIsWorked'
  <2> SUFFICES ASSUME contract.status = "active", contract.kind = "definitive",
                      NEW l \in Lines, inst[l].confirmed, inst[l].left > 0
               PROVE  \E a \in DOMAIN tasks'[l] : tasks'[l][a] \in {"active", "cancelled"}
    BY <1>1 DEF OpenReceivableIsWorked
  <2>1. PICK a \in DOMAIN tasks[l] : tasks[l][a] \in {"active", "cancelled"}
    BY DEF IInv, OpenReceivableIsWorked
  <2> QED BY <1>2, <2>1
<1> QED BY <1>3, <1>4, <1>5, <1>6 DEF IInv

\* What closing an attempt, and a follow-up after it, do to the tasks.
LEMMA ClosedTasks ==
    ASSUME IInv, NEW l \in Lines, NEW a \in DOMAIN tasks[l],
           NEW status \in {"completed", "cancelled"}
    PROVE  /\ Closed(l, a, status) \in [Lines -> Seq(Attempt)]
           /\ a \in DOMAIN Closed(l, a, status)[l] /\ Closed(l, a, status)[l][a] = status
           /\ \A m \in Lines \ {l} : Closed(l, a, status)[m] = tasks[m]
           /\ \A b \in DOMAIN tasks[l] \ {a} : /\ b \in DOMAIN Closed(l, a, status)[l]
                                              /\ Closed(l, a, status)[l][b] = tasks[l][b]
<1>1. tasks \in [Lines -> Seq(Attempt)] /\ tasks[l] \in Seq(Attempt) /\ status \in Attempt
  BY InvFacts DEF Attempt
<1> DEFINE s == [tasks[l] EXCEPT ![a] = status]
<1>2. s \in Seq(Attempt) /\ s[a] = status /\ DOMAIN s = DOMAIN tasks[l]
      /\ \A b \in DOMAIN tasks[l] \ {a} : s[b] = tasks[l][b]
  BY <1>1
<1>3. Closed(l, a, status) = [tasks EXCEPT ![l] = s]
  BY DEF Closed
<1> HIDE DEF s
<1> QED BY <1>1, <1>2, <1>3

\* A step that ends an attempt of l with a status, and keeps all others.
EndsAttempt(l, a, status) ==
    /\ tasks' \in [Lines -> Seq(Attempt)]
    /\ a \in DOMAIN tasks'[l] /\ tasks'[l][a] = status
    /\ \A m \in Lines : \A b \in DOMAIN tasks[m] :
         /\ b \in DOMAIN tasks'[m]
         /\ tasks'[m][b] = tasks[m][b] \/ (tasks'[m][b] = status /\ m = l)

LEMMA CollectTasks ==
    ASSUME IInv, NEW l \in Lines, NEW a \in DOMAIN tasks[l],
           NEW status \in {"completed", "cancelled"}, NEW i,
           tasks' = WithTasks(Closed(l, a, status), i, {l}) \/ tasks' = Closed(l, a, status)
    PROVE  EndsAttempt(l, a, status)
<1> DEFINE t == Closed(l, a, status)
<1>1. /\ t \in [Lines -> Seq(Attempt)] /\ a \in DOMAIN t[l] /\ t[l][a] = status
      /\ \A m \in Lines \ {l} : t[m] = tasks[m]
      /\ \A b \in DOMAIN tasks[l] \ {a} : b \in DOMAIN t[l] /\ t[l][b] = tasks[l][b]
  BY ClosedTasks
<1>2. tasks' = WithTasks(t, i, {l}) \/ tasks' = t
  OBVIOUS
<1> HIDE DEF t
<1>3. tasks' \in [Lines -> Seq(Attempt)]
  BY <1>1, <1>2, TasksTyped
<1>4. ASSUME NEW m \in Lines, NEW b \in DOMAIN t[m]
      PROVE  b \in DOMAIN tasks'[m] /\ tasks'[m][b] = t[m][b]
  BY <1>1, <1>2, TasksAppended
<1>5. ASSUME NEW m \in Lines, NEW b \in DOMAIN tasks[m]
      PROVE  /\ b \in DOMAIN t[m]
             /\ t[m][b] = tasks[m][b] \/ (t[m][b] = status /\ m = l)
  <2>1. CASE m # l
    BY <1>1, <2>1
  <2>2. CASE m = l /\ b = a
    BY <1>1, <2>2
  <2>3. CASE m = l /\ b # a
    BY <1>1, <2>3
  <2> QED BY <2>1, <2>2, <2>3
<1> QED BY <1>1, <1>3, <1>4, <1>5 DEF EndsAttempt

LEMMA CollectNothingStep ==
    ASSUME IInv, NEW c \in Calls, NEW refused \in BOOLEAN, CollectNothing(c, refused)
    PROVE  IInv'
<1> DEFINE l == call[c].line
           a == call[c].attempt
<1>0. PICK status \in {"completed", "cancelled"} :
        status = IF refused THEN "cancelled" ELSE "completed"
  OBVIOUS
<1>1. /\ call[c].op = "collect" /\ a \in DOMAIN tasks[l]
      /\ IF refused THEN tasks' = Closed(l, a, status)
                    ELSE tasks' = WithTasks(Closed(l, a, status), inst, {l})
      /\ call' = [call EXCEPT ![c] = Idle]
      /\ UNCHANGED <<contract, device, inst, paid, ledger>>
  BY <1>0 DEF CollectNothing, TakesResult
<1>2. l \in Lines /\ status \in {"completed", "cancelled"}
  BY <1>0, <1>1 DEF IInv, ReadsAreHigh
<1> HIDE DEF l, a
<1>3. /\ tasks' \in [Lines -> Seq(Attempt)]
      /\ a \in DOMAIN tasks'[l] /\ tasks'[l][a] = status
      /\ \A m \in Lines : \A b \in DOMAIN tasks[m] :
           /\ b \in DOMAIN tasks'[m]
           /\ tasks'[m][b] = tasks[m][b] \/ (tasks'[m][b] = status /\ m = l)
  <2>1. a \in DOMAIN tasks[l]
    BY <1>1
  <2>2. tasks' = WithTasks(Closed(l, a, status), inst, {l}) \/ tasks' = Closed(l, a, status)
    BY <1>1
  <2>3. EndsAttempt(l, a, status)
    BY <1>2, <2>1, <2>2, CollectTasks
  <2> QED BY <2>3 DEF EndsAttempt
<1>4. DOMAIN call' = Calls /\ \A d \in Calls : call'[d].op = "collect" => call'[d] = call[d]
  BY <1>1, InvFacts DEF Idle
<1>5. Typing' /\ DeviceIsSold' /\ RowsFollowPayments' /\ DiscountsEndIt'
  BY <1>1, <1>3, <1>4 DEF IInv, Typing, DeviceIsSold, RowsFollowPayments, DiscountsEndIt
<1>6. LedgerFollowsBooks' /\ CompletionFollowsPayment'
  BY <1>1 DEF IInv, LedgerFollowsBooks, CompletionFollowsPayment, HasRow
<1>7. ReadsAreHigh'
  BY <1>1, <1>4 DEF IInv, ReadsAreHigh, HasRow
<1>8. PaidIsKept'
  <2> SUFFICES ASSUME NEW m \in Lines, paid[m] > 0
               PROVE  /\ inst[m].amount > 0
                      /\ \E b \in DOMAIN tasks'[m] : tasks'[m][b] # "active"
    BY <1>1 DEF PaidIsKept, HasRow
  <2>1. PICK b \in DOMAIN tasks[m] : inst[m].amount > 0 /\ tasks[m][b] # "active"
    BY DEF IInv, PaidIsKept, HasRow
  <2> QED BY <1>2, <1>3, <2>1
<1>9. OpenReceivableIsWorked'
  <2> SUFFICES ASSUME contract.status = "active", contract.kind = "definitive",
                      NEW m \in Lines, inst[m].confirmed, inst[m].left > 0
               PROVE  \E b \in DOMAIN tasks'[m] : tasks'[m][b] \in {"active", "cancelled"}
    BY <1>1 DEF OpenReceivableIsWorked
  <2>1. PICK e \in DOMAIN tasks[m] : tasks[m][e] \in {"active", "cancelled"}
    BY DEF IInv, OpenReceivableIsWorked
  <2>2. CASE m # l
    BY <1>3, <2>1, <2>2
  <2>3. CASE m = l /\ refused
    BY <1>0, <1>3, <2>3
  <2>4. CASE m = l /\ ~refused
    <3> DEFINE t == Closed(l, a, status)
    <3>1. t \in [Lines -> Seq(Attempt)] /\ tasks' = WithTasks(t, inst, {l}) /\ l \in {l}
      BY <1>1, <1>2, <2>4, ClosedTasks
    <3> HIDE DEF t
    <3>2. l \in Lines /\ inst[l].left > 0
      BY <1>2, <2>4
    <3>3. \E b \in DOMAIN tasks'[l] : tasks'[l][b] = "active"
      BY <3>1, <3>2, FollowUp
    <3> QED BY <2>4, <3>3
  <2> QED BY <2>2, <2>3, <2>4
<1> QED BY <1>5, <1>6, <1>7, <1>8, <1>9 DEF IInv

LEMMA CollectPaymentStep ==
    ASSUME IInv, NEW c \in Calls, NEW amount \in Amounts, NEW full \in BOOLEAN,
           CollectPayment(c, amount, full)
    PROVE  IInv'
<1> DEFINE l == call[c].line
           a == call[c].attempt
           t == Closed(l, a, "completed")
<1>1. /\ call[c].op = "collect" /\ a \in DOMAIN tasks[l]
      /\ full => amount >= call[c].before
      /\ paid' = [paid EXCEPT ![l] = @ + amount]
      /\ inst' = IF contract.status \in {"draft", "discarded"} THEN inst
                                                             ELSE Balanced(inst, paid', {l})
      /\ contract' = Completed(contract, inst', paid')
      /\ tasks' = IF full THEN t ELSE WithTasks(t, inst', {l})
      /\ call' = [call EXCEPT ![c] = Idle]
      /\ UNCHANGED device
  BY DEF CollectPayment, TakesResult
<1>0. ledger' = IF KeepsMovements(contract') THEN Credited(ledger, l, amount) ELSE ledger
  BY DEF CollectPayment
<1>2. /\ l \in Lines /\ l \in Accounts /\ call[c].before \in Nat
      /\ inst[l].amount > 0 /\ inst[l].left <= call[c].before
  BY <1>1, AccountFacts DEF IInv, ReadsAreHigh, HasRow
<1>3. t \in [Lines -> Seq(Attempt)]
  BY <1>1, <1>2, ClosedTasks
<1> HIDE DEF l, a
<1>4. /\ tasks' \in [Lines -> Seq(Attempt)]
      /\ a \in DOMAIN tasks'[l] /\ tasks'[l][a] = "completed"
      /\ \A m \in Lines : \A b \in DOMAIN tasks[m] :
           /\ b \in DOMAIN tasks'[m]
           /\ tasks'[m][b] = tasks[m][b] \/ (tasks'[m][b] = "completed" /\ m = l)
  <2>2. tasks' = WithTasks(Closed(l, a, "completed"), inst', {l})
        \/ tasks' = Closed(l, a, "completed")
    BY <1>1
  <2>3. EndsAttempt(l, a, "completed")
    BY <1>1, <1>2, <2>2, CollectTasks
  <2> QED BY <2>3 DEF EndsAttempt
<1> HIDE DEF t
<1>5. /\ paid' \in [Accounts -> Nat] /\ paid'[l] = paid[l] + amount /\ amount \in Nat \ {0}
      /\ paid[l] \in Nat
      /\ \A k \in Accounts \ {l} : paid'[k] = paid[k]
  <2>1. amount \in Nat \ {0} /\ paid \in [Accounts -> Nat]
    BY LedgerAssumption, InvFacts
  <2> QED BY <1>1, <1>2, <2>1
<1>6. /\ inst' \in [Lines -> Instalment] /\ Scheduled(inst') = Scheduled(inst)
      /\ \A m \in Lines : /\ inst'[m].amount = inst[m].amount
                          /\ inst'[m].confirmed = inst[m].confirmed
                          /\ m # l => inst'[m].left = inst[m].left
  <2>1. inst \in [Lines -> Instalment]
    BY InvFacts
  <2>2. CASE contract.status \in {"draft", "discarded"}
    BY <1>1, <2>1, <2>2
  <2>3. CASE contract.status \notin {"draft", "discarded"}
    <3>1. inst' = Balanced(inst, paid', {l})
      BY <1>1, <2>3
    <3> QED BY <1>5, <2>1, <3>1, BalancedRows
  <2> QED BY <2>2, <2>3
<1>7. /\ contract' \in Contract /\ contract'.kind = contract.kind
      /\ contract'.cash = contract.cash /\ contract'.price = contract.price
      /\ contract'.status = contract.status
         \/ (contract.status = "active" /\ contract'.status = "completed")
  BY <1>1, InvFacts, CompletedContract
<1>8. \A m \in Lines :
        inst'[m].left = IF contract.status \in {"draft", "discarded"}
                        THEN inst[m].amount ELSE Excess(inst[m].amount, paid'[m])
  <2> SUFFICES ASSUME NEW m \in Lines
               PROVE  inst'[m].left = IF contract.status \in {"draft", "discarded"}
                                      THEN inst[m].amount ELSE Excess(inst[m].amount, paid'[m])
    OBVIOUS
  <2>1. inst[m].left = IF contract.status \in {"draft", "discarded"}
                       THEN inst[m].amount ELSE Excess(inst[m].amount, paid[m])
    BY DEF IInv, RowsFollowPayments
  <2>2. CASE contract.status \in {"draft", "discarded"}
    BY <1>1, <2>1, <2>2
  <2>3. CASE contract.status \notin {"draft", "discarded"} /\ m # l
    BY <1>5, <1>6, <2>1, <2>3, AccountFacts
  <2>4. CASE contract.status \notin {"draft", "discarded"} /\ m = l
    <3>1. inst \in [Lines -> Instalment] /\ inst' = Balanced(inst, paid', {l}) /\ l \in {l}
      BY <1>1, <2>4, InvFacts
    <3>2. inst'[l].left = Excess(inst[l].amount, paid'[l])
      BY <1>2, <1>5, <3>1, BalancedRows
    <3> QED BY <2>4, <3>2
  <2> QED BY <2>2, <2>3, <2>4
<1>9. DOMAIN call' = Calls /\ \A d \in Calls : call'[d].op = "collect" => call'[d] = call[d]
  BY <1>1, InvFacts DEF Idle
<1>10. DOMAIN ledger = Accounts /\ \A k \in Accounts : DOMAIN ledger[k] = Figures
  BY DEF IInv, Typing
<1>11. /\ DOMAIN ledger' = Accounts /\ \A k \in Accounts : DOMAIN ledger'[k] = Figures
       /\ \A k \in Accounts : ledger'[k].charge = ledger[k].charge
                             /\ ledger'[k].discount = ledger[k].discount
       /\ KeepsMovements(contract') =>
            /\ ledger'[l].credit = ledger[l].credit + amount
            /\ \A k \in Accounts \ {l} : ledger'[k].credit = ledger[k].credit
       /\ ~KeepsMovements(contract') => ledger' = ledger
  <2>1. CASE KeepsMovements(contract')
    <3>1. ledger' = Credited(ledger, l, amount)
      BY <1>0, <2>1
    <3> QED BY <1>2, <1>10, <2>1, <3>1, CreditedLedger
  <2>2. CASE ~KeepsMovements(contract')
    BY <1>0, <1>10, <2>2
  <2> QED BY <2>1, <2>2
<1>12. Typing' /\ DeviceIsSold'
  BY <1>1, <1>4, <1>5, <1>6, <1>7, <1>9, <1>11 DEF IInv, Typing, DeviceIsSold
<1>13. RowsFollowPayments'
  BY <1>6, <1>7, <1>8 DEF RowsFollowPayments
<1>14. DiscountsEndIt'
  BY <1>7, <1>11 DEF IInv, DiscountsEndIt
<1>15. PaidIsKept'
  <2> SUFFICES ASSUME NEW m \in Lines, paid'[m] > 0
               PROVE  /\ inst'[m].amount > 0
                      /\ \E b \in DOMAIN tasks'[m] : tasks'[m][b] # "active"
    BY DEF PaidIsKept, HasRow
  <2>1. CASE m = l
    BY <1>2, <1>4, <1>6, <2>1
  <2>2. CASE m # l
    <3>1. paid[m] > 0
      BY <1>5, <2>2, AccountFacts
    <3>2. PICK b \in DOMAIN tasks[m] : inst[m].amount > 0 /\ tasks[m][b] # "active"
      BY <3>1 DEF IInv, PaidIsKept, HasRow
    <3> QED BY <1>4, <1>6, <2>2, <3>2
  <2> QED BY <2>1, <2>2
<1>16. \A m \in Lines : inst'[m].left <= inst[m].left
  <2> SUFFICES ASSUME NEW m \in Lines PROVE inst'[m].left <= inst[m].left
    OBVIOUS
  <2>1. /\ inst[m].amount \in Nat /\ inst[m].left \in Nat /\ paid[m] \in Nat
        /\ inst[m].left = IF contract.status \in {"draft", "discarded"}
                          THEN inst[m].amount ELSE Excess(inst[m].amount, paid[m])
    BY InvFacts DEF IInv, RowsFollowPayments
  <2>2. CASE m = l
    BY <1>5, <1>8, <2>1, <2>2 DEF Excess
  <2>3. CASE m # l
    BY <1>6, <2>1, <2>3
  <2> QED BY <2>2, <2>3
<1>17. ReadsAreHigh'
  <2>1. ASSUME NEW d \in Calls, call'[d].op = "collect"
        PROVE  /\ call'[d] = call[d] /\ inst'[call[d].line].amount > 0
               /\ inst'[call[d].line].left <= inst[call[d].line].left
    <3>1. call'[d] = call[d] /\ call[d].line \in Lines /\ inst[call[d].line].amount > 0
      BY <1>9, <2>1 DEF IInv, ReadsAreHigh, HasRow
    <3> QED BY <1>6, <1>16, <3>1
  <2> QED BY <1>6, <2>1, ReadsStep
<1>18. CompletionFollowsPayment'
  <2>1. ASSUME contract.status = "completed"
        PROVE  contract.kind # "temporary" /\ PaidUp(contract, inst', paid')
    <3>1. contract.kind # "temporary" /\ \A m \in Lines : inst[m].left = 0
      BY <1>2, <2>1 DEF IInv, CompletionFollowsPayment, PaidUp
    <3>2. ASSUME NEW m \in Lines PROVE inst'[m].left = 0
      <4>1. inst'[m].left \in Nat /\ inst'[m].left <= 0
        BY <1>6, <1>16, <3>1, RowFacts
      <4> QED BY <4>1
    <3> QED BY <1>2, <1>6, <3>1, <3>2 DEF PaidUp
  <2> QED BY <1>1, <1>6, <2>1, InvFacts, CompletionStep
<1>19. LedgerFollowsBooks'
  <2>1. ASSUME KeepsMovements(contract'), NEW k \in Accounts
        PROVE  /\ ledger'[k].charge = Due(contract', inst', k)
               /\ ledger'[k].credit = paid'[k] /\ ledger'[k].discount = 0
    <3>1. /\ ledger[k].charge = Due(contract, inst, k)
          /\ ledger[k].credit = paid[k] /\ ledger[k].discount = 0
      BY <1>7, <2>1 DEF IInv, LedgerFollowsBooks, KeepsMovements
    <3>2. Due(contract', inst', k) = Due(contract, inst, k)
      BY <1>6, <1>7 DEF Due, Accounts
    <3>3. ledger'[k].credit = paid'[k]
      BY <1>5, <1>11, <2>1, <3>1
    <3> QED BY <1>11, <3>1, <3>2, <3>3
  <2>2. ASSUME KeepsMovements(contract'), NEW m \in Lines
        PROVE  inst'[m].left = Excess(inst'[m].amount, paid'[m])
    BY <1>6, <1>7, <1>8, <2>2 DEF KeepsMovements
  <2>3. ASSUME contract'.status \in {"draft", "discarded"} \/ contract'.kind # "definitive",
               NEW k \in Accounts
        PROVE  ledger'[k].charge = 0 /\ ledger'[k].credit = 0
    <3>1. ~KeepsMovements(contract') /\ ledger' = ledger
      BY <1>11, <2>3 DEF KeepsMovements
    <3> QED BY <1>7, <2>3, <3>1 DEF IInv, LedgerFollowsBooks
  <2> QED BY <2>1, <2>2, <2>3 DEF LedgerFollowsBooks
<1>20. OpenReceivableIsWorked'
  <2> SUFFICES ASSUME contract'.status = "active", contract'.kind = "definitive",
                      NEW m \in Lines, inst'[m].confirmed, inst'[m].left > 0
               PROVE  \E b \in DOMAIN tasks'[m] : tasks'[m][b] \in {"active", "cancelled"}
    BY DEF OpenReceivableIsWorked
  <2>1. contract.status = "active" /\ contract.kind = "definitive"
    BY <1>7
  <2>2. CASE m # l
    <3>1. inst[m].confirmed /\ inst[m].left > 0
      BY <1>6, <2>2
    <3>2. PICK b \in DOMAIN tasks[m] : tasks[m][b] \in {"active", "cancelled"}
      BY <2>1, <3>1 DEF IInv, OpenReceivableIsWorked
    <3> QED BY <1>4, <2>2, <3>2
  <2>3. CASE m = l
    <3>1. ~full
      <4> SUFFICES ASSUME full PROVE FALSE
        OBVIOUS
      <4>1. /\ inst[l].left = Excess(inst[l].amount, paid[l]) /\ inst[l].left \in Nat
            /\ inst[l].amount \in Nat
        BY <1>2, <2>1, InvFacts DEF IInv, RowsFollowPayments
      <4>2. inst'[l].left = Excess(inst[l].amount, paid[l] + amount)
        BY <1>2, <1>5, <1>8, <2>1
      <4>3. amount >= inst[l].left
        BY <1>1, <1>2, <1>5, <4>1
      <4> QED BY <1>5, <2>3, <4>1, <4>2, <4>3 DEF Excess
    <3>2. tasks' = WithTasks(t, inst', {l}) /\ l \in {l} /\ inst'[l].left > 0
      BY <1>1, <2>3, <3>1
    <3>3. \E b \in DOMAIN tasks'[l] : tasks'[l][b] = "active"
      BY <1>2, <1>3, <3>2, FollowUp
    <3> QED BY <2>3, <3>3
  <2> QED BY <2>2, <2>3
<1> QED BY <1>12, <1>13, <1>14, <1>15, <1>17, <1>18, <1>19, <1>20 DEF IInv

-----------------------------------------------------------------------------
(* The theorems.                                                           *)

LEMMA InitInv == Init => IInv
<1> SUFFICES ASSUME Init PROVE IInv
  OBVIOUS
<1>1. /\ contract \in Contract /\ contract.status = "draft" /\ device = FALSE
      /\ inst = [l \in Lines |-> NoRow] /\ paid = [k \in Accounts |-> 0]
      /\ ledger = [k \in Accounts |-> NoMovement] /\ tasks = [l \in Lines |-> <<>>]
      /\ call = [c \in Calls |-> Idle]
  BY FormSavesDraft DEF Init
<1>2. NoRow \in Instalment
  BY DEF NoRow, Instalment
<1>3. <<>> \in Seq(Attempt)
  OBVIOUS
<1>4. Typing
  BY <1>1, <1>2, <1>3 DEF Typing, NoMovement, Figures
<1>5. DeviceIsSold /\ RowsFollowPayments /\ PaidIsKept /\ ReadsAreHigh /\ DiscountsEndIt
  BY <1>1, AccountFacts
     DEF DeviceIsSold, RowsFollowPayments, PaidIsKept, ReadsAreHigh, DiscountsEndIt, NoRow,
         NoMovement, Idle
<1>6. LedgerFollowsBooks /\ CompletionFollowsPayment /\ OpenReceivableIsWorked
  BY <1>1 DEF LedgerFollowsBooks, KeepsMovements, NoMovement, CompletionFollowsPayment,
              OpenReceivableIsWorked
<1> QED BY <1>4, <1>5, <1>6 DEF IInv

\* The requests that only read, or are refused.
LEMMA ReadStep ==
    ASSUME IInv, NEW c \in Calls,
           \/ EditCheck(c) \/ CancelRead(c) \/ Abort(c)
           \/ \E l \in Lines, a \in 1..MaxAttempts : CollectRead(c, l, a)
    PROVE  IInv'
<1>1. DOMAIN call = Calls
  BY InvFacts
<1>2. CASE EditCheck(c)
  BY <1>1, <1>2, RestStep DEF EditCheck
<1>3. CASE CancelRead(c)
  BY <1>1, <1>3, RestStep DEF CancelRead
<1>4. CASE Abort(c)
  BY <1>1, <1>4, RestStep DEF Abort, Idle
<1>5. ASSUME NEW l \in Lines, NEW a \in 1..MaxAttempts, CollectRead(c, l, a) PROVE IInv'
  <2> DEFINE read == [op |-> "collect", line |-> l, attempt |-> a, before |-> inst[l].left]
  <2>1. /\ call' = [call EXCEPT ![c] = read] /\ inst[l].left > 0
        /\ UNCHANGED <<contract, device, inst, paid, ledger, tasks>>
    BY <1>5 DEF CollectRead
  <2>2. read.line = l /\ read.before = inst[l].left
    OBVIOUS
  <2> HIDE DEF read
  <2> QED BY <1>1, <2>1, <2>2, RestStep
<1> QED BY <1>2, <1>3, <1>4, <1>5

LEMMA NextInv == IInv /\ [Next]_vars => IInv'
<1> SUFFICES ASSUME IInv, [Next]_vars PROVE IInv'
  OBVIOUS
<1>1. CASE Drafting
  BY <1>1, ReadStep, EditWriteStep, SavePaymentsStep, SaveInstallmentsStep,
     ConfirmInstallmentsStep, RejectStep DEF Drafting
<1>2. CASE UNCHANGED vars
  BY <1>2, InvFacts, RestStep DEF vars
<1>3. CASE Selling
  <2>1. CASE Activate
    <3>1. UNCHANGED vars
      BY <2>1, ActivateChangesNothing
    <3> QED BY <3>1, InvFacts, RestStep DEF vars
  <2>2. CASE Approve
    BY <2>2, ApproveStep
  <2>3. ASSUME NEW cash \in BOOLEAN, NEW price \in Prices, NEW down \in Amounts \cup {0},
               NEW rows \in Schedules, Settle(cash, price, down, rows)
        PROVE  IInv'
    BY <2>3, SettleStep
  <2> QED BY <1>3, <2>1, <2>2, <2>3 DEF Selling
<1>4. CASE Ending
  BY <1>4, ReadStep, CancelWriteStep, RetrieveTrialDeviceStep DEF Ending
<1>5. CASE Collecting
  <2>1. CASE \E l \in Lines : CreateTask(l)
    BY <2>1, CreateTaskStep
  <2>2. CASE \E c \in Calls, l \in Lines, a \in 1..MaxAttempts : CollectRead(c, l, a)
    BY <2>2, ReadStep
  <2>3. CASE \E c \in Calls, amount \in Amounts, full \in BOOLEAN : CollectPayment(c, amount, full)
    BY <2>3, CollectPaymentStep
  <2>4. CASE \E c \in Calls, refused \in BOOLEAN : CollectNothing(c, refused)
    BY <2>4, CollectNothingStep
  <2> QED BY <1>5, <2>1, <2>2, <2>3, <2>4 DEF Collecting
<1>6. CASE \E c \in Calls : Abort(c)
  BY <1>6, ReadStep
<1> QED BY <1>1, <1>2, <1>3, <1>4, <1>5, <1>6 DEF Next

\* The inductive invariant holds in every state that is reached.
THEOREM Invariance == Spec => []IInv
BY InitInv, NextInv, PTL DEF Spec

\* The customer's movements are what the contract's rows and payments say, and so
\* are the balances of the instalments.
THEOREM LedgerHolds == Spec => []LedgerFollowsBooks
<1>1. IInv => LedgerFollowsBooks
  BY DEF IInv
<1> QED BY <1>1, Invariance, PTL

\* A contract is completed when it is paid, and not before.
THEOREM CompletionHolds == Spec => []CompletionFollowsPayment
<1>1. IInv => CompletionFollowsPayment
  BY DEF IInv
<1> QED BY <1>1, Invariance, PTL

\* What an active sale still has to be paid is being collected, or was refused.
THEOREM ReceivableHolds == Spec => []OpenReceivableIsWorked
<1>1. IInv => OpenReceivableIsWorked
  BY DEF IInv
<1> QED BY <1>1, Invariance, PTL

\* A step that leaves the contract as it is leaves it approved.
LEMMA SameContract == UNCHANGED contract => StaysApproved
BY DEF StaysApproved

LEMMA StepStaysApproved == IInv /\ [Next]_vars => StaysApproved
<1> SUFFICES ASSUME IInv, [Next]_vars PROVE StaysApproved
  OBVIOUS
<1>1. CASE Drafting
  <2>1. ASSUME NEW c \in Calls, NEW body \in Bodies, EditWrite(c, body)
        PROVE  StaysApproved
    <3>1. contract.status \in {"draft", "discarded"}
      BY <2>1, FormSavesDraft DEF EditWrite, BackToDraft, IInv, DeviceIsSold, Typing, Contract
    <3> QED BY <3>1 DEF StaysApproved
  <2>2. CASE Reject
    BY <2>2 DEF Reject, StaysApproved
  <2> QED BY <1>1, <2>1, <2>2, SameContract
          DEF Drafting, EditCheck, SavePayments, SaveInstallments, ConfirmInstallments
<1>2. CASE Selling
  <2>1. CASE Approve
    BY <2>1 DEF Approve, StaysApproved
  <2>2. CASE Activate
    <3>1. UNCHANGED contract
      BY <2>2, ActivateChangesNothing DEF vars
    <3> QED BY <3>1, SameContract
  <2>3. ASSUME NEW cash \in BOOLEAN, NEW price \in Prices, NEW down \in Amounts \cup {0},
               NEW rows \in Schedules, Settle(cash, price, down, rows)
        PROVE  StaysApproved
    <3>1. contract.status = "active"
      BY <2>3 DEF Settle
    <3>2. contract'.status \in {"active", "completed"}
      <4> DEFINE sale == [contract EXCEPT !.kind = "definitive", !.cash = cash, !.price = price]
      <4>1. contract' = sale \/ contract' = Completed(sale, inst, paid')
        BY <2>3 DEF Settle
      <4>2. sale \in Contract
        <5>1. contract \in Contract
          BY InvFacts
        <5>2. price \in Prices \cup {0}
          OBVIOUS
        <5> QED BY <5>1, <5>2, ZenonT(60) DEF Contract
      <4>3. sale.status = "active"
        BY <3>1, InvFacts DEF Contract
      <4> HIDE DEF sale
      <4> QED BY <4>1, <4>2, <4>3, CompletedContract
    <3> QED BY <3>1, <3>2 DEF StaysApproved
  <2> QED BY <1>2, <2>1, <2>2, <2>3 DEF Selling
<1>3. CASE Ending
  <2>1. ASSUME contract.status = "active", contract' = [contract EXCEPT !.status = "cancelled"]
        PROVE  StaysApproved
    <3>1. contract'.status = "cancelled"
      BY <2>1, InvFacts DEF Contract
    <3> QED BY <2>1, <3>1 DEF StaysApproved
  <2>2. ASSUME NEW c \in Calls, CancelRead(c) PROVE StaysApproved
    BY <2>2, SameContract DEF CancelRead
  <2>3. ASSUME NEW c \in Calls, CancelWrite(c) PROVE StaysApproved
    BY <2>1, <2>3 DEF CancelWrite
  <2>4. CASE RetrieveTrialDevice
    BY <2>1, <2>4 DEF RetrieveTrialDevice
  <2> QED BY <1>3, <2>2, <2>3, <2>4 DEF Ending
<1>4. CASE Collecting
  <2>1. ASSUME NEW c \in Calls, NEW amount \in Amounts, NEW full \in BOOLEAN,
               CollectPayment(c, amount, full)
        PROVE  StaysApproved
    <3>1. contract' = Completed(contract, inst', paid') /\ contract \in Contract
      BY <2>1, InvFacts DEF CollectPayment
    <3>2. \/ contract'.status = contract.status
          \/ contract.status = "active" /\ contract'.status = "completed"
      BY <3>1, CompletedContract
    <3> QED BY <3>2 DEF StaysApproved
  <2> QED BY <1>4, <2>1, SameContract DEF Collecting, CreateTask, CollectRead, CollectNothing
<1>5. CASE (\E c \in Calls : Abort(c)) \/ UNCHANGED vars
  BY <1>5, SameContract DEF Abort, vars
<1> QED BY <1>1, <1>2, <1>3, <1>4, <1>5 DEF Next

\* While clients save drafts, as the form does: a contract that was approved stays so,
\* although a draft may be written that was checked before the approval; completed and
\* cancelled are final.
THEOREM ApprovalHolds == Spec => ApprovedIsFinal
<1>1. IInv /\ [Next]_vars => [StaysApproved]_vars
  BY StepStaysApproved
<1> QED BY <1>1, Invariance, PTL DEF Spec, ApprovedIsFinal

-----------------------------------------------------------------------------
(* Of every client, whatever it sends: here FormAssumption is not used.     *)

\* What has a device is no draft.
SoldIsNoDraft == contract \in Contract /\ (device => contract.status # "draft")

LEMMA StatusChanged ==
    ASSUME NEW c \in Contract,
           NEW s \in {"draft", "active", "completed", "cancelled", "discarded"}
    PROVE  [c EXCEPT !.status = s] \in Contract /\ [c EXCEPT !.status = s].status = s
BY DEF Contract

\* What a step evaluates for completion is, or was, active.
LEMMA ActivatedIsNoDraft ==
    ASSUME SoldIsNoDraft, NEW ACTION i, NEW ACTION p,
           contract' = Completed([contract EXCEPT !.status = "active"], i, p)
    PROVE  SoldIsNoDraft'
<1> DEFINE sold == [contract EXCEPT !.status = "active"]
<1>1. sold \in Contract /\ sold.status = "active" /\ contract' = Completed(sold, i, p)
  BY StatusChanged DEF SoldIsNoDraft
<1> HIDE DEF sold
<1>2. contract' \in Contract /\ contract'.status \in {"active", "completed"}
  BY <1>1, CompletedContract
<1> QED BY <1>2 DEF SoldIsNoDraft

LEMMA SettledIsNoDraft ==
    ASSUME SoldIsNoDraft, NEW cash \in BOOLEAN, NEW price \in Prices,
           NEW down \in Amounts \cup {0}, NEW rows \in Schedules, Settle(cash, price, down, rows)
    PROVE  SoldIsNoDraft'
<1> DEFINE sale == [contract EXCEPT !.kind = "definitive", !.cash = cash, !.price = price]
<1>1. contract.status = "active" /\ (contract' = sale \/ contract' = Completed(sale, inst, paid'))
  BY DEF Settle
<1>2. sale \in Contract
  <2>1. contract \in Contract /\ price \in Prices \cup {0}
    BY DEF SoldIsNoDraft
  <2> QED BY <2>1, ZenonT(60) DEF Contract
<1>3. sale.status = "active"
  BY <1>1 DEF SoldIsNoDraft, Contract
<1> HIDE DEF sale
<1>4. contract' \in Contract /\ contract'.status \in {"active", "completed"}
  BY <1>1, <1>2, <1>3, CompletedContract
<1> QED BY <1>4 DEF SoldIsNoDraft

\* Only an approval makes a device.
LEMMA SoldStep == SoldIsNoDraft /\ [Next]_vars => SoldIsNoDraft'
<1> SUFFICES ASSUME SoldIsNoDraft, [Next]_vars PROVE SoldIsNoDraft'
  OBVIOUS
<1>1. ASSUME UNCHANGED <<contract, device>> PROVE SoldIsNoDraft'
  BY <1>1 DEF SoldIsNoDraft
<1>2. ASSUME UNCHANGED device, NEW s \in {"cancelled", "discarded"},
             contract' = [contract EXCEPT !.status = s]
      PROVE  SoldIsNoDraft'
  <2>1. contract' \in Contract /\ contract'.status = s
    BY <1>2, StatusChanged DEF SoldIsNoDraft
  <2> QED BY <2>1 DEF SoldIsNoDraft
<1>3. CASE Drafting
  <2>1. ASSUME NEW c \in Calls, NEW body \in Bodies, EditWrite(c, body) PROVE SoldIsNoDraft'
    <3>1. contract' = Written(body) /\ UNCHANGED device
          /\ (contract'.status = "draft" => ~device \/ contract.status = "draft")
      BY <2>1 DEF EditWrite, BackToDraft
    <3>2. Written(body) \in Contract
      BY WrittenStatus, LedgerAssumption
    <3> QED BY <3>1, <3>2 DEF SoldIsNoDraft
  <2>2. CASE Reject
    BY <1>2, <2>2 DEF Reject
  <2> QED BY <1>1, <1>3, <2>1, <2>2
          DEF Drafting, EditCheck, SavePayments, SaveInstallments, ConfirmInstallments
<1>4. CASE Selling
  <2>1. CASE Approve
    BY <2>1, ActivatedIsNoDraft DEF Approve
  <2>2. CASE Activate
    <3>1. CASE contract.status = "active"
      BY <1>1, <2>2, <3>1 DEF Activate
    <3>2. CASE contract.status # "active"
      BY <2>2, <3>2, ActivatedIsNoDraft DEF Activate
    <3> QED BY <3>1, <3>2
  <2> QED BY <1>4, <2>1, <2>2, SettledIsNoDraft DEF Selling
<1>5. CASE Ending
  BY <1>1, <1>2, <1>5 DEF Ending, CancelRead, CancelWrite, RetrieveTrialDevice
<1>6. CASE Collecting
  <2>1. ASSUME NEW c \in Calls, NEW amount \in Amounts, NEW full \in BOOLEAN,
               CollectPayment(c, amount, full)
        PROVE  SoldIsNoDraft'
    <3>1. contract' = Completed(contract, inst', paid') /\ contract \in Contract
          /\ UNCHANGED device
      BY <2>1 DEF CollectPayment, SoldIsNoDraft
    <3>2. contract' \in Contract /\ contract'.status \in {contract.status, "completed"}
      BY <3>1, CompletedContract
    <3> QED BY <3>1, <3>2 DEF SoldIsNoDraft
  <2> QED BY <1>1, <1>6, <2>1 DEF Collecting, CreateTask, CollectRead, CollectNothing
<1>7. CASE (\E c \in Calls : Abort(c)) \/ UNCHANGED vars
  BY <1>1, <1>7 DEF Abort, vars
<1> QED BY <1>3, <1>4, <1>5, <1>6, <1>7 DEF Next

\* A contract is approved once, whatever status and price an edit checked before the
\* approval writes after it.
THEOREM ApprovalIsOnce == Spec => ApprovedOnce
<1>1. Init => SoldIsNoDraft
  BY WrittenStatus, LedgerAssumption DEF Init, SoldIsNoDraft
<1>2. SoldIsNoDraft => [Approve => ~device]_vars
  BY DEF SoldIsNoDraft, Approve
<1> QED BY <1>1, <1>2, SoldStep, PTL DEF Spec, ApprovedOnce

-----------------------------------------------------------------------------
(* The amounts.  The sums are numbers, a cancellation under way has read the *)
(* sums its contract still has unless signing was settled in between, and an *)
(* approved sale by instalments schedules no more than its price.            *)

Movement == [charge : Nat, credit : Nat, discount : Nat]
Numbers == ledger \in [Accounts -> Movement] /\ call \in [Calls -> Call]

\* A trial may be settled while its cancellation has read the trial's sums; it is
\* then a sale that owes nothing on signing.
ReadsCoverSigning ==
    \A c \in Calls :
      call[c].op = "cancel" =>
        /\ device
        /\ contract.status = "active" /\ contract.kind = "definitive" =>
             \/ call[c].total = Scheduled(inst) /\ call[c].signing = paid[Signing]
             \/ ledger[Signing].charge <= ledger[Signing].credit

ScheduleWithinPrice ==
    contract.status \in {"active", "completed", "cancelled"} /\ contract.kind = "definitive" =>
      contract.cash \/ Scheduled(inst) <= contract.price

MInv == /\ IInv /\ Numbers /\ ReadsCoverSigning /\ ScheduleWithinPrice
        /\ CancelledOwesNothing /\ ChargedIsPrice

LEMMA ScheduledNat == ASSUME NEW i \in [Lines -> Instalment] PROVE Scheduled(i) \in Nat
<1>1. [l \in Lines |-> i[l].amount] \in [Lines -> Nat]
  BY RowFacts
<1> QED BY <1>1, TotalNat, LedgerAssumption DEF Scheduled

LEMMA LeftNat ==
    ASSUME NEW i \in [Lines -> Instalment]
    PROVE  Total([l \in Lines |-> i[l].left]) \in Nat
<1>1. [l \in Lines |-> i[l].left] \in [Lines -> Nat]
  BY RowFacts
<1> QED BY <1>1, TotalNat, LedgerAssumption

LEMMA ContractFacts ==
    ASSUME NEW c \in Contract
    PROVE  /\ c.price \in Nat /\ c.cash \in BOOLEAN
           /\ c.status \in {"draft", "active", "completed", "cancelled", "discarded"}
           /\ c.kind \in {"definitive", "temporary", "free"}
<1>1. Prices \cup {0} \subseteq Nat
  BY LedgerAssumption
<1> QED BY <1>1 DEF Contract

LEMMA DueNat ==
    ASSUME NEW c \in Contract, NEW i \in [Lines -> Instalment], NEW k \in Accounts
    PROVE  Due(c, i, k) \in Nat
<1>1. c.price \in Nat /\ Scheduled(i) \in Nat
  BY ContractFacts, ScheduledNat
<1>2. CASE k = Signing
  BY <1>1, <1>2, ExcessFacts DEF Due
<1>3. CASE k # Signing
  BY <1>3, RowFacts DEF Due, Accounts
<1> QED BY <1>2, <1>3

LEMMA TotalOfAccounts ==
    ASSUME NEW all \in [Accounts -> Nat], NEW rows \in [Lines -> Nat],
           \A l \in Lines : rows[l] = all[l]
    PROVE  Total(all) = all[Signing] + Total(rows)
<1>1. IsFiniteSet(Lines) /\ Signing \notin Lines /\ all \in [Lines \cup {Signing} -> Nat]
  BY LedgerAssumption DEF Accounts
<1> QED BY <1>1, TotalWith

\* The charges of a sale that has its movements sum to its price, or to a schedule
\* beyond it.
LEMMA ChargesSum ==
    ASSUME NEW c \in Contract, NEW i \in [Lines -> Instalment], NEW g \in [Accounts -> Movement],
           \A k \in Accounts : g[k].charge = Due(c, i, k)
    PROVE  \/ Total([k \in Accounts |-> g[k].charge]) = c.price
           \/ Scheduled(i) > c.price
<1> DEFINE all == [k \in Accounts |-> g[k].charge]
           rows == [l \in Lines |-> i[l].amount]
<1>1. all \in [Accounts -> Nat]
  BY DEF Movement
<1>2. rows \in [Lines -> Nat]
  BY RowFacts
<1>3. ASSUME NEW l \in Lines PROVE rows[l] = all[l]
  <2>1. l \in Accounts /\ l # Signing
    BY AccountFacts
  <2> QED BY <2>1 DEF Due
<1>4. all[Signing] = Excess(c.price, Scheduled(i))
  BY AccountFacts DEF Due
<1>5. Total(all) = all[Signing] + Scheduled(i)
  <2> HIDE DEF all, rows
  <2>1. Total(all) = all[Signing] + Total(rows)
    BY <1>1, <1>2, <1>3, TotalOfAccounts
  <2> QED BY <2>1 DEF Scheduled, rows
<1>6. c.price \in Nat /\ Scheduled(i) \in Nat
  BY ContractFacts, ScheduledNat
<1> HIDE DEF all
<1>7. Total(all) = c.price \/ Scheduled(i) > c.price
  BY <1>4, <1>5, <1>6 DEF Excess
<1> QED BY <1>7 DEF all

LEMMA SyncedNumbers ==
    ASSUME NEW c \in Contract, NEW i \in [Lines -> Instalment], NEW p \in [Accounts -> Nat],
           NEW g \in [Accounts -> Movement]
    PROVE  Synced(c, i, p, g) \in [Accounts -> Movement]
<1>1. ASSUME NEW k \in Accounts
      PROVE  [g[k] EXCEPT !.charge = IF @ = 0 THEN Due(c, i, k) ELSE @, !.credit = p[k]] \in Movement
  <2>1. g[k] \in Movement /\ Due(c, i, k) \in Nat /\ p[k] \in Nat
    BY DueNat
  <2>2. (IF g[k].charge = 0 THEN Due(c, i, k) ELSE g[k].charge) \in Nat
    BY <2>1 DEF Movement
  <2> QED BY <2>1, <2>2 DEF Movement
<1> QED BY <1>1 DEF Synced

-----------------------------------------------------------------------------
(* What the steps do to the amounts.                                       *)

LEMMA MFacts ==
    ASSUME MInv
    PROVE  /\ IInv /\ ledger \in [Accounts -> Movement] /\ call \in [Calls -> Call]
           /\ contract \in Contract /\ contract.price \in Nat /\ contract.cash \in BOOLEAN
           /\ inst \in [Lines -> Instalment] /\ paid \in [Accounts -> Nat]
           /\ Scheduled(inst) \in Nat
BY InvFacts, ContractFacts, ScheduledNat DEF MInv, Numbers

\* A step that moves no money; a cancellation reads the sums as they are.
LEMMA QuietStep ==
    ASSUME MInv, IInv', UNCHANGED <<contract, device, inst, paid, ledger>>,
           call' \in [Calls -> Call],
           \A c \in Calls : call'[c].op = "cancel" =>
             \/ call'[c] = call[c]
             \/ /\ device
                /\ call'[c].total = Scheduled(inst) /\ call'[c].signing = paid[Signing]
    PROVE  MInv'
<1>1. Numbers' /\ ReadsCoverSigning'
  BY DEF MInv, Numbers, ReadsCoverSigning
<1>2. ScheduleWithinPrice' /\ CancelledOwesNothing' /\ ChargedIsPrice'
  BY DEF MInv, ScheduleWithinPrice, CancelledOwesNothing, ChargedIsPrice
<1> QED BY <1>1, <1>2 DEF MInv

\* A step before the approval.
LEMMA UnapprovedStep ==
    ASSUME MInv, IInv', ~device, contract'.status \in {"draft", "discarded"}, UNCHANGED ledger,
           call' \in [Calls -> Call],
           \A c \in Calls : call'[c].op = "cancel" => call'[c] = call[c]
    PROVE  MInv'
<1>1. Numbers' /\ ReadsCoverSigning'
  BY DEF MInv, Numbers, ReadsCoverSigning
<1>2. ScheduleWithinPrice' /\ CancelledOwesNothing' /\ ChargedIsPrice'
  BY DEF ScheduleWithinPrice, CancelledOwesNothing, ChargedIsPrice
<1> QED BY <1>1, <1>2 DEF MInv

LEMMA UnapprovedHasNoDevice == IInv /\ contract.status \in {"draft", "discarded"} => ~device
BY DEF IInv, DeviceIsSold

\* The steps of a draft, which has no device and is in no cancellation.
LEMMA DraftingMoney ==
    ASSUME MInv, IInv', Drafting
    PROVE  MInv'
<1>1. call \in [Calls -> Call] /\ Idle \in Call /\ [op |-> "edit"] \in Call
  BY MFacts DEF Call
<1>2. ASSUME NEW c \in Calls, EditCheck(c) PROVE MInv'
  <2>1. /\ UNCHANGED <<contract, device, inst, paid, ledger>>
        /\ call' = [call EXCEPT ![c] = [op |-> "edit"]]
    BY <1>2 DEF EditCheck
  <2>2. call' \in [Calls -> Call]
    BY <1>1, <2>1
  <2>3. \A d \in Calls : call'[d].op = "cancel" => call'[d] = call[d]
    BY <1>1, <2>1
  <2> QED BY <2>1, <2>2, <2>3, QuietStep
<1>3. ASSUME NEW c \in Calls, NEW body \in Bodies, EditWrite(c, body) PROVE MInv'
  <2>1. ~device
    BY <1>3, FormSavesDraft, UnapprovedHasNoDevice DEF EditWrite, BackToDraft, MInv
  <2>2. /\ contract'.status \in {"draft", "discarded"} /\ UNCHANGED ledger
        /\ call' = [call EXCEPT ![c] = Idle]
    BY <1>3, FormSavesDraft DEF EditWrite
  <2>3. call' \in [Calls -> Call] /\ \A d \in Calls : call'[d].op = "cancel" => call'[d] = call[d]
    BY <1>1, <2>2 DEF Idle
  <2> QED BY <2>1, <2>2, <2>3, UnapprovedStep
<1>4. ASSUME contract.status = "draft", contract'.status \in {"draft", "discarded"},
             UNCHANGED <<ledger, call>>
      PROVE  MInv'
  BY <1>1, <1>4, UnapprovedHasNoDevice, UnapprovedStep DEF MInv
<1>5. Reject => contract'.status = "discarded"
  BY MFacts DEF Reject, Contract
<1>6. (\/ \E amount \in Amounts \cup Prices \cup {0} : SavePayments(amount)
       \/ \E rows \in Schedules : SaveInstallments(rows)
       \/ ConfirmInstallments
       \/ Reject)
      => /\ contract.status = "draft" /\ contract'.status \in {"draft", "discarded"}
         /\ UNCHANGED <<ledger, call>>
  BY <1>5 DEF SavePayments, SaveInstallments, ConfirmInstallments, Reject
<1> QED BY <1>2, <1>3, <1>4, <1>6 DEF Drafting

\* A step that makes a sale of what has no movements.
LEMMA SaleStep ==
    ASSUME MInv, IInv', contract' \in Contract, inst' \in [Lines -> Instalment],
           contract'.status \in {"active", "completed"},
           ledger' = Synced(contract', inst', paid', ledger), UNCHANGED call,
           contract'.kind = "definitive" => contract'.cash \/ Scheduled(inst') <= contract'.price,
           ReadsCoverSigning'
    PROVE  MInv'
<1>1. paid' \in [Accounts -> Nat]
  BY DEF IInv, Typing
<1>2. Numbers'
  BY <1>1, SyncedNumbers, MFacts DEF Numbers, MInv
<1>3. ScheduleWithinPrice' /\ CancelledOwesNothing'
  BY DEF ScheduleWithinPrice, CancelledOwesNothing
<1>4. ChargedIsPrice'
  <2> SUFFICES ASSUME contract'.kind = "definitive"
               PROVE  \/ Total([k \in Accounts |-> ledger'[k].charge]) = contract'.price
                      \/ contract'.cash /\ Scheduled(inst') > contract'.price
    BY DEF ChargedIsPrice
  <2>1. \A k \in Accounts : ledger'[k].charge = Due(contract', inst', k)
    BY DEF KeepsMovements, IInv, LedgerFollowsBooks
  <2>2. ledger' \in [Accounts -> Movement]
    BY <1>2 DEF Numbers
  <2>3. Scheduled(inst') > contract'.price => contract'.cash
    BY ScheduledNat, ContractFacts
  <2> QED BY <2>1, <2>2, <2>3, ChargesSum
<1> QED BY <1>2, <1>3, <1>4 DEF MInv

LEMMA ApproveMoney ==
    ASSUME MInv, IInv', Approve
    PROVE  MInv'
<1> DEFINE c == [contract EXCEPT !.status = "active"]
<1>1. /\ contract.status = "draft" /\ Approvable(contract, inst, paid)
      /\ inst' = Balanced(inst, paid, Lines) /\ contract' = Completed(c, inst', paid)
      /\ ledger' = Synced(contract', inst', paid', ledger) /\ UNCHANGED <<paid, call>>
  BY DEF Approve
<1>2. contract \in Contract /\ inst \in [Lines -> Instalment] /\ paid \in [Accounts -> Nat]
  BY MFacts
<1>3. /\ c \in Contract /\ c.status = "active" /\ c.kind = contract.kind /\ c.cash = contract.cash
      /\ c.price = contract.price
  BY <1>2 DEF Contract
<1> HIDE DEF c
<1>4. /\ contract' \in Contract /\ contract'.status \in {"active", "completed"}
      /\ contract'.kind = contract.kind /\ contract'.cash = contract.cash
      /\ contract'.price = contract.price
  BY <1>1, <1>3, CompletedContract
<1>5. inst' \in [Lines -> Instalment] /\ Scheduled(inst') = Scheduled(inst)
  BY <1>1, <1>2, BalancedRows
<1>6. contract'.kind = "definitive" => contract'.cash \/ Scheduled(inst') <= contract'.price
  <2>1. Total(paid) \in Nat
    <3>1. IsFiniteSet(Accounts)
      BY LedgerAssumption, FS_AddElement DEF Accounts
    <3> QED BY <1>2, <3>1, TotalNat
  <2>2. Scheduled(inst) \in Nat /\ contract.price \in Nat
    BY MFacts
  <2>3. contract.kind = "definitive" /\ ~contract.cash => Total(paid) + Scheduled(inst) = contract.price
    BY <1>1 DEF Approvable
  <2> QED BY <1>4, <1>5, <2>1, <2>2, <2>3
<1>7. ReadsCoverSigning'
  <2>1. ~device
    BY <1>1, UnapprovedHasNoDevice DEF MInv
  <2> QED BY <1>1, <2>1 DEF MInv, ReadsCoverSigning
<1> QED BY <1>1, <1>4, <1>5, <1>6, <1>7, SaleStep

LEMMA SettleMoney ==
    ASSUME MInv, IInv', NEW cash \in BOOLEAN, NEW price \in Prices, NEW down \in Amounts \cup {0},
           NEW rows \in Schedules, Settle(cash, price, down, rows)
    PROVE  MInv'
<1> DEFINE sale == [contract EXCEPT !.kind = "definitive", !.cash = cash, !.price = price]
           signing == IF cash THEN price ELSE down
<1>1. /\ contract.status = "active" /\ inst' = rows
      /\ IF cash THEN down = 0 ELSE down + Scheduled(rows) = price
      /\ paid' = [paid EXCEPT ![Signing] = signing]
      /\ contract' = IF signing > 0 THEN Completed(sale, inst, paid') ELSE sale
      /\ ledger' = Synced(contract', inst', paid', ledger)
      /\ UNCHANGED <<device, call>>
  BY DEF Settle
<1>2. contract \in Contract /\ paid \in [Accounts -> Nat]
  BY MFacts
<1>3. /\ sale \in Contract /\ sale.status = "active" /\ sale.kind = "definitive"
      /\ sale.cash = cash /\ sale.price = price
  <2>1. sale \in Contract
    BY <1>2, ZenonT(60) DEF Contract
  <2> QED BY <1>1, <1>2, <2>1 DEF Contract
<1>4. price \in Nat /\ down \in Nat /\ paid'[Signing] = signing
  BY <1>1, <1>2, AccountFacts, LedgerAssumption
<1> HIDE DEF sale
<1>5. /\ contract' \in Contract /\ contract'.kind = "definitive" /\ contract'.cash = cash
      /\ contract'.price = price /\ contract'.status \in {"active", "completed"}
  BY <1>1, <1>3, CompletedContract
<1>6. inst' \in [Lines -> Instalment] /\ Scheduled(inst') \in Nat
  BY <1>1, NewRow, ScheduledNat
<1>7. contract'.cash \/ Scheduled(inst') <= contract'.price
  BY <1>1, <1>4, <1>5, <1>6
<1>8. ledger'[Signing].charge <= ledger'[Signing].credit
  <2>1. KeepsMovements(contract')
    BY <1>5 DEF KeepsMovements
  <2>2. ledger'[Signing].charge = Excess(price, Scheduled(inst')) /\ ledger'[Signing].credit = signing
    BY <1>4, <1>5, <2>1, AccountFacts DEF IInv, LedgerFollowsBooks, Due
  <2> QED BY <1>1, <1>4, <1>6, <2>2 DEF Excess
<1>9. ReadsCoverSigning'
  BY <1>1, <1>8 DEF MInv, ReadsCoverSigning
<1> QED BY <1>1, <1>5, <1>6, <1>7, <1>9, SaleStep

\* A step that leaves what is charged, and what the sale is, as it was.
LEMMA ChargesStay ==
    ASSUME MInv, contract'.kind = contract.kind, contract'.cash = contract.cash,
           contract'.price = contract.price, Scheduled(inst') = Scheduled(inst),
           contract'.status \in {"active", "completed", "cancelled"} =>
             contract.status \in {"active", "completed", "cancelled"},
           \A k \in Accounts : ledger'[k].charge = ledger[k].charge
    PROVE  ScheduleWithinPrice' /\ ChargedIsPrice'
<1>1. [k \in Accounts |-> ledger'[k].charge] = [k \in Accounts |-> ledger[k].charge]
  OBVIOUS
<1>2. ScheduleWithinPrice'
  BY DEF MInv, ScheduleWithinPrice
<1>3. ChargedIsPrice'
  <2> SUFFICES ASSUME contract'.status \in {"active", "completed", "cancelled"},
                      contract'.kind = "definitive"
               PROVE  \/ Total([k \in Accounts |-> ledger'[k].charge]) = contract'.price
                      \/ contract'.cash /\ Scheduled(inst') > contract'.price
    BY DEF ChargedIsPrice
  <2>1. \/ Total([k \in Accounts |-> ledger[k].charge]) = contract.price
        \/ contract.cash /\ Scheduled(inst) > contract.price
    BY DEF MInv, ChargedIsPrice
  <2> QED BY <1>1, <2>1
<1> QED BY <1>2, <1>3

\* What is discounted covers what a sale still owes.
LEMMA DiscountCovers ==
    ASSUME NEW a \in Nat, NEW b \in Nat, NEW p \in Nat
    PROVE  /\ a <= p + Excess(a, p)
           /\ Excess(a, b) <= p + Excess(a, b + p)
BY DEF Excess

LEMMA DiscountedNumbers ==
    ASSUME MInv, NEW read, read \in Call, read.op = "cancel", NEW k \in Accounts
    PROVE  /\ Discounted(read) \in [Accounts -> Movement]
           /\ Discounted(read)[k].charge = ledger[k].charge
           /\ Discounted(read)[k].credit = ledger[k].credit
           /\ contract.kind = "temporary" => Discounted(read) = ledger
           /\ contract.kind # "temporary" /\ ledger[k].discount = 0 =>
                Discounted(read)[k].discount =
                  IF k = Signing THEN Excess(contract.price, read.total + read.signing)
                                 ELSE inst[k].left
<1> DEFINE rest(m) == IF m = Signing THEN Excess(contract.price, read.total + read.signing)
                                    ELSE inst[m].left
           row(m) == [ledger[m] EXCEPT !.discount = IF @ # 0 THEN @ ELSE rest(m)]
<1>1. read.total \in Nat /\ read.signing \in Nat
  BY DEF Call, Idle
<1>2. ASSUME NEW m \in Accounts PROVE rest(m) \in Nat
  <2>1. CASE m = Signing
    <3>1. read.total + read.signing \in Nat /\ contract.price \in Nat
      BY <1>1, MFacts
    <3> QED BY <2>1, <3>1, ExcessFacts
  <2>2. CASE m # Signing
    BY <2>2, MFacts, RowFacts DEF Accounts
  <2> QED BY <2>1, <2>2
<1>3. ledger \in [Accounts -> Movement]
  BY MFacts
<1>4. ASSUME NEW m \in Accounts
      PROVE  /\ row(m) \in Movement
             /\ row(m).charge = ledger[m].charge /\ row(m).credit = ledger[m].credit
             /\ ledger[m].discount = 0 => row(m).discount = rest(m)
  <2>1. ledger[m] \in Movement /\ rest(m) \in Nat
    BY <1>2, <1>3
  <2> HIDE DEF rest
  <2>2. (IF ledger[m].discount # 0 THEN ledger[m].discount ELSE rest(m)) \in Nat
    BY <2>1 DEF Movement
  <2> QED BY <2>1, <2>2 DEF Movement
<1>5. Discounted(read) = IF contract.kind = "temporary" THEN ledger
                         ELSE [m \in Accounts |-> row(m)]
  BY DEF Discounted
<1>6. CASE contract.kind = "temporary"
  BY <1>3, <1>5, <1>6
<1>7. CASE contract.kind # "temporary"
  <2> HIDE DEF row
  <2>1. Discounted(read) = [m \in Accounts |-> row(m)]
    BY <1>5, <1>7
  <2> QED BY <1>4, <1>7, <2>1
<1> QED BY <1>6, <1>7

LEMMA CancelMoney ==
    ASSUME MInv, IInv', NEW c \in Calls, CancelWrite(c)
    PROVE  MInv'
<1> DEFINE read == call[c]
<1>1. /\ read.op = "cancel" /\ contract.status = "active"
      /\ contract' = [contract EXCEPT !.status = "cancelled"]
      /\ ledger' = Discounted(read) /\ call' = [call EXCEPT ![c] = Idle]
      /\ UNCHANGED <<device, inst, paid>>
  BY DEF CancelWrite
<1>2. read \in Call /\ read.total \in Nat /\ read.signing \in Nat
  <2>1. read \in Call
    BY MFacts
  <2> HIDE DEF read
  <2> QED BY <1>1, <2>1 DEF Call, Idle
<1>3. /\ contract'.status = "cancelled" /\ contract'.kind = contract.kind
      /\ contract'.cash = contract.cash /\ contract'.price = contract.price
  BY <1>1, MFacts DEF Contract
<1>4. ledger' \in [Accounts -> Movement]
  <2>1. Signing \in Accounts
    BY AccountFacts
  <2> QED BY <1>1, <1>2, <2>1, DiscountedNumbers
<1>5. ASSUME NEW k \in Accounts
      PROVE  /\ ledger'[k].charge = ledger[k].charge /\ ledger'[k].credit = ledger[k].credit
             /\ ledger[k].charge \in Nat /\ ledger[k].credit \in Nat /\ ledger'[k].discount \in Nat
  <2>1. ledger[k] \in Movement /\ ledger'[k] \in Movement
    BY <1>4, MFacts
  <2> QED BY <1>1, <1>2, <2>1, DiscountedNumbers DEF Movement
<1>6. call' \in [Calls -> Call] /\ \A d \in Calls : call'[d].op = "cancel" => call'[d] = call[d]
  BY <1>1, MFacts DEF Call, Idle
<1>7. Numbers' /\ ReadsCoverSigning'
  BY <1>1, <1>3, <1>4, <1>6 DEF MInv, Numbers, ReadsCoverSigning
<1>8. ScheduleWithinPrice' /\ ChargedIsPrice'
  BY <1>1, <1>3, <1>5, ChargesStay
<1>9. CancelledOwesNothing'
  <2> SUFFICES ASSUME NEW k \in Accounts
               PROVE  ledger[k].charge <= ledger[k].credit + ledger'[k].discount
    BY <1>5 DEF CancelledOwesNothing
  <2>1. CASE contract.kind # "definitive"
    <3>1. ledger[k].charge = 0
      BY <2>1 DEF MInv, IInv, LedgerFollowsBooks
    <3> QED BY <1>5, <3>1
  <2>2. CASE contract.kind = "definitive"
    <3>1. /\ ledger[k].charge = Due(contract, inst, k) /\ ledger[k].credit = paid[k]
          /\ ledger[k].discount = 0
          /\ \A l \in Lines : inst[l].left = Excess(inst[l].amount, paid[l])
      BY <1>1, <2>2 DEF MInv, IInv, LedgerFollowsBooks, KeepsMovements
    <3>2. ledger'[k].discount = IF k = Signing
                                THEN Excess(contract.price, read.total + read.signing)
                                ELSE inst[k].left
      BY <1>1, <1>2, <2>2, <3>1, DiscountedNumbers
    <3>3. CASE k # Signing
      <4>1. k \in Lines /\ inst[k].amount \in Nat /\ paid[k] \in Nat
        BY <3>3, MFacts, RowFacts DEF Accounts
      <4> QED BY <3>1, <3>2, <3>3, <4>1, DiscountCovers DEF Due
    <3>4. CASE k = Signing
      <4>1. \/ read.total = Scheduled(inst) /\ read.signing = paid[k]
            \/ ledger[k].charge <= ledger[k].credit
        BY <1>1, <2>2, <3>4 DEF MInv, ReadsCoverSigning
      <4>2. Scheduled(inst) \in Nat /\ contract.price \in Nat /\ paid[k] \in Nat
        BY MFacts
      <4>3. CASE ledger[k].charge <= ledger[k].credit
        BY <1>5, <4>3
      <4>4. CASE read.total = Scheduled(inst) /\ read.signing = paid[k]
        <5>1. ledger[k].charge = Excess(contract.price, Scheduled(inst))
              /\ ledger'[k].discount = Excess(contract.price, Scheduled(inst) + paid[k])
          BY <3>1, <3>2, <3>4, <4>4 DEF Due
        <5> QED BY <3>1, <4>2, <5>1, DiscountCovers
      <4> QED BY <4>1, <4>3, <4>4
    <3> QED BY <3>3, <3>4
  <2> QED BY <2>1, <2>2
<1> QED BY <1>7, <1>8, <1>9 DEF MInv

LEMMA RetrieveMoney ==
    ASSUME MInv, IInv', RetrieveTrialDevice
    PROVE  MInv'
<1>1. /\ contract.status = "active" /\ contract.kind = "temporary"
      /\ contract' = [contract EXCEPT !.status = "cancelled"]
      /\ UNCHANGED <<device, inst, paid, ledger, tasks, call>>
  BY DEF RetrieveTrialDevice
<1>2. contract'.status = "cancelled" /\ contract'.kind = "temporary"
  BY <1>1, MFacts DEF Contract
<1>3. Numbers' /\ ReadsCoverSigning' /\ ScheduleWithinPrice' /\ ChargedIsPrice'
  BY <1>1, <1>2 DEF MInv, Numbers, ReadsCoverSigning, ScheduleWithinPrice, ChargedIsPrice
<1>4. ASSUME NEW k \in Accounts
      PROVE  ledger'[k].charge <= ledger'[k].credit + ledger'[k].discount
  <2>1. ledger[k].charge = 0 /\ ledger[k].credit \in Nat /\ ledger[k].discount \in Nat
    BY <1>1, MFacts DEF MInv, IInv, LedgerFollowsBooks, Movement
  <2> QED BY <1>1, <2>1
<1> QED BY <1>3, <1>4 DEF MInv, CancelledOwesNothing

LEMMA CreditedNumbers ==
    ASSUME NEW g \in [Accounts -> Movement], NEW l \in Accounts, NEW amount \in Nat
    PROVE  Credited(g, l, amount) \in [Accounts -> Movement]
<1>1. g[l] \in Movement /\ g[l].credit + amount \in Nat
  BY DEF Movement
<1>2. [g[l] EXCEPT !.credit = @ + amount] \in Movement
  BY <1>1 DEF Movement
<1> QED BY <1>2 DEF Credited

\* A payment moves what is left of an instalment, and the credit of its account.
LEMMA CollectMoney ==
    ASSUME MInv, IInv', NEW c \in Calls, NEW amount \in Amounts, NEW full \in BOOLEAN,
           CollectPayment(c, amount, full)
    PROVE  MInv'
<1> DEFINE l == call[c].line
<1>1. /\ call[c].op = "collect"
      /\ paid' = [paid EXCEPT ![l] = @ + amount]
      /\ \/ inst' = inst
         \/ inst' = Balanced(inst, paid', {l})
      /\ contract' = Completed(contract, inst', paid')
      /\ ledger' = IF KeepsMovements(contract') THEN Credited(ledger, l, amount) ELSE ledger
      /\ call' = [call EXCEPT ![c] = Idle]
      /\ UNCHANGED device
  BY DEF CollectPayment
<1>2. l \in Lines /\ l \in Accounts /\ l # Signing /\ Signing \in Accounts /\ amount \in Nat
  <2>1. l \in Lines
    BY <1>1 DEF MInv, IInv, ReadsAreHigh
  <2> QED BY <2>1, AccountFacts, LedgerAssumption
<1> HIDE DEF l
<1>3. /\ contract' \in Contract /\ contract'.kind = contract.kind
      /\ contract'.cash = contract.cash /\ contract'.price = contract.price
      /\ \/ contract'.status = contract.status
         \/ contract.status = "active" /\ contract'.status = "completed"
  BY <1>1, MFacts, CompletedContract
<1>4. paid' \in [Accounts -> Nat] /\ paid'[Signing] = paid[Signing]
  <2>1. paid' \in [Accounts -> Nat]
    BY DEF IInv, Typing
  <2> QED BY <1>1, <1>2, <2>1
<1>5. Scheduled(inst') = Scheduled(inst)
  <2>1. inst \in [Lines -> Instalment] /\ paid' \in [Accounts -> Nat]
    BY <1>4, MFacts
  <2>2. Scheduled(Balanced(inst, paid', {l})) = Scheduled(inst)
    BY <2>1, BalancedRows
  <2> QED BY <1>1, <2>2
<1>6. /\ ledger' \in [Accounts -> Movement]
      /\ \A k \in Accounts : ledger'[k].charge = ledger[k].charge
      /\ ledger'[Signing].credit = ledger[Signing].credit
      /\ contract'.status = "cancelled" => ledger' = ledger
  <2>1. CASE KeepsMovements(contract')
    <3>1. ledger' = Credited(ledger, l, amount) /\ contract'.status # "cancelled"
      BY <1>1, <2>1 DEF KeepsMovements
    <3>2. ledger \in [Accounts -> Movement]
      BY MFacts
    <3>3. DOMAIN ledger = Accounts /\ \A k \in Accounts : DOMAIN ledger[k] = Figures
      BY DEF MInv, IInv, Typing
    <3>4. ledger' \in [Accounts -> Movement]
      BY <1>2, <3>1, <3>2, CreditedNumbers
    <3>5. /\ \A k \in Accounts : ledger'[k].charge = ledger[k].charge
          /\ ledger'[Signing].credit = ledger[Signing].credit
      BY <1>2, <3>1, <3>3, CreditedLedger
    <3> QED BY <3>1, <3>4, <3>5
  <2>2. CASE ~KeepsMovements(contract')
    BY <1>1, <2>2, MFacts
  <2> QED BY <2>1, <2>2
<1>7. call' \in [Calls -> Call] /\ \A d \in Calls : call'[d].op = "cancel" => call'[d] = call[d]
  BY <1>1, MFacts DEF Call, Idle
<1>8. Numbers'
  BY <1>6, <1>7 DEF Numbers
<1>9. ReadsCoverSigning'
  <2> SUFFICES ASSUME NEW d \in Calls, call'[d].op = "cancel"
               PROVE  /\ device
                      /\ contract'.status = "active" /\ contract'.kind = "definitive" =>
                           \/ /\ call'[d].total = Scheduled(inst')
                              /\ call'[d].signing = paid'[Signing]
                           \/ ledger'[Signing].charge <= ledger'[Signing].credit
    BY <1>1 DEF ReadsCoverSigning
  <2>1. call'[d] = call[d] /\ ledger'[Signing].charge = ledger[Signing].charge
    BY <1>2, <1>6, <1>7
  <2> QED BY <1>3, <1>4, <1>5, <1>6, <2>1 DEF MInv, ReadsCoverSigning
<1>10. ScheduleWithinPrice' /\ ChargedIsPrice'
  BY <1>3, <1>5, <1>6, ChargesStay
<1>11. CancelledOwesNothing'
  BY <1>3, <1>6 DEF MInv, CancelledOwesNothing
<1> QED BY <1>8, <1>9, <1>10, <1>11 DEF MInv

LEMMA InitMoney == Init => MInv
<1> SUFFICES ASSUME Init PROVE MInv
  OBVIOUS
<1>1. /\ contract.status = "draft" /\ ledger = [k \in Accounts |-> NoMovement]
      /\ call = [c \in Calls |-> Idle]
  BY FormSavesDraft DEF Init
<1>2. Numbers
  BY <1>1 DEF Numbers, NoMovement, Movement, Call
<1>3. ReadsCoverSigning /\ ScheduleWithinPrice /\ CancelledOwesNothing /\ ChargedIsPrice
  BY <1>1 DEF ReadsCoverSigning, ScheduleWithinPrice, CancelledOwesNothing, ChargedIsPrice, Idle
<1> QED BY <1>2, <1>3, InitInv DEF MInv

LEMMA EndingMoney ==
    ASSUME MInv, IInv', Ending
    PROVE  MInv'
<1>1. ASSUME NEW c \in Calls, CancelRead(c) PROVE MInv'
  <2> DEFINE left == Total([l \in Lines |-> inst[l].left])
             read == [op |-> "cancel", total |-> Scheduled(inst), left |-> left,
                      signing |-> paid[Signing]]
  <2>1. /\ contract.status = "active" /\ call' = [call EXCEPT ![c] = read]
        /\ UNCHANGED <<contract, device, inst, paid, ledger>>
    BY <1>1 DEF CancelRead
  <2>2. device
    BY <2>1 DEF MInv, IInv, DeviceIsSold
  <2>3. read \in Call
    <3>1. left \in Nat /\ Scheduled(inst) \in Nat /\ paid[Signing] \in Nat
      BY MFacts, LeftNat, AccountFacts
    <3> HIDE DEF left
    <3> QED BY <3>1 DEF Call
  <2>4. read.total = Scheduled(inst) /\ read.signing = paid[Signing]
    OBVIOUS
  <2> HIDE DEF read
  <2>5. call' \in [Calls -> Call] /\ \A d \in Calls : call'[d] = IF d = c THEN read ELSE call[d]
    BY <2>1, <2>3, MFacts
  <2> QED BY <2>1, <2>2, <2>4, <2>5, QuietStep
<1> QED BY <1>1, CancelMoney, RetrieveMoney DEF Ending

LEMMA CollectingMoney ==
    ASSUME MInv, IInv', Collecting
    PROVE  MInv'
<1>1. ASSUME NEW c \in Calls, NEW l \in Lines, NEW a \in 1..MaxAttempts, CollectRead(c, l, a)
      PROVE  MInv'
  <2> DEFINE read == [op |-> "collect", line |-> l, attempt |-> a, before |-> inst[l].left]
  <2>1. call' = [call EXCEPT ![c] = read] /\ UNCHANGED <<contract, device, inst, paid, ledger>>
    BY <1>1 DEF CollectRead
  <2>2. read \in Call
    <3>1. inst[l].left \in Nat /\ a \in Nat
      BY MFacts, RowFacts, LedgerAssumption
    <3> QED BY <3>1 DEF Call
  <2>3. read.op = "collect"
    OBVIOUS
  <2> HIDE DEF read
  <2>4. call' \in [Calls -> Call] /\ \A d \in Calls : call'[d] = IF d = c THEN read ELSE call[d]
    BY <2>1, <2>2, MFacts
  <2> QED BY <2>1, <2>3, <2>4, QuietStep
<1>2. ASSUME NEW c \in Calls, NEW refused \in BOOLEAN, CollectNothing(c, refused) PROVE MInv'
  <2>1. call' = [call EXCEPT ![c] = Idle] /\ UNCHANGED <<contract, device, inst, paid, ledger>>
    BY <1>2 DEF CollectNothing
  <2>2. call' \in [Calls -> Call] /\ \A d \in Calls : call'[d] = IF d = c THEN Idle ELSE call[d]
    BY <2>1, MFacts DEF Call
  <2> QED BY <2>1, <2>2, QuietStep DEF Idle
<1>3. ASSUME NEW l \in Lines, CreateTask(l) PROVE MInv'
  BY <1>3, MFacts, QuietStep DEF CreateTask
<1> QED BY <1>1, <1>2, <1>3, CollectMoney DEF Collecting

LEMMA NextMoney == MInv /\ [Next]_vars => MInv'
<1> SUFFICES ASSUME MInv, [Next]_vars PROVE MInv'
  OBVIOUS
<1>1. IInv'
  BY NextInv DEF MInv
<1>2. CASE UNCHANGED vars
  BY <1>1, <1>2, MFacts, QuietStep DEF vars
<1>3. CASE Selling
  <2>1. CASE Activate
    <3>1. UNCHANGED vars
      BY <2>1, ActivateChangesNothing DEF MInv
    <3> QED BY <1>1, <3>1, MFacts, QuietStep DEF vars
  <2>2. ASSUME NEW cash \in BOOLEAN, NEW price \in Prices, NEW down \in Amounts \cup {0},
               NEW rows \in Schedules, Settle(cash, price, down, rows)
        PROVE  MInv'
    BY <1>1, <2>2, SettleMoney
  <2> QED BY <1>1, <1>3, <2>1, <2>2, ApproveMoney DEF Selling
<1>4. ASSUME NEW c \in Calls, Abort(c) PROVE MInv'
  <2>1. call' = [call EXCEPT ![c] = Idle] /\ UNCHANGED <<contract, device, inst, paid, ledger>>
    BY <1>4 DEF Abort
  <2>2. call' \in [Calls -> Call] /\ \A d \in Calls : call'[d] = IF d = c THEN Idle ELSE call[d]
    BY <2>1, MFacts DEF Call
  <2> QED BY <1>1, <2>1, <2>2, QuietStep DEF Idle
<1> QED BY <1>1, <1>2, <1>3, <1>4, DraftingMoney, EndingMoney, CollectingMoney DEF Next

\* The invariant of the amounts holds in every state that is reached.
THEOREM Money == Spec => []MInv
BY InitMoney, NextMoney, PTL DEF Spec

\* Every figure of the books and every sum that was read is a number, however many
\* rows it was added up from.
THEOREM TypeCorrect == Spec => []TypeOK
<1>1. MInv => TypeOK
  BY DEF MInv, IInv, Typing, Numbers, Movement, TypeOK
<1> QED BY <1>1, Money, PTL

\* The cancellation leaves no balance, although it subtracts sums that were read
\* before its contract was locked.
THEOREM CancellationSettles == Spec => []CancelledOwesNothing
<1>1. MInv => CancelledOwesNothing
  BY DEF MInv
<1> QED BY <1>1, Money, PTL

\* However the price is split and however the sale came about, its charges sum to it.
THEOREM PriceIsCharged == Spec => []ChargedIsPrice
<1>1. MInv => ChargedIsPrice
  BY DEF MInv
<1> QED BY <1>1, Money, PTL
=============================================================================
