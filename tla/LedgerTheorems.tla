--------------------------- MODULE LedgerTheorems ---------------------------
(***************************************************************************)
(* Theorems about the notes of the ledger and the wallet's view of them,   *)
(* for any notes, channels and operations; and about its prices and reward *)
(* target, which follow their load for any configuration the code accepts. *)
(***************************************************************************)
EXTENDS WalletNotes, Markets, SumTheorems

-----------------------------------------------------------------------------
(* The operations on notes, as functions of the ledger. *)

\* Some notes are replaced by new ones: Exchange and Deposit.
Exchanged(D, u, I, E, out, w) ==
    /\ w \in [(D \ I) \cup E -> Nat]
    /\ \A n \in D \ I : w[n] = u[n]
    /\ \A n \in E : w[n] = out[n]
    /\ \A K \in SUBSET (D \ I) : Sum(K, w) = Sum(K, u)
    /\ Sum(E, w) = Sum(E, out)
    /\ Sum((D \ I) \cup E, w) = (Sum(D, u) - Sum(I, u)) + Sum(E, out)

\* Taking I out of u and merging out in changes the total by the difference.
LEMMA ExchangeSum ==
    ASSUME NEW D, IsFiniteSet(D), NEW u, u \in [D -> Nat], NEW I, I \in SUBSET D,
           NEW E, IsFiniteSet(E), NEW out, out \in [E -> Nat], D \cap E = {}
    PROVE  Exchanged(D, u, I, E, out, Merge(Without(u, I), out))
PROOF
<1> DEFINE w == Merge(Without(u, I), out)
<1>1. /\ w \in [(D \ I) \cup E -> Nat]
      /\ \A n \in D \ I : w[n] = u[n]
      /\ \A n \in E : w[n] = out[n]
  BY Zenon DEF Merge, Without
<1> HIDE DEF w
<1>2. /\ IsFiniteSet(I) /\ IsFiniteSet(D \ I)
      /\ \A K \in SUBSET (D \ I) : IsFiniteSet(K)
  BY Zenon, FS_Subset
<1>3. \A K \in SUBSET (D \ I) : Sum(K, w) = Sum(K, u)
  <2> SUFFICES ASSUME NEW K \in SUBSET (D \ I) PROVE Sum(K, w) = Sum(K, u)
    BY Zenon
  <2>1. IntOn(K, u) /\ \A n \in K : w[n] = u[n]
    BY <1>1 DEF IntOn
  <2> QED  BY Zenon, <1>2, <2>1, SumSame
<1>4. Sum(E, w) = Sum(E, out)
  <2>1. IntOn(E, out)
    BY DEF IntOn
  <2> QED  BY Zenon, <1>1, <2>1, SumSame
<1>5. /\ Sum(D \ I, w) \in Int /\ Sum(E, w) \in Int
      /\ Sum((D \ I) \cup E, w) = Sum(D \ I, w) + Sum(E, w)
  <2>1. (D \ I) \cap E = {}
    BY Zenon
  <2>2. IntOn((D \ I) \cup E, w)
    BY <1>1 DEF IntOn
  <2> QED  BY <1>2, <2>1, <2>2, SumUnion
<1>6. /\ Sum(D \ I, u) \in Int /\ Sum(I, u) \in Int
      /\ Sum(D, u) = Sum(D \ I, u) + Sum(I, u)
  <2>1. (D \ I) \cap I = {} /\ (D \ I) \cup I = D
    BY Zenon
  <2>2. IntOn((D \ I) \cup I, u)
    BY DEF IntOn
  <2>3. /\ Sum(D \ I, u) \in Int /\ Sum(I, u) \in Int
        /\ Sum((D \ I) \cup I, u) = Sum(D \ I, u) + Sum(I, u)
    BY <1>2, <2>1, <2>2, SumUnion
  <2> QED  BY Zenon, <2>1, <2>3
<1>7. Sum(D \ I, w) = Sum(D \ I, u)
  BY Zenon, <1>3
<1>8. Sum((D \ I) \cup E, w) = (Sum(D, u) - Sum(I, u)) + Sum(E, out)
  BY <1>4, <1>5, <1>6, <1>7
<1>9. Exchanged(D, u, I, E, out, w)
  BY Zenon, <1>1, <1>3, <1>4, <1>8 DEF Exchanged
<1> QED  BY Zenon, <1>9 DEF w

\* The outputs of an operation become notes of the same values.
CreatedOK(outputs, E, out) ==
    IsFiniteSet(E) /\ out \in [E -> Nat] /\ Sum(E, out) = Sum(DOMAIN outputs, outputs)

\* Numbering outputs from next on keeps their total.
LEMMA CreatedSum ==
    ASSUME NEW outputs, outputs \in Seq(Nat), NEW next, next \in Nat
    PROVE  CreatedOK(outputs, next..(next + Len(outputs) - 1),
                     [n \in next..(next + Len(outputs) - 1) |-> outputs[n - next + 1]])
PROOF
<1> DEFINE E == next..(next + Len(outputs) - 1)
           out == [n \in E |-> outputs[n - next + 1]]
<1>1. Len(outputs) \in Nat /\ DOMAIN outputs = 1..Len(outputs)
  OBVIOUS
<1>2. IsFiniteSet(E) /\ IsFiniteSet(1..Len(outputs))
  BY <1>1, FS_Interval
<1>3. \A n \in E : n - next + 1 \in 1..Len(outputs)
  BY <1>1
<1>4. out \in [E -> Nat]
  BY <1>1, <1>3
<1> DEFINE f == [i \in 1..Len(outputs) |-> next + i - 1]
<1>5. /\ \A i \in 1..Len(outputs) : f[i] \in E /\ out[f[i]] = outputs[i]
      /\ \A i, j \in 1..Len(outputs) : f[i] = f[j] => i = j
  BY <1>1
<1>6. {f[i] : i \in 1..Len(outputs)} = E
  <2>1. \A n \in E : n = f[n - next + 1]
    BY <1>1, <1>3
  <2>2. \A n \in E : \E i \in 1..Len(outputs) : n = f[i]
    BY Zenon, <1>3, <2>1
  <2> HIDE DEF f
  <2> DEFINE R == 1..Len(outputs)
  <2>3. (\A n \in E : \E i \in R : n = f[i]) /\ \A i \in R : f[i] \in E
    BY Zenon, <1>5, <2>2
  <2> HIDE DEF R
  <2>4. {f[i] : i \in R} = E
    BY Zenon, <2>3
  <2> QED  BY Zenon, <2>4 DEF R
<1>7. IntOn(1..Len(outputs), outputs)
  BY <1>1 DEF IntOn
<1> HIDE DEF f
<1>8. Sum({f[i] : i \in 1..Len(outputs)}, out) = Sum(1..Len(outputs), outputs)
  <2> DEFINE R == 1..Len(outputs)
  <2>1. PICK v : v = out
    BY Zenon
  <2>2. /\ IsFiniteSet(R) /\ IntOn(R, outputs)
        /\ \A i \in R : v[f[i]] = outputs[i]
        /\ \A i, j \in R : f[i] = f[j] => i = j
    BY Zenon, <1>2, <1>5, <1>7, <2>1
  <2> HIDE DEF R
  <2>3. Sum({f[i] : i \in R}, v) = Sum(R, outputs)
    BY <2>2, SumImage
  <2> QED  BY Zenon, <2>1, <2>3 DEF R
<1>9. CreatedOK(outputs, E, out)
  <2> HIDE DEF E, out
  <2> QED  BY Zenon, <1>1, <1>2, <1>4, <1>6, <1>8 DEF CreatedOK
<1> QED  BY Zenon, <1>9

\* The order of the inputs numbers them without gaps or repetitions.
Rank(S, n) == Cardinality({m \in S : m < n})
\* Ranks number the elements of a finite set of naturals from zero.
LEMMA RankInjective ==
    ASSUME NEW S \in SUBSET Nat, IsFiniteSet(S)
    PROVE  /\ \A n \in S : Rank(S, n) \in Nat /\ Rank(S, n) < Cardinality(S)
           /\ \A n, k \in S : Rank(S, n) = Rank(S, k) => n = k
PROOF
<1> DEFINE Less(n) == {m \in S : m < n}
<1>1. \A n \in S : IsFiniteSet(Less(n)) /\ Cardinality(Less(n)) \in Nat
  BY Zenon, FS_Subset, FS_CardinalityType
<1>2. ASSUME NEW n \in S, NEW T \in SUBSET S, Less(n) \subseteq T, n \in T
      PROVE  Cardinality(Less(n)) < Cardinality(T)
  <2>1. n \notin Less(n)
    OBVIOUS
  <2>2. Cardinality(Less(n) \cup {n}) = Cardinality(Less(n)) + 1
    BY Zenon, <1>1, <2>1, FS_AddElement
  <2>3. IsFiniteSet(T) /\ Cardinality(T) \in Nat
    BY Zenon, FS_Subset, FS_CardinalityType
  <2>4. Cardinality(Less(n) \cup {n}) <= Cardinality(T)
    BY Zenon, <1>2, <2>3, FS_Subset
  <2> QED  BY <1>1, <2>2, <2>3, <2>4
<1>3. \A n \in S : Cardinality(Less(n)) < Cardinality(S)
  BY Zenon, <1>2
<1>4. \A n, k \in S : n < k => Cardinality(Less(n)) < Cardinality(Less(k))
  <2> SUFFICES ASSUME NEW n \in S, NEW k \in S, n < k
               PROVE  Cardinality(Less(n)) < Cardinality(Less(k))
    BY Zenon
  <2>1. Less(n) \subseteq Less(k) /\ n \in Less(k) /\ Less(k) \in SUBSET S
    <3>1. \A m \in S : m < n => m < k
      OBVIOUS
    <3> QED  BY Zenon, <3>1
  <2> HIDE DEF Less
  <2> QED  BY Zenon, <1>2, <2>1
<1>5. \A n \in S : Rank(S, n) = Cardinality(Less(n))
  BY Zenon DEF Rank
<1> HIDE DEF Less
<1>6. \A n, k \in S : Rank(S, n) = Rank(S, k) => n = k
  <2> SUFFICES ASSUME NEW n \in S, NEW k \in S, n # k PROVE Rank(S, n) # Rank(S, k)
    BY Zenon
  <2>1. n < k \/ k < n
    OBVIOUS
  <2> QED  BY <1>1, <1>4, <1>5, <2>1
<1> QED  BY Zenon, <1>1, <1>3, <1>5, <1>6

-----------------------------------------------------------------------------
(* The inductive invariant of the notes. *)

\* Every note has a number below next, so a new one takes no other's place, and
\* is held one way.
LedgerOK(led) ==
    /\ led = [utxos |-> led.utxos, channel |-> led.channel,
              service |-> led.service, next |-> led.next]
    /\ led.next \in Nat
    /\ DOMAIN led.utxos \subseteq 0..(led.next - 1)
    /\ led.utxos \in [DOMAIN led.utxos -> Nat]
    /\ DOMAIN led.channel \subseteq DOMAIN led.utxos
    /\ led.channel \in [DOMAIN led.channel -> NoteChannels]
    /\ led.service \subseteq DOMAIN led.utxos
    /\ led.service \cap DOMAIN led.channel = {}

TotalsOK(tot) ==
    /\ tot = [minted |-> tot.minted, fees |-> tot.fees, inflow |-> tot.inflow]
    /\ tot.minted \in Nat /\ tot.fees \in Nat
    /\ tot.inflow \in [NoteChannels -> Int]

Holding(led, c) == {n \in DOMAIN led.channel : led.channel[n] = c}
HoldingsOK(led, tot) ==
    \A c \in NoteChannels : Sum(Holding(led, c), led.utxos) = tot.inflow[c]

\* What an open transaction has taken out is what the notes lack.
Worth(led) == Sum(DOMAIN led.utxos, led.utxos)
Genesis == Sum(DOMAIN GenesisNotes, GenesisNotes)
BalanceOK(led, tot, balance) ==
    /\ balance \in Int
    /\ Worth(led) + tot.fees + balance = Genesis + tot.minted

AccountsOK(led, tot, balance) ==
    LedgerOK(led) /\ TotalsOK(tot) /\ HoldingsOK(led, tot) /\ BalanceOK(led, tot, balance)

\* A refused transaction goes back to accounts that were right.
NoteInv ==
    \/ tx = NoTx /\ AccountsOK(notes, totals, 0)
    \/ /\ tx = [open |-> TRUE, ops |-> tx.ops, balance |-> tx.balance,
                start |-> tx.start, totals |-> tx.totals]
       /\ AccountsOK(notes, totals, tx.balance)
       /\ AccountsOK(tx.start, tx.totals, 0)

\* The notes are finitely many, and every subset of them has a total.
LEMMA LedgerFinite ==
    ASSUME NEW led, LedgerOK(led)
    PROVE  /\ IsFiniteSet(DOMAIN led.utxos)
           /\ \A S \in SUBSET DOMAIN led.utxos :
                /\ IsFiniteSet(S) /\ S \in SUBSET Nat
                /\ IntOn(S, led.utxos) /\ Sum(S, led.utxos) \in Nat
PROOF
<1>1. led.next \in Nat /\ DOMAIN led.utxos \subseteq 0..(led.next - 1)
  BY Zenon DEF LedgerOK
<1>2. IsFiniteSet(0..(led.next - 1))
  BY <1>1, FS_Interval
<1>3. IsFiniteSet(DOMAIN led.utxos)
  BY Zenon, <1>1, <1>2, FS_Subset
<1>4. ASSUME NEW S \in SUBSET DOMAIN led.utxos
      PROVE  /\ IsFiniteSet(S) /\ S \in SUBSET Nat
             /\ IntOn(S, led.utxos) /\ Sum(S, led.utxos) \in Nat
  <2>1. IsFiniteSet(S)
    BY Zenon, <1>3, FS_Subset
  <2>2. S \in SUBSET Nat
    BY <1>1
  <2>3. \A n \in S : led.utxos[n] \in Nat
    BY Zenon DEF LedgerOK
  <2>4. Sum(S, led.utxos) \in Nat
    BY Zenon, <2>1, <2>3, SumNat
  <2> QED  BY <2>1, <2>2, <2>3, <2>4 DEF IntOn
<1> QED  BY Zenon, <1>3, <1>4

\* The definitions of the model are sums.
LEMMA ModelSums ==
    /\ \A S, u : TotalValue(S, u) = Sum(S, u)
    /\ \A u : OutputTotal(u) = Sum(DOMAIN u, u)
  BY Zenon DEF TotalValue, OutputTotal, FoldFunction, Sum

\* Notes replaced by new ones, some of them, E, held by channel c: the worth of
\* the ledger and of the channels follow.
Replaced(led, I, out, count, channel) ==
    [led EXCEPT !.utxos = Merge(Without(led.utxos, I), out), !.channel = channel,
                !.next = led.next + count]
ReplacedOK(led, I, E, out, channel, new) ==
    /\ LedgerOK(new)
    /\ new.utxos = Merge(Without(led.utxos, I), out) /\ new.channel = channel
    /\ IsFiniteSet(E) /\ DOMAIN led.utxos \cap E = {}
    /\ Worth(new) = (Worth(led) - Sum(I, led.utxos)) + Sum(E, out)
    /\ \A K \in SUBSET (DOMAIN led.utxos \ I) : Sum(K, new.utxos) = Sum(K, led.utxos)
    /\ Sum(E, new.utxos) = Sum(E, out)
    /\ IntOn(DOMAIN new.utxos, new.utxos)
    /\ DOMAIN new.utxos = (DOMAIN led.utxos \ I) \cup E

\* Replacing unlocked notes by fresh ones keeps the ledger well-formed.
LEMMA ReplaceKeeps ==
    ASSUME NEW led, LedgerOK(led), NEW I, I \in SUBSET DOMAIN led.utxos,
           I \cap led.service = {}, NEW count, count \in Nat,
           NEW E, E \subseteq led.next..(led.next + count - 1),
           NEW out, out \in [E -> Nat],
           NEW channel, channel \in [DOMAIN channel -> NoteChannels],
           DOMAIN channel \subseteq (DOMAIN led.channel \ I) \cup E
    PROVE  ReplacedOK(led, I, E, out, channel, Replaced(led, I, out, count, channel))
PROOF
<1>0. PICK new : new = Replaced(led, I, out, count, channel)
  BY Zenon
<1> DEFINE D == DOMAIN led.utxos
           w == Merge(Without(led.utxos, I), out)
<1>1. /\ led.next \in Nat /\ D \subseteq 0..(led.next - 1)
      /\ led.utxos \in [D -> Nat]
      /\ led.service \subseteq D /\ led.service \cap DOMAIN led.channel = {}
      /\ DOMAIN led.channel \subseteq D
  BY Zenon DEF LedgerOK
<1>2. new = [utxos |-> w, channel |-> channel, service |-> led.service,
             next |-> led.next + count]
  BY Zenon, <1>0 DEF Replaced, LedgerOK
<1>3. /\ new.utxos = w /\ new.channel = channel /\ new.service = led.service
      /\ new.next = led.next + count
  BY Zenon, <1>2
<1>4. D \cap E = {}
  <2>1. \A n \in E : n \in Nat /\ n >= led.next
    BY <1>1
  <2>2. \A n \in D : n \in Nat /\ n < led.next
    BY <1>1
  <2> QED  BY <1>1, <2>1, <2>2
<1>5. IsFiniteSet(D) /\ IsFiniteSet(E)
  <2>1. IsFiniteSet(led.next..(led.next + count - 1))
    BY <1>1, FS_Interval
  <2> QED  BY Zenon, <2>1, LedgerFinite, FS_Subset
<1>6. /\ w \in [(D \ I) \cup E -> Nat]
      /\ \A K \in SUBSET (D \ I) : Sum(K, w) = Sum(K, led.utxos)
      /\ Sum(E, w) = Sum(E, out)
      /\ Sum((D \ I) \cup E, w) = (Sum(D, led.utxos) - Sum(I, led.utxos)) + Sum(E, out)
  <2> HIDE DEF D
  <2>1. I \in SUBSET D
    BY Zenon DEF D
  <2>2. Exchanged(D, led.utxos, I, E, out, Merge(Without(led.utxos, I), out))
    BY Zenon, <1>1, <1>4, <1>5, <2>1, ExchangeSum
  <2> QED  BY Zenon, <2>2 DEF Exchanged
<1> HIDE DEF w
<1>7. DOMAIN w = (D \ I) \cup E
  BY Zenon, <1>6
<1>8. LedgerOK(new)
  <2>1. (D \ I) \cup E \subseteq 0..((led.next + count) - 1)
    BY <1>1
  <2>2. led.service \subseteq (D \ I) \cup E /\ led.service \cap DOMAIN channel = {}
    BY Zenon, <1>1, <1>4
  <2>3. DOMAIN channel \subseteq (D \ I) \cup E /\ led.next + count \in Nat
    BY <1>1
  <2> HIDE DEF D
  <2> QED  BY Zenon, <1>2, <1>3, <1>6, <1>7, <2>1, <2>2, <2>3 DEF LedgerOK
<1>9. Worth(new) = (Worth(led) - Sum(I, led.utxos)) + Sum(E, out)
  BY Zenon, <1>3, <1>6, <1>7 DEF Worth
<1>10. IntOn(DOMAIN w, w)
  BY <1>6, <1>7 DEF IntOn
<1>11. ReplacedOK(led, I, E, out, channel, new)
  BY Zenon, <1>3, <1>4, <1>5, <1>6, <1>7, <1>8, <1>9, <1>10 DEF w, ReplacedOK
<1> QED  BY Zenon, <1>0, <1>11

-----------------------------------------------------------------------------
(* The actions. *)

\* The accounts of an open transaction.
LEMMA OpenAccounts ==
    ASSUME NoteInv, tx.open
    PROVE  AccountsOK(notes, totals, tx.balance)
  BY DEF NoteInv, NoTx

\* An operation whose accounts are right keeps the invariant.
LEMMA OperationKeeps ==
    ASSUME NoteInv, NEW b, Operation(b), AccountsOK(notes', totals', tx.balance + b)
    PROVE  NoteInv'
PROOF
<1>1. tx.open
  BY Zenon DEF Operation
<1>2. /\ tx = [open |-> TRUE, ops |-> tx.ops, balance |-> tx.balance,
               start |-> tx.start, totals |-> tx.totals]
      /\ AccountsOK(tx.start, tx.totals, 0)
  BY <1>1 DEF NoteInv, NoTx
<1>3. tx' = [open |-> TRUE, ops |-> tx.ops + 1, balance |-> tx.balance + b,
             start |-> tx.start, totals |-> tx.totals]
  BY Zenon, <1>2 DEF Operation
<1>4. /\ tx' = [open |-> TRUE, ops |-> tx'.ops, balance |-> tx'.balance,
                start |-> tx'.start, totals |-> tx'.totals]
      /\ tx'.balance = tx.balance + b /\ tx'.start = tx.start /\ tx'.totals = tx.totals
  BY Zenon, <1>3
<1>5. AccountsOK(notes', totals', tx'.balance) /\ AccountsOK(tx'.start, tx'.totals, 0)
  BY Zenon, <1>2, <1>4
<1> QED  BY Zenon, <1>4, <1>5 DEF NoteInv

\* The genesis notes have a total.
LEMMA GenesisType == Genesis \in Nat
PROOF
<1>1. GenesisNotes \in Seq(Nat)
  BY Zenon, NoteAssumption
<1>2. IsFiniteSet(1..Len(GenesisNotes)) /\ DOMAIN GenesisNotes = 1..Len(GenesisNotes)
  BY <1>1, FS_Interval
<1>3. \A i \in 1..Len(GenesisNotes) : GenesisNotes[i] \in Nat
  BY <1>1
<1> QED  BY Zenon, <1>2, <1>3, SumNat DEF Genesis

\* The notes an operation creates.
LEMMA CreatedFacts ==
    ASSUME LedgerOK(notes), NEW outputs \in Seq(Nat)
    PROVE  /\ NewIds(Len(outputs)) \subseteq notes.next..(notes.next + Len(outputs) - 1)
           /\ IsFiniteSet(NewIds(Len(outputs)))
           /\ Created(outputs) \in [NewIds(Len(outputs)) -> Nat]
           /\ Sum(NewIds(Len(outputs)), Created(outputs)) = OutputTotal(outputs)
           /\ OutputTotal(outputs) \in Nat
PROOF
<1>1. notes.next \in Nat
  BY Zenon DEF LedgerOK
<1>2. /\ IsFiniteSet(NewIds(Len(outputs)))
      /\ Created(outputs) \in [NewIds(Len(outputs)) -> Nat]
      /\ Sum(NewIds(Len(outputs)), Created(outputs)) = Sum(DOMAIN outputs, outputs)
  <2>1. CreatedOK(outputs, NewIds(Len(outputs)), Created(outputs))
    BY Zenon, <1>1, CreatedSum DEF NewIds, Created
  <2> QED  BY Zenon, <2>1 DEF CreatedOK
<1>3. \A n \in NewIds(Len(outputs)) : Created(outputs)[n] \in Nat
  BY Zenon, <1>2
<1>4. Sum(NewIds(Len(outputs)), Created(outputs)) \in Nat
  BY Zenon, <1>2, <1>3, SumNat
<1> QED  BY Zenon, <1>2, <1>4, ModelSums DEF NewIds

\* The accounts after notes were replaced, given what became of the channels.
LEMMA ReplaceAccounts ==
    ASSUME NEW led, NEW tot, NEW balance, AccountsOK(led, tot, balance),
           NEW new, NEW newTot, NEW b \in Int, LedgerOK(new), TotalsOK(newTot),
           HoldingsOK(new, newTot),
           NEW d \in Int, Worth(new) = Worth(led) + d,
           d + b + (newTot.fees - tot.fees) = newTot.minted - tot.minted
    PROVE  AccountsOK(new, newTot, balance + b)
PROOF
<1>1. /\ Worth(led) \in Nat /\ balance \in Int /\ Genesis \in Nat
      /\ tot.fees \in Nat /\ tot.minted \in Nat /\ newTot.fees \in Nat /\ newTot.minted \in Nat
      /\ Worth(led) + tot.fees + balance = Genesis + tot.minted
  BY Zenon, LedgerFinite, GenesisType DEF AccountsOK, BalanceOK, TotalsOK, Worth
<1>2. Worth(new) + newTot.fees + (balance + b) = Genesis + newTot.minted
  BY <1>1
<1> QED  BY <1>1, <1>2 DEF AccountsOK, BalanceOK

\* Transfer: spends notes and creates outputs.
LEMMA TransferKeeps ==
    ASSUME NoteInv, NEW inputs \in SUBSET DOMAIN notes.utxos, NEW outputs \in OutputValues,
           Transfer(inputs, outputs)
    PROVE  NoteInv'
PROOF
<1> DEFINE b == TotalValue(inputs, notes.utxos) - OutputTotal(outputs)
           E == NewIds(Len(outputs))
<1>1. Operation(b) /\ Spendable(inputs) /\ totals' = totals /\ outputs \in Seq(Nat)
  BY Zenon, NoteAssumption DEF Transfer
<1>2. AccountsOK(notes, totals, tx.balance) /\ LedgerOK(notes)
  BY Zenon, <1>1, OpenAccounts DEF Operation, AccountsOK
<1>3. /\ E \subseteq notes.next..(notes.next + Len(outputs) - 1)
      /\ Created(outputs) \in [E -> Nat]
      /\ Sum(E, Created(outputs)) = OutputTotal(outputs) /\ OutputTotal(outputs) \in Nat
  BY Zenon, <1>1, <1>2, CreatedFacts
<1>4. notes' = Replaced(notes, inputs, Created(outputs), Len(outputs), notes.channel)
  BY Zenon, <1>2 DEF Transfer, Replaced, Exchange, LedgerOK
<1>5. /\ DOMAIN notes.channel \subseteq (DOMAIN notes.channel \ inputs) \cup E
      /\ notes.channel \in [DOMAIN notes.channel -> NoteChannels]
      /\ inputs \cap notes.service = {} /\ Len(outputs) \in Nat
      /\ inputs \cap DOMAIN notes.channel = {}
      /\ DOMAIN notes.channel \subseteq DOMAIN notes.utxos
  BY <1>1, <1>2 DEF Spendable, LedgerOK
<1> HIDE DEF E
<1>6. /\ LedgerOK(notes')
      /\ notes'.channel = notes.channel
      /\ Worth(notes') = (Worth(notes) - Sum(inputs, notes.utxos)) + Sum(E, Created(outputs))
      /\ \A K \in SUBSET (DOMAIN notes.utxos \ inputs) : Sum(K, notes'.utxos) = Sum(K, notes.utxos)
  <2>1. ReplacedOK(notes, inputs, E, Created(outputs), notes.channel,
            Replaced(notes, inputs, Created(outputs), Len(outputs), notes.channel))
    BY Zenon, <1>2, <1>3, <1>5, ReplaceKeeps
  <2> QED  BY Zenon, <1>4, <2>1 DEF ReplacedOK
<1>7. HoldingsOK(notes', totals)
  <2> SUFFICES ASSUME NEW c \in NoteChannels
               PROVE  Sum(Holding(notes', c), notes'.utxos) = totals.inflow[c]
    BY Zenon DEF HoldingsOK
  <2>1. Holding(notes', c) = Holding(notes, c)
    BY Zenon, <1>6 DEF Holding
  <2>2. Holding(notes, c) \in SUBSET (DOMAIN notes.utxos \ inputs)
    BY Zenon, <1>5 DEF Holding
  <2>3. Sum(Holding(notes, c), notes.utxos) = totals.inflow[c]
    BY Zenon, <1>2 DEF AccountsOK, HoldingsOK
  <2> QED  BY Zenon, <1>6, <2>1, <2>2, <2>3
<1>8. Sum(inputs, notes.utxos) \in Nat /\ Worth(notes) \in Nat
  BY Zenon, <1>2, LedgerFinite DEF Worth
<1>9. b \in Int /\ Worth(notes') = Worth(notes) + (-b)
  BY <1>3, <1>6, <1>8, ModelSums
<1>10. TotalsOK(totals) /\ totals.fees \in Nat /\ totals.minted \in Nat
  BY Zenon, <1>2 DEF AccountsOK, TotalsOK
<1> HIDE DEF b
<1>11. -b \in Int /\ (-b) + b + (totals.fees - totals.fees) = totals.minted - totals.minted
  BY <1>9, <1>10
<1>12. AccountsOK(notes', totals, tx.balance + b)
  BY Zenon, <1>2, <1>6, <1>7, <1>9, <1>10, <1>11, ReplaceAccounts
<1> QED  BY Zenon, <1>1, <1>12, OperationKeeps

\* The notes a deposit creates again.
LEMMA MovedFacts ==
    ASSUME LedgerOK(notes), NEW inputs \in SUBSET DOMAIN notes.utxos
    PROVE  LET E == DOMAIN DepositOutputs(inputs)
           IN  /\ Cardinality(inputs) \in Nat
               /\ E = {Recreated(inputs, n) : n \in inputs}
               /\ E \subseteq notes.next..(notes.next + Cardinality(inputs) - 1)
               /\ DepositOutputs(inputs) \in [E -> Nat]
               /\ Sum(E, DepositOutputs(inputs)) = Sum(inputs, notes.utxos)
               /\ \A n, k \in inputs : Recreated(inputs, n) = Recreated(inputs, k) => n = k
PROOF
<1> DEFINE out == DepositOutputs(inputs)
           f == [n \in inputs |-> Recreated(inputs, n)]
           E == {f[n] : n \in inputs}
<1>1. /\ notes.next \in Nat /\ IsFiniteSet(inputs) /\ inputs \in SUBSET Nat
      /\ IntOn(inputs, notes.utxos) /\ Cardinality(inputs) \in Nat
      /\ \A n \in inputs : notes.utxos[n] \in Nat
  BY Zenon, LedgerFinite, FS_CardinalityType DEF LedgerOK
<1>2. /\ \A n \in inputs : f[n] = notes.next + Rank(inputs, n)
      /\ \A n \in inputs : f[n] = Recreated(inputs, n)
  BY Zenon DEF Recreated, Rank
<1>3. /\ \A n \in inputs : Rank(inputs, n) \in Nat /\ Rank(inputs, n) < Cardinality(inputs)
      /\ \A n, k \in inputs : Rank(inputs, n) = Rank(inputs, k) => n = k
  BY Zenon, <1>1, RankInjective
<1>4. E = {Recreated(inputs, n) : n \in inputs}
  BY Zenon
<1>5. DOMAIN out = E /\ \A id \in E : out[id] = notes.utxos[CHOOSE n \in inputs : Recreated(inputs, n) = id]
  BY Zenon, <1>4 DEF DepositOutputs
<1> HIDE DEF f, out
<1>6. \A n, k \in inputs : f[n] = f[k] => n = k
  BY <1>1, <1>2, <1>3
<1>7. \A n \in inputs : f[n] \in notes.next..(notes.next + Cardinality(inputs) - 1)
  BY <1>1, <1>2, <1>3
<1>8. ASSUME NEW n \in inputs PROVE out[f[n]] = notes.utxos[n]
  <2>1. \A k \in inputs : Recreated(inputs, k) = f[n] => k = n
    BY Zenon, <1>2, <1>6
  <2>2. Recreated(inputs, n) = f[n]
    BY Zenon, <1>2
  <2>3. (CHOOSE k \in inputs : Recreated(inputs, k) = f[n]) = n
    BY Zenon, <2>1, <2>2
  <2>4. f[n] \in E
    BY Zenon
  <2> QED  BY Zenon, <1>5, <2>3, <2>4
<1>9. out \in [E -> Nat]
  <2>1. \A id \in E : out[id] \in Nat
    BY Zenon, <1>1, <1>8
  <2>2. out = [id \in DOMAIN out |-> out[id]]
    BY DEF out, DepositOutputs
  <2> HIDE DEF E
  <2> QED  BY Zenon, <1>5, <2>1, <2>2
<1>10. Sum(E, out) = Sum(inputs, notes.utxos)
  BY <1>1, <1>6, <1>8, SumImage
<1>11. E \subseteq notes.next..(notes.next + Cardinality(inputs) - 1)
  BY Zenon, <1>7
<1>12. \A n, k \in inputs : Recreated(inputs, n) = Recreated(inputs, k) => n = k
  BY Zenon, <1>2, <1>6
<1> HIDE DEF E
<1> QED  BY Zenon, <1>1, <1>4, <1>5, <1>9, <1>10, <1>11, <1>12 DEF out

\* ChannelDeposit: recreates the notes under the channel.
LEMMA DepositKeeps ==
    ASSUME NoteInv, NEW c \in NoteChannels, NEW inputs \in SUBSET DOMAIN notes.utxos,
           Deposit(c, inputs)
    PROVE  NoteInv'
PROOF
<1> DEFINE out == DepositOutputs(inputs)
           E == DOMAIN out
           channel == Merge(notes.channel, Registered(E, c))
           v == Sum(inputs, notes.utxos)
<1>1. /\ Operation(0) /\ Spendable(inputs)
      /\ totals' = [totals EXCEPT !.inflow[c] = @ + v]
  BY Zenon, ModelSums DEF Deposit
<1>2. AccountsOK(notes, totals, tx.balance) /\ LedgerOK(notes) /\ TotalsOK(totals)
  BY Zenon, <1>1, OpenAccounts DEF Operation, AccountsOK
<1>3. /\ Cardinality(inputs) \in Nat
      /\ E \subseteq notes.next..(notes.next + Cardinality(inputs) - 1)
      /\ out \in [E -> Nat] /\ Sum(E, out) = v
  BY Zenon, <1>2, MovedFacts
<1>4. notes' = Replaced(notes, inputs, out, Cardinality(inputs), channel)
  BY Zenon, <1>2 DEF Deposit, Replaced, LedgerOK
<1>5. /\ notes.channel \in [DOMAIN notes.channel -> NoteChannels]
      /\ inputs \cap notes.service = {} /\ inputs \cap DOMAIN notes.channel = {}
      /\ DOMAIN notes.channel \subseteq DOMAIN notes.utxos
      /\ notes.next \in Nat /\ DOMAIN notes.utxos \subseteq 0..(notes.next - 1)
  BY Zenon, <1>1, <1>2 DEF Spendable, LedgerOK
<1> HIDE DEF out, E
<1>6. /\ DOMAIN channel = DOMAIN notes.channel \cup E
      /\ \A n \in E : channel[n] = c
      /\ \A n \in DOMAIN notes.channel \ E : channel[n] = notes.channel[n]
      /\ channel \in [DOMAIN channel -> NoteChannels]
  BY Zenon, <1>5 DEF Merge, Registered
<1> HIDE DEF channel
<1>7. ReplacedOK(notes, inputs, E, out, channel, notes')
  <2>1. DOMAIN channel \subseteq (DOMAIN notes.channel \ inputs) \cup E
    BY Zenon, <1>5, <1>6
  <2> QED  BY Zenon, <1>2, <1>3, <1>4, <1>5, <1>6, <2>1, ReplaceKeeps
<1>8. /\ v \in Nat /\ Worth(notes) \in Nat
      /\ totals' = [minted |-> totals.minted, fees |-> totals.fees, inflow |-> totals'.inflow]
      /\ totals'.inflow = [totals.inflow EXCEPT ![c] = @ + v]
      /\ totals.inflow \in [NoteChannels -> Int]
      /\ totals.minted \in Nat /\ totals.fees \in Nat
  BY Zenon, <1>1, <1>2, LedgerFinite DEF Worth, TotalsOK
<1> HIDE DEF v
<1>9. /\ TotalsOK(totals') /\ totals'.minted = totals.minted /\ totals'.fees = totals.fees
      /\ totals'.inflow[c] = totals.inflow[c] + v
      /\ \A d \in NoteChannels \ {c} : totals'.inflow[d] = totals.inflow[d]
  BY <1>8 DEF TotalsOK
<1>10. HoldingsOK(notes', totals')
  <2> SUFFICES ASSUME NEW d \in NoteChannels
               PROVE  Sum(Holding(notes', d), notes'.utxos) = totals'.inflow[d]
    BY Zenon DEF HoldingsOK
  <2> DEFINE H == Holding(notes, d)
  <2>1. H \in SUBSET (DOMAIN notes.utxos \ inputs) /\ H \cap E = {}
    BY Zenon, <1>5, <1>7 DEF Holding, ReplacedOK
  <2>2. Sum(H, notes'.utxos) = totals.inflow[d]
    BY Zenon, <1>2, <1>7, <2>1 DEF AccountsOK, HoldingsOK, ReplacedOK
  <2>3. DOMAIN notes.channel \cap E = {} /\ notes'.channel = channel
    BY Zenon, <1>5, <1>7 DEF ReplacedOK
  <2>4. CASE d # c
    <3>1. Holding(notes', d) = H
      BY Zenon, <1>6, <2>3, <2>4 DEF Holding
    <3> QED  BY Zenon, <1>9, <2>2, <2>4, <3>1
  <2>5. CASE d = c
    <3>1. Holding(notes', d) = H \cup E
      BY Zenon, <1>6, <2>3, <2>5 DEF Holding
    <3>2. IsFiniteSet(H) /\ IsFiniteSet(E) /\ IntOn(H \cup E, notes'.utxos)
      <4>1. H \cup E \subseteq DOMAIN notes'.utxos
        BY Zenon, <1>7, <2>1 DEF ReplacedOK
      <4>2. IntOn(H \cup E, notes'.utxos)
        BY Zenon, <1>7, <4>1 DEF ReplacedOK, IntOn
      <4>3. H \in SUBSET DOMAIN notes.utxos
        BY Zenon, <2>1
      <4>4. IsFiniteSet(H)
        BY Zenon, <1>2, <4>3, LedgerFinite
      <4> QED  BY Zenon, <1>7, <4>2, <4>4 DEF ReplacedOK
    <3>3. Sum(E, notes'.utxos) = v
      BY Zenon, <1>3, <1>7 DEF ReplacedOK
    <3> HIDE DEF H
    <3>4. Sum(H \cup E, notes'.utxos) = Sum(H, notes'.utxos) + Sum(E, notes'.utxos)
      BY <2>1, <3>2, SumUnion
    <3> QED  BY Zenon, <1>9, <2>2, <2>5, <3>1, <3>3, <3>4
  <2> QED  BY Zenon, <2>4, <2>5
<1>11. Worth(notes') = Worth(notes) + 0
  BY <1>3, <1>7, <1>8 DEF ReplacedOK, v
<1>12. LedgerOK(notes')
  BY Zenon, <1>7 DEF ReplacedOK
<1>13. 0 + 0 + (totals'.fees - totals.fees) = totals'.minted - totals.minted
  BY <1>8, <1>9
<1>14. AccountsOK(notes', totals', tx.balance + 0)
  BY <1>2, <1>9, <1>10, <1>11, <1>12, <1>13, ReplaceAccounts
<1> QED  BY Zenon, <1>1, <1>14, OperationKeeps

\* ChannelWithdraw: the notes leave the channel.
LEMMA WithdrawKeeps ==
    ASSUME NoteInv, NEW c \in NoteChannels, NEW inputs \in SUBSET DOMAIN notes.utxos,
           ChannelWithdraw(c, inputs)
    PROVE  NoteInv'
PROOF
<1> DEFINE v == Sum(inputs, notes.utxos)
           channel == Without(notes.channel, inputs)
<1>1. /\ Operation(0) /\ SpendableIn(c, inputs)
      /\ notes' = [notes EXCEPT !.channel = channel]
      /\ totals' = [totals EXCEPT !.inflow[c] = @ - v]
  BY Zenon, ModelSums DEF ChannelWithdraw
<1>2. AccountsOK(notes, totals, tx.balance) /\ LedgerOK(notes) /\ TotalsOK(totals)
  BY Zenon, <1>1, OpenAccounts DEF Operation, AccountsOK
<1>3. \A n \in inputs : n \in DOMAIN notes.channel /\ notes.channel[n] = c
  BY Zenon, <1>1 DEF SpendableIn
<1>4. /\ notes' = [utxos |-> notes.utxos, channel |-> channel,
                   service |-> notes.service, next |-> notes.next]
      /\ DOMAIN channel = DOMAIN notes.channel \ inputs
      /\ \A n \in DOMAIN channel : channel[n] = notes.channel[n]
      /\ channel \in [DOMAIN channel -> NoteChannels]
  BY Zenon, <1>1, <1>2 DEF LedgerOK, Without
<1> HIDE DEF channel
<1>5. /\ notes'.utxos = notes.utxos /\ notes'.channel = channel
      /\ notes'.service = notes.service /\ notes'.next = notes.next
  BY Zenon, <1>4
<1>6. LedgerOK(notes')
  BY Zenon, <1>2, <1>4, <1>5 DEF LedgerOK
<1>7. /\ v \in Nat /\ Worth(notes) \in Nat
      /\ totals' = [minted |-> totals.minted, fees |-> totals.fees, inflow |-> totals'.inflow]
      /\ totals'.inflow = [totals.inflow EXCEPT ![c] = @ - v]
      /\ totals.inflow \in [NoteChannels -> Int]
      /\ totals.minted \in Nat /\ totals.fees \in Nat
  BY Zenon, <1>1, <1>2, LedgerFinite DEF Worth, TotalsOK
<1> HIDE DEF v
<1>8. /\ TotalsOK(totals') /\ totals'.minted = totals.minted /\ totals'.fees = totals.fees
      /\ totals'.inflow[c] = totals.inflow[c] - v
      /\ \A d \in NoteChannels \ {c} : totals'.inflow[d] = totals.inflow[d]
  BY <1>7 DEF TotalsOK
<1>9. HoldingsOK(notes', totals')
  <2> SUFFICES ASSUME NEW d \in NoteChannels
               PROVE  Sum(Holding(notes', d), notes'.utxos) = totals'.inflow[d]
    BY Zenon DEF HoldingsOK
  <2> DEFINE H == Holding(notes, d)
  <2>1. Sum(H, notes.utxos) = totals.inflow[d]
    BY Zenon, <1>2 DEF AccountsOK, HoldingsOK
  <2>2. CASE d # c
    <3>1. Holding(notes', d) = H
      BY Zenon, <1>3, <1>4, <1>5, <2>2 DEF Holding
    <3> QED  BY Zenon, <1>5, <1>8, <2>1, <2>2, <3>1
  <2>3. CASE d = c
    <3>1. Holding(notes', d) = H \ inputs /\ inputs \subseteq H
      BY Zenon, <1>3, <1>4, <1>5, <2>3 DEF Holding
    <3>2. H \ inputs \in SUBSET DOMAIN notes.utxos /\ H \in SUBSET DOMAIN notes.utxos
      BY Zenon, <1>2 DEF LedgerOK, Holding
    <3>3. /\ IsFiniteSet(H \ inputs) /\ IsFiniteSet(inputs) /\ IntOn(H, notes.utxos)
      BY Zenon, <1>2, <3>2, LedgerFinite
    <3> HIDE DEF H
    <3>4. (H \ inputs) \cap inputs = {} /\ (H \ inputs) \cup inputs = H
      BY Zenon, <3>1
    <3>5. /\ Sum(H \ inputs, notes.utxos) \in Int
          /\ Sum((H \ inputs) \cup inputs, notes.utxos)
                = Sum(H \ inputs, notes.utxos) + Sum(inputs, notes.utxos)
      BY <3>3, <3>4, SumUnion
    <3>6. totals.inflow[d] = Sum(H \ inputs, notes.utxos) + v
      BY Zenon, <2>1, <3>4, <3>5 DEF v
    <3> QED  BY <1>5, <1>7, <1>8, <2>3, <3>1, <3>5, <3>6
  <2> QED  BY Zenon, <2>2, <2>3
<1>10. Worth(notes') = Worth(notes) + 0
  BY <1>5, <1>7 DEF Worth
<1>11. 0 + 0 + (totals'.fees - totals.fees) = totals'.minted - totals.minted
  BY <1>7, <1>8
<1>12. AccountsOK(notes', totals', tx.balance + 0)
  BY <1>2, <1>6, <1>8, <1>9, <1>10, <1>11, ReplaceAccounts
<1> QED  BY Zenon, <1>1, <1>12, OperationKeeps

\* ChannelTransfer: notes of the channel are spent and others created in it.
LEMMA ChannelTransferKeeps ==
    ASSUME NoteInv, NEW c \in NoteChannels, NEW inputs \in SUBSET DOMAIN notes.utxos,
           NEW outputs \in OutputValues, ChannelTransfer(c, inputs, outputs)
    PROVE  NoteInv'
PROOF
<1> DEFINE E == NewIds(Len(outputs))
           out == Created(outputs)
           channel == Merge(Without(notes.channel, inputs), Registered(E, c))
           v == Sum(inputs, notes.utxos)
<1>1. /\ Operation(0) /\ SpendableIn(c, inputs) /\ totals' = totals
      /\ outputs \in Seq(Nat) /\ OutputTotal(outputs) = v
  BY Zenon, NoteAssumption, ModelSums DEF ChannelTransfer, Balanced
<1>2. AccountsOK(notes, totals, tx.balance) /\ LedgerOK(notes) /\ TotalsOK(totals)
  BY Zenon, <1>1, OpenAccounts DEF Operation, AccountsOK
<1>3. /\ E \subseteq notes.next..(notes.next + Len(outputs) - 1)
      /\ out \in [E -> Nat] /\ Sum(E, out) = v
  BY Zenon, <1>1, <1>2, CreatedFacts
<1>4. notes' = Replaced(notes, inputs, out, Len(outputs), channel)
  BY Zenon, <1>2 DEF ChannelTransfer, Replaced, Exchange, LedgerOK
<1>5. /\ notes.channel \in [DOMAIN notes.channel -> NoteChannels]
      /\ inputs \cap notes.service = {} /\ Len(outputs) \in Nat
      /\ \A n \in inputs : n \in DOMAIN notes.channel /\ notes.channel[n] = c
      /\ DOMAIN notes.channel \subseteq DOMAIN notes.utxos
  BY <1>1, <1>2 DEF SpendableIn, LedgerOK
<1> HIDE DEF out, E
<1>6. /\ DOMAIN channel = (DOMAIN notes.channel \ inputs) \cup E
      /\ \A n \in E : channel[n] = c
      /\ \A n \in (DOMAIN notes.channel \ inputs) \ E : channel[n] = notes.channel[n]
      /\ channel \in [DOMAIN channel -> NoteChannels]
  BY Zenon, <1>5 DEF Merge, Registered, Without
<1> HIDE DEF channel
<1>7. ReplacedOK(notes, inputs, E, out, channel, notes')
  <2>1. DOMAIN channel \subseteq (DOMAIN notes.channel \ inputs) \cup E
    BY Zenon, <1>6
  <2> QED  BY Zenon, <1>2, <1>3, <1>4, <1>5, <1>6, <2>1, ReplaceKeeps
<1>8. /\ v \in Nat /\ Worth(notes) \in Nat /\ totals.minted \in Nat /\ totals.fees \in Nat
  BY Zenon, <1>2, LedgerFinite DEF Worth, TotalsOK
<1> HIDE DEF v
<1>9. HoldingsOK(notes', totals')
  <2> SUFFICES ASSUME NEW d \in NoteChannels
               PROVE  Sum(Holding(notes', d), notes'.utxos) = totals.inflow[d]
    BY Zenon, <1>1 DEF HoldingsOK
  <2> DEFINE H == Holding(notes, d)
  <2>1. H \in SUBSET DOMAIN notes.utxos /\ H \cap E = {}
    BY Zenon, <1>5, <1>7 DEF Holding, ReplacedOK
  <2>2. Sum(H, notes.utxos) = totals.inflow[d]
    BY Zenon, <1>2 DEF AccountsOK, HoldingsOK
  <2>3. /\ DOMAIN notes.channel \cap E = {} /\ notes'.channel = channel
        /\ \A K \in SUBSET (DOMAIN notes.utxos \ inputs) :
             Sum(K, notes'.utxos) = Sum(K, notes.utxos)
    BY Zenon, <1>5, <1>7 DEF ReplacedOK
  <2>4. CASE d # c
    <3>1. Holding(notes', d) = H /\ H \in SUBSET (DOMAIN notes.utxos \ inputs)
      BY <1>5, <1>6, <2>1, <2>3, <2>4 DEF Holding
    <3> QED  BY Zenon, <2>2, <2>3, <3>1
  <2>5. CASE d = c
    <3> DEFINE K == H \ inputs
    <3>1. Holding(notes', d) = K \cup E /\ inputs \subseteq H
      BY Zenon, <1>5, <1>6, <2>3, <2>5 DEF Holding
    <3>2. K \in SUBSET (DOMAIN notes.utxos \ inputs) /\ K \in SUBSET DOMAIN notes.utxos
      BY Zenon, <2>1
    <3>3. /\ IsFiniteSet(K) /\ IsFiniteSet(inputs) /\ IntOn(H, notes.utxos)
      BY Zenon, <1>2, <2>1, <3>2, LedgerFinite
    <3>4. K \cap inputs = {} /\ K \cup inputs = H /\ K \cap E = {}
      BY Zenon, <2>1, <3>1
    <3>5. IsFiniteSet(E) /\ IntOn(K \cup E, notes'.utxos)
      <4>1. K \cup E \subseteq DOMAIN notes'.utxos
        BY Zenon, <1>7, <3>2 DEF ReplacedOK
      <4> QED  BY Zenon, <1>7, <4>1 DEF ReplacedOK, IntOn
    <3> HIDE DEF H, K
    <3>6. /\ Sum(K, notes.utxos) \in Int
          /\ Sum(K \cup inputs, notes.utxos) = Sum(K, notes.utxos) + Sum(inputs, notes.utxos)
      BY <3>3, <3>4, SumUnion
    <3>7. totals.inflow[d] = Sum(K, notes.utxos) + v
      BY Zenon, <2>2, <3>4, <3>6 DEF v
    <3>8. Sum(K \cup E, notes'.utxos) = Sum(K, notes'.utxos) + Sum(E, notes'.utxos)
      BY <3>3, <3>4, <3>5, SumUnion
    <3>9. Sum(K, notes'.utxos) = Sum(K, notes.utxos) /\ Sum(E, notes'.utxos) = v
      BY Zenon, <1>3, <1>7, <2>3, <3>2 DEF ReplacedOK
    <3> QED  BY Zenon, <3>1, <3>7, <3>8, <3>9
  <2> QED  BY Zenon, <2>4, <2>5
<1>10. Worth(notes') = Worth(notes) + 0
  BY <1>3, <1>7, <1>8 DEF ReplacedOK, v
<1>11. LedgerOK(notes') /\ TotalsOK(totals')
  BY Zenon, <1>1, <1>2, <1>7 DEF ReplacedOK
<1>12. 0 + 0 + (totals'.fees - totals.fees) = totals'.minted - totals.minted
  BY <1>1, <1>8
<1>13. AccountsOK(notes', totals', tx.balance + 0)
  BY <1>2, <1>9, <1>10, <1>11, <1>12, ReplaceAccounts
<1> QED  BY Zenon, <1>1, <1>13, OperationKeeps

\* A stake is taken or released: only the marks change.
LEMMA StakeAccounts ==
    ASSUME NEW led, NEW tot, NEW balance, AccountsOK(led, tot, balance),
           NEW service \in SUBSET DOMAIN led.utxos, service \cap DOMAIN led.channel = {},
           NEW new, new = [led EXCEPT !.service = service]
    PROVE  AccountsOK(new, tot, balance)
PROOF
<1>1. LedgerOK(led)
  BY Zenon DEF AccountsOK
<1>2. /\ new = [utxos |-> led.utxos, channel |-> led.channel,
                service |-> service, next |-> led.next]
  BY Zenon, <1>1 DEF LedgerOK
<1>3. /\ new.utxos = led.utxos /\ new.channel = led.channel
      /\ new.service = service /\ new.next = led.next
  BY Zenon, <1>2
<1>4. LedgerOK(new)
  BY Zenon, <1>1, <1>2, <1>3 DEF LedgerOK
<1>5. HoldingsOK(new, tot) /\ BalanceOK(new, tot, balance)
  BY Zenon, <1>3 DEF AccountsOK, HoldingsOK, Holding, BalanceOK, Worth
<1> QED  BY Zenon, <1>4, <1>5 DEF AccountsOK

\* SDPDeclare: a note is locked for a service.
LEMMA DeclareKeeps ==
    ASSUME NoteInv, NEW n \in DOMAIN notes.utxos, DeclareNote(n)
    PROVE  NoteInv'
PROOF
<1>1. Operation(0) /\ totals' = totals /\ Stakeable(n)
      /\ notes' = [notes EXCEPT !.service = notes.service \cup {n}]
  BY Zenon DEF DeclareNote
<1>2. AccountsOK(notes, totals, tx.balance) /\ LedgerOK(notes)
  BY Zenon, <1>1, OpenAccounts DEF Operation, AccountsOK
<1>3. /\ notes.service \cup {n} \in SUBSET DOMAIN notes.utxos
      /\ (notes.service \cup {n}) \cap DOMAIN notes.channel = {}
  BY Zenon, <1>1, <1>2 DEF LedgerOK, Stakeable
<1>4. AccountsOK(notes', totals', tx.balance)
  BY Zenon, <1>1, <1>2, <1>3, StakeAccounts
<1>5. tx.balance + 0 = tx.balance
  BY <1>2 DEF AccountsOK, BalanceOK
<1>6. AccountsOK(notes', totals', tx.balance + 0)
  BY Zenon, <1>4, <1>5
<1> QED  BY Zenon, <1>1, <1>6, OperationKeeps

\* The service note is released after a withdrawal.
LEMMA ReleaseKeeps ==
    ASSUME NoteInv, NEW n \in DOMAIN notes.utxos, ReleaseNote(n)
    PROVE  NoteInv'
PROOF
<1>1. /\ tx' = tx /\ totals' = totals /\ ~tx.open
      /\ notes' = [notes EXCEPT !.service = notes.service \ {n}]
  BY Zenon DEF ReleaseNote
<1>2. tx = NoTx /\ AccountsOK(notes, totals, 0) /\ LedgerOK(notes)
  BY <1>1 DEF NoteInv, AccountsOK
<1>3. /\ notes.service \ {n} \in SUBSET DOMAIN notes.utxos
      /\ (notes.service \ {n}) \cap DOMAIN notes.channel = {}
  BY Zenon, <1>2 DEF LedgerOK
<1>4. AccountsOK(notes', totals', 0)
  BY Zenon, <1>1, <1>2, <1>3, StakeAccounts
<1> QED  BY Zenon, <1>1, <1>2, <1>4 DEF NoteInv, NoTx

\* A reward note is minted.
LEMMA RewardKeeps ==
    ASSUME NoteInv, NEW value \in Rewards, ClaimReward(value)
    PROVE  NoteInv'
PROOF
<1> DEFINE outputs == <<value>>
           E == NewIds(Len(outputs))
           out == Created(outputs)
<1>1. /\ Operation(0) /\ value \in Nat
      /\ totals' = [totals EXCEPT !.minted = @ + value]
      /\ notes' = [notes EXCEPT !.utxos = Merge(@, out), !.next = @ + 1]
  BY Zenon, NoteAssumption DEF ClaimReward
<1>2. AccountsOK(notes, totals, tx.balance) /\ LedgerOK(notes) /\ TotalsOK(totals)
  BY Zenon, <1>1, OpenAccounts DEF Operation, AccountsOK
<1>3. /\ outputs \in Seq(Nat) /\ Len(outputs) = 1 /\ DOMAIN outputs = {1} /\ outputs[1] = value
  BY <1>1
<1> HIDE DEF outputs
<1>4. /\ E \subseteq notes.next..(notes.next + Len(outputs) - 1)
      /\ out \in [E -> Nat] /\ Sum(E, out) = OutputTotal(outputs)
  BY Zenon, <1>2, <1>3, CreatedFacts
<1>5. OutputTotal(outputs) = value
  <2>1. OutputTotal(outputs) = Sum({1}, outputs)
    BY Zenon, <1>3, ModelSums
  <2>2. IsFiniteSet({}) /\ 1 \notin {} /\ IntOn({} \cup {1}, outputs) /\ {} \cup {1} = {1}
    BY <1>1, <1>3, FS_EmptySet DEF IntOn
  <2>3. \A T, x : IsFiniteSet(T) /\ x \notin T /\ IntOn(T \cup {x}, outputs)
                    => Sum(T \cup {x}, outputs) = Sum(T, outputs) + outputs[x]
    BY Zenon, SumInsert
  <2>4. Sum({} \cup {1}, outputs) = Sum({}, outputs) + outputs[1]
    BY Zenon, <2>2, <2>3
  <2> QED  BY <1>1, <1>3, <2>1, <2>2, <2>4, SumEmpty
<1> HIDE DEF E, out
<1>6. Without(notes.utxos, {}) = notes.utxos
  BY Zenon, <1>2 DEF Without, LedgerOK
<1>7. notes' = Replaced(notes, {}, out, 1, notes.channel)
  BY Zenon, <1>1, <1>2, <1>6 DEF Replaced, LedgerOK
<1>8. /\ notes.channel \in [DOMAIN notes.channel -> NoteChannels]
      /\ DOMAIN notes.channel \subseteq (DOMAIN notes.channel \ {}) \cup E
      /\ DOMAIN notes.channel \subseteq DOMAIN notes.utxos
      /\ {} \in SUBSET DOMAIN notes.utxos /\ {} \cap notes.service = {}
  BY Zenon, <1>2 DEF LedgerOK
<1>9. E \subseteq notes.next..(notes.next + 1 - 1)
  BY Zenon, <1>3, <1>4
<1>10. ReplacedOK(notes, {}, E, out, notes.channel, notes')
  <2>1. PICK I : I = {}
    BY Zenon
  <2>2. /\ DOMAIN notes.channel \subseteq (DOMAIN notes.channel \ I) \cup E
        /\ I \in SUBSET DOMAIN notes.utxos /\ I \cap notes.service = {}
    BY Zenon, <1>8, <2>1
  <2>3. ReplacedOK(notes, I, E, out, notes.channel, Replaced(notes, I, out, 1, notes.channel))
    BY Zenon, <1>2, <1>4, <1>8, <1>9, <2>2, ReplaceKeeps
  <2> QED  BY Zenon, <1>7, <2>1, <2>3
<1>11. /\ totals.minted \in Nat /\ totals.fees \in Nat /\ Worth(notes) \in Nat
       /\ totals' = [minted |-> totals.minted + value, fees |-> totals.fees,
                     inflow |-> totals.inflow]
  BY Zenon, <1>1, <1>2, LedgerFinite DEF TotalsOK, Worth
<1>12. /\ totals'.minted = totals.minted + value /\ totals'.fees = totals.fees
       /\ totals'.inflow = totals.inflow
  BY Zenon, <1>11
<1>13. TotalsOK(totals')
  BY <1>1, <1>2, <1>11, <1>12 DEF TotalsOK
<1>14. Worth(notes') = Worth(notes) + value
  BY <1>4, <1>5, <1>10, <1>11, <1>1, SumEmpty DEF ReplacedOK
<1>15. HoldingsOK(notes', totals')
  <2> SUFFICES ASSUME NEW c \in NoteChannels
               PROVE  Sum(Holding(notes', c), notes'.utxos) = totals.inflow[c]
    BY Zenon, <1>12 DEF HoldingsOK
  <2>1. Holding(notes', c) = Holding(notes, c)
    BY Zenon, <1>10 DEF Holding, ReplacedOK
  <2>2. Holding(notes, c) \in SUBSET (DOMAIN notes.utxos \ {})
    BY Zenon, <1>8 DEF Holding
  <2>3. Sum(Holding(notes, c), notes.utxos) = totals.inflow[c]
    BY Zenon, <1>2 DEF AccountsOK, HoldingsOK
  <2>4. Sum(Holding(notes, c), notes'.utxos) = Sum(Holding(notes, c), notes.utxos)
    BY Zenon, <1>10, <2>2 DEF ReplacedOK
  <2> QED  BY Zenon, <2>1, <2>3, <2>4
<1>16. LedgerOK(notes')
  BY Zenon, <1>10 DEF ReplacedOK
<1>17. value \in Int /\ value + 0 + (totals'.fees - totals.fees) = totals'.minted - totals.minted
  BY <1>1, <1>11, <1>12
<1>18. AccountsOK(notes', totals', tx.balance + 0)
  BY <1>2, <1>13, <1>14, <1>15, <1>16, <1>17, ReplaceAccounts
<1> QED  BY Zenon, <1>1, <1>18, OperationKeeps

\* A transaction starts from the accounts as they are.
LEMMA BeginKeeps == ASSUME NoteInv, BeginTx PROVE NoteInv'
PROOF
<1>1. /\ AccountsOK(notes, totals, 0) /\ notes' = notes /\ totals' = totals
      /\ tx' = [open |-> TRUE, ops |-> 0, balance |-> 0, start |-> notes, totals |-> totals]
  BY DEF NoteInv, BeginTx
<1>2. /\ tx' = [open |-> TRUE, ops |-> tx'.ops, balance |-> tx'.balance,
                start |-> tx'.start, totals |-> tx'.totals]
      /\ tx'.balance = 0 /\ tx'.start = notes /\ tx'.totals = totals
  BY Zenon, <1>1
<1> QED  BY Zenon, <1>1, <1>2 DEF NoteInv

\* The balance left when a transaction is committed is its fee.
LEMMA CommitTxKeeps == ASSUME NoteInv, NEW cost \in GasCosts, CommitTx(cost) PROVE NoteInv'
PROOF
<1>1. /\ tx.open /\ tx.balance >= cost /\ cost \in Nat /\ tx' = NoTx /\ notes' = notes
      /\ totals' = [totals EXCEPT !.fees = @ + tx.balance]
  BY Zenon, NoteAssumption DEF CommitTx, CoversGas
<1>2. AccountsOK(notes, totals, tx.balance)
  BY Zenon, <1>1, OpenAccounts
<1>3. /\ tx.balance \in Int /\ totals.fees \in Nat /\ totals.minted \in Nat
      /\ LedgerOK(notes) /\ Worth(notes) \in Nat /\ Genesis \in Nat
      /\ Worth(notes) + totals.fees + tx.balance = Genesis + totals.minted
  BY Zenon, <1>2, LedgerFinite, GenesisType DEF AccountsOK, BalanceOK, TotalsOK, Worth
<1>4. /\ totals' = [minted |-> totals.minted, fees |-> totals.fees + tx.balance,
                    inflow |-> totals.inflow]
      /\ totals.inflow \in [NoteChannels -> Int]
  BY Zenon, <1>1, <1>2 DEF AccountsOK, TotalsOK
<1>5. /\ totals'.minted = totals.minted /\ totals'.fees = totals.fees + tx.balance
      /\ totals'.inflow = totals.inflow /\ totals.fees + tx.balance \in Nat
  BY <1>1, <1>3, <1>4
<1>6. TotalsOK(totals')
  BY Zenon, <1>3, <1>4, <1>5 DEF TotalsOK
<1>7. HoldingsOK(notes', totals')
  BY Zenon, <1>1, <1>2, <1>5 DEF AccountsOK, HoldingsOK
<1>8. Worth(notes) + (totals.fees + tx.balance) + 0 = Genesis + totals.minted
  BY <1>3
<1>9. BalanceOK(notes', totals', 0)
  BY <1>1, <1>5, <1>8 DEF BalanceOK
<1> QED  BY Zenon, <1>1, <1>3, <1>6, <1>7, <1>9 DEF NoteInv, AccountsOK, NoTx

\* A refused transaction leaves the accounts as they were before it.
LEMMA RefuseKeeps == ASSUME NoteInv, RefuseTx PROVE NoteInv'
PROOF
<1>1. AccountsOK(tx.start, tx.totals, 0)
  BY DEF NoteInv, RefuseTx, NoTx
<1> QED  BY Zenon, <1>1 DEF NoteInv, RefuseTx, NoTx

\* The genesis ledger satisfies the invariant.
LEMMA NoteInitInv == NoteInit => NoteInv
PROOF
<1> SUFFICES ASSUME NoteInit PROVE NoteInv
  BY Zenon
<1> DEFINE D == 1..Len(GenesisNotes)
<1>1. /\ notes = [utxos |-> [n \in D |-> GenesisNotes[n]],
                  channel |-> <<>>, service |-> {}, next |-> Len(GenesisNotes) + 1]
      /\ tx = NoTx /\ totals = [minted |-> 0, fees |-> 0, inflow |-> NoFlow]
  BY Zenon DEF NoteInit
<1>2. GenesisNotes \in Seq(Nat) /\ Len(GenesisNotes) \in Nat /\ DOMAIN GenesisNotes = D
  BY NoteAssumption
<1>3. /\ notes.utxos = GenesisNotes /\ notes.channel = <<>> /\ notes.service = {}
      /\ notes.next = Len(GenesisNotes) + 1 /\ DOMAIN notes.utxos = D
      /\ notes = [utxos |-> notes.utxos, channel |-> notes.channel,
                  service |-> notes.service, next |-> notes.next]
  BY <1>1, <1>2
<1>4. DOMAIN notes.channel = {} /\ notes.channel \in [{} -> NoteChannels]
  BY <1>3
<1>5. LedgerOK(notes)
  <2>1. notes.utxos \in [D -> Nat]
    BY <1>2, <1>3
  <2>2. D \subseteq 0..(notes.next - 1) /\ notes.next \in Nat
    BY <1>2, <1>3
  <2> HIDE DEF D
  <2> QED  BY Zenon, <1>3, <1>4, <2>1, <2>2 DEF LedgerOK
<1>6. TotalsOK(totals) /\ \A c \in NoteChannels : totals.inflow[c] = 0
  BY <1>1 DEF TotalsOK, NoFlow
<1>7. HoldingsOK(notes, totals)
  <2>1. \A c \in NoteChannels : Holding(notes, c) = {}
    BY Zenon, <1>4 DEF Holding
  <2> QED  BY Zenon, <1>6, <2>1, SumEmpty DEF HoldingsOK
<1>8. BalanceOK(notes, totals, 0)
  <2>1. Worth(notes) = Genesis
    BY Zenon, <1>3 DEF Worth, Genesis
  <2>2. totals.fees = 0 /\ totals.minted = 0
    BY Zenon, <1>1
  <2> QED  BY <2>1, <2>2, GenesisType DEF BalanceOK
<1> QED  BY Zenon, <1>1, <1>5, <1>6, <1>7, <1>8 DEF NoteInv, AccountsOK

\* Every step keeps the invariant.
LEMMA NoteNextInv == NoteInv /\ [NoteNext]_noteVars => NoteInv'
PROOF
<1> SUFFICES ASSUME NoteInv, [NoteNext]_noteVars PROVE NoteInv'
  BY Zenon
<1>1. CASE UNCHANGED noteVars
  BY Zenon, <1>1 DEF NoteInv, noteVars
<1>2. CASE NoteNext
  BY Zenon, <1>2, BeginKeeps, TransferKeeps, DepositKeeps, WithdrawKeeps, ChannelTransferKeeps,
     DeclareKeeps, ReleaseKeeps, RewardKeeps, CommitTxKeeps, RefuseKeeps DEF NoteNext
<1> QED  BY Zenon, <1>1, <1>2

\* The invariant implies the property.
LEMMA NoteInvImplies == NoteInv => NotesAreSound
PROOF
<1> SUFFICES ASSUME NoteInv PROVE NotesAreSound
  BY Zenon
<1>1. PICK b : AccountsOK(notes, totals, b) /\ (tx.open \/ b = 0)
  BY DEF NoteInv, NoTx
<1>2. LedgerOK(notes) /\ TotalsOK(totals) /\ HoldingsOK(notes, totals) /\ BalanceOK(notes, totals, b)
  BY Zenon, <1>1 DEF AccountsOK
<1>3. HeldOneWay
  BY Zenon, <1>2 DEF HeldOneWay, LedgerOK
<1>4. ValueConserved
  <2>1. totals.fees \in Nat /\ Worth(notes) \in Nat
    BY Zenon, <1>2, LedgerFinite DEF TotalsOK, Worth
  <2>2. Worth(notes) + totals.fees + b = Genesis + totals.minted
    BY Zenon, <1>2 DEF BalanceOK
  <2>3. /\ TotalValue(DOMAIN notes.utxos, notes.utxos) = Worth(notes)
        /\ OutputTotal(GenesisNotes) = Genesis
    BY Zenon, ModelSums DEF Worth, Genesis
  <2> QED  BY <1>1, <2>1, <2>2, <2>3 DEF ValueConserved
<1>5. ChannelFundsKept
  <2>1. \A c \in NoteChannels :
          TotalValue(Holding(notes, c), notes.utxos) = totals.inflow[c]
    BY Zenon, <1>2, ModelSums DEF HoldingsOK
  <2> QED  BY Zenon, <2>1 DEF ChannelFundsKept, Holding
<1> QED  BY Zenon, <1>3, <1>4, <1>5 DEF NotesAreSound

\* Whatever the genesis notes, the channels, the outputs and the rewards, no
\* sequence of operations and transactions, refused ones included, creates or
\* destroys value, holds a note two ways, or changes what a channel holds other
\* than by a deposit or a withdrawal.
THEOREM ValueIsConserved == NoteSpec => []NotesAreSound
PROOF
<1>1. NoteInit => NoteInv
  BY Zenon, NoteInitInv
<1>2. NoteInv /\ [NoteNext]_noteVars => NoteInv'
  BY Zenon, NoteNextInv
<1>3. NoteInv => NotesAreSound
  BY Zenon, NoteInvImplies
<1> QED  BY <1>1, <1>2, <1>3, PTL DEF NoteSpec

-----------------------------------------------------------------------------
(* The wallet's view of its notes. *)

\* The view is what the ledger has for the wallet's keys, and no note that does
\* not exist yet is the wallet's.
ViewOK(led, ours, v, skipped) ==
    /\ v = [utxos |-> (ours \ skipped) \cap DOMAIN led.utxos,
            service_notes |-> (ours \ skipped) \cap led.service,
            channel_notes |-> (ours \ skipped) \cap DOMAIN led.channel]
    /\ ours \subseteq 0..(led.next - 1)
    /\ skipped \subseteq 0..(led.next - 1)

\* A refused transaction goes back to a view that was right.
WalletInv ==
    /\ NoteInv
    /\ ViewOK(notes, owned, view, missed)
    /\ tx.open => ViewOK(tx.start, before[1], before[2], before[3])

\* An operation keeps the view that a refusal goes back to.
LEMMA StartKept ==
    ASSUME WalletInv, NEW b, Operation(b), before' = before, NoteInv',
           ViewOK(notes', owned', view', missed')
    PROVE  WalletInv'
PROOF
<1>1. tx.open
  BY Zenon DEF Operation
<1>2. tx'.start = tx.start
  BY Zenon, <1>1 DEF Operation, WalletInv, NoteInv, NoTx
<1>3. ViewOK(tx.start, before[1], before[2], before[3])
  BY Zenon, <1>1 DEF WalletInv
<1> QED  BY Zenon, <1>2, <1>3 DEF WalletInv

\* The ledger of the composition is well-formed.
LEMMA WalletLedger == WalletInv => LedgerOK(notes)
  BY Zenon DEF WalletInv, NoteInv, AccountsOK

\* Transfer, seen by the wallet.
LEMMA WalletTransferKeeps ==
    ASSUME WalletInv, NEW inputs \in SUBSET DOMAIN notes.utxos, NEW outputs \in OutputValues,
           WalletTransfer(inputs, outputs)
    PROVE  WalletInv'
PROOF
<1> DEFINE E == NewIds(Len(outputs))
<1>1. Transfer(inputs, outputs) /\ missed' = missed /\ before' = before /\ NoteInv
  BY Zenon DEF WalletTransfer, WalletInv
<1>2. PICK mine \in SUBSET E :
        owned' = owned \cup mine /\ view' = [view EXCEPT !.utxos = (@ \ inputs) \cup mine]
  BY Zenon DEF WalletTransfer, Fresh
<1>3. LedgerOK(notes) /\ ViewOK(notes, owned, view, missed) /\ outputs \in Seq(Nat)
  BY Zenon, WalletLedger, NoteAssumption DEF WalletInv
<1>4. /\ notes.next \in Nat /\ Len(outputs) \in Nat
      /\ owned \subseteq 0..(notes.next - 1) /\ missed \subseteq 0..(notes.next - 1)
      /\ DOMAIN notes.utxos \subseteq 0..(notes.next - 1)
  BY <1>3 DEF LedgerOK, ViewOK
<1>5. /\ DOMAIN notes'.utxos = (DOMAIN notes.utxos \ inputs) \cup E
      /\ notes'.service = notes.service /\ notes'.channel = notes.channel
      /\ notes'.next = notes.next + Len(outputs)
  BY Zenon, <1>1, <1>3 DEF Transfer, LedgerOK, Exchange, Created, Merge, Without
<1>6. inputs \cap notes.service = {} /\ inputs \cap DOMAIN notes.channel = {}
      /\ DOMAIN notes.channel \subseteq DOMAIN notes.utxos
      /\ notes.service \subseteq DOMAIN notes.utxos
  BY Zenon, <1>1, <1>3 DEF Transfer, Spendable, LedgerOK
<1>7. E \cap (0..(notes.next - 1)) = {} /\ E \subseteq 0..((notes.next + Len(outputs)) - 1)
      /\ 0..(notes.next - 1) \subseteq 0..((notes.next + Len(outputs)) - 1)
  BY <1>4 DEF NewIds
<1>8. view' = [utxos |-> (view.utxos \ inputs) \cup mine,
               service_notes |-> view.service_notes, channel_notes |-> view.channel_notes]
  BY Zenon, <1>2, <1>3 DEF ViewOK
<1> HIDE DEF E
<1>9. /\ view.utxos = (owned \ missed) \cap DOMAIN notes.utxos
      /\ view.service_notes = (owned \ missed) \cap notes.service
      /\ view.channel_notes = (owned \ missed) \cap DOMAIN notes.channel
  BY Zenon, <1>3 DEF ViewOK
<1> DEFINE N == 0..(notes.next - 1)
           N2 == 0..((notes.next + Len(outputs)) - 1)
<1>10. /\ owned \subseteq N /\ missed \subseteq N /\ DOMAIN notes.utxos \subseteq N
       /\ E \cap N = {} /\ E \subseteq N2 /\ N \subseteq N2
  BY Zenon, <1>4, <1>7
<1> HIDE DEF N, N2
<1>11. /\ (view.utxos \ inputs) \cup mine = (owned' \ missed) \cap DOMAIN notes'.utxos
       /\ view.service_notes = (owned' \ missed) \cap notes'.service
       /\ view.channel_notes = (owned' \ missed) \cap DOMAIN notes'.channel
  BY Zenon, <1>2, <1>5, <1>6, <1>9, <1>10
<1>12. owned' \subseteq N2 /\ missed \subseteq N2
  BY Zenon, <1>2, <1>10
<1>13. ViewOK(notes', owned', view', missed')
  BY Zenon, <1>1, <1>5, <1>8, <1>11, <1>12 DEF ViewOK, N2
<1>14. NoteInv'
  BY Zenon, <1>1, TransferKeeps
<1> QED  BY Zenon, <1>1, <1>13, <1>14, StartKept DEF Transfer

\* ChannelDeposit, seen by the wallet.
LEMMA WalletDepositKeeps ==
    ASSUME WalletInv, NEW c \in NoteChannels, NEW inputs \in SUBSET DOMAIN notes.utxos,
           WalletDeposit(c, inputs)
    PROVE  WalletInv'
PROOF
<1> DEFINE E == DOMAIN DepositOutputs(inputs)
           R(S) == {Recreated(inputs, n) : n \in inputs \cap S}
<1>1. /\ Deposit(c, inputs) /\ before' = before /\ NoteInv
      /\ owned' = owned \cup R(owned) /\ missed' = missed \cup R(missed)
      /\ view' = DepositView(inputs)
  BY Zenon DEF WalletDeposit, WalletInv, Fresh
<1>2. LedgerOK(notes) /\ ViewOK(notes, owned, view, missed)
  BY Zenon, WalletLedger DEF WalletInv
<1>3. /\ Cardinality(inputs) \in Nat
      /\ E = {Recreated(inputs, n) : n \in inputs}
      /\ E \subseteq notes.next..(notes.next + Cardinality(inputs) - 1)
      /\ \A n, k \in inputs : Recreated(inputs, n) = Recreated(inputs, k) => n = k
  BY Zenon, <1>2, MovedFacts
<1>4. /\ notes.next \in Nat
      /\ owned \subseteq 0..(notes.next - 1) /\ missed \subseteq 0..(notes.next - 1)
      /\ DOMAIN notes.utxos \subseteq 0..(notes.next - 1)
  BY Zenon, <1>2 DEF LedgerOK, ViewOK
<1>5. /\ DOMAIN notes'.utxos = (DOMAIN notes.utxos \ inputs) \cup E
      /\ notes'.service = notes.service
      /\ DOMAIN notes'.channel = DOMAIN notes.channel \cup E
      /\ notes'.next = notes.next + Cardinality(inputs)
  BY Zenon, <1>1, <1>2 DEF Deposit, LedgerOK, Merge, Without, Registered
<1>6. inputs \cap notes.service = {} /\ inputs \cap DOMAIN notes.channel = {}
      /\ DOMAIN notes.channel \subseteq DOMAIN notes.utxos
      /\ notes.service \subseteq DOMAIN notes.utxos
  BY Zenon, <1>1, <1>2 DEF Deposit, Spendable, LedgerOK
<1> DEFINE N == 0..(notes.next - 1)
           N2 == 0..((notes.next + Cardinality(inputs)) - 1)
<1>7. E \cap N = {} /\ E \subseteq N2 /\ N \subseteq N2
  BY <1>3, <1>4
<1>8. /\ owned \subseteq N /\ missed \subseteq N /\ DOMAIN notes.utxos \subseteq N
  BY Zenon, <1>4
<1>9. /\ view.utxos = (owned \ missed) \cap DOMAIN notes.utxos
      /\ view.service_notes = (owned \ missed) \cap notes.service
      /\ view.channel_notes = (owned \ missed) \cap DOMAIN notes.channel
  BY Zenon, <1>2 DEF ViewOK
<1>10. view' = [utxos |-> (view.utxos \ inputs) \cup R(view.utxos),
                service_notes |-> view.service_notes,
                channel_notes |-> view.channel_notes \cup R(view.utxos)]
  BY Zenon, <1>1, <1>2 DEF ViewOK, DepositView
<1>11. /\ R(owned) \subseteq E /\ R(missed) \subseteq E
       /\ R(view.utxos) = R(owned) \ R(missed)
  <2>1. inputs \cap view.utxos = (inputs \cap owned) \ (inputs \cap missed)
    BY Zenon, <1>9
  <2> HIDE DEF E
  <2> QED  BY <1>3, <2>1
<1> HIDE DEF E, N, N2, R
<1>12. /\ (view.utxos \ inputs) \cup R(view.utxos) = (owned' \ missed') \cap DOMAIN notes'.utxos
  BY Zenon, <1>1, <1>5, <1>7, <1>8, <1>9, <1>11
<1>13. view.service_notes = (owned' \ missed') \cap notes'.service
  BY Zenon, <1>1, <1>5, <1>6, <1>7, <1>8, <1>9, <1>11
<1>14. view.channel_notes \cup R(view.utxos) = (owned' \ missed') \cap DOMAIN notes'.channel
  BY Zenon, <1>1, <1>5, <1>6, <1>7, <1>8, <1>9, <1>11
<1>15. owned' \subseteq N2 /\ missed' \subseteq N2
  BY Zenon, <1>1, <1>7, <1>8, <1>11
<1>16. ViewOK(notes', owned', view', missed')
  BY Zenon, <1>5, <1>10, <1>12, <1>13, <1>14, <1>15 DEF ViewOK, N2
<1>17. NoteInv'
  BY Zenon, <1>1, DepositKeeps
<1> QED  BY Zenon, <1>1, <1>16, <1>17, StartKept DEF Deposit

\* ChannelTransfer, seen by the wallet.
LEMMA WalletChannelTransferKeeps ==
    ASSUME WalletInv, NEW c \in NoteChannels, NEW inputs \in SUBSET DOMAIN notes.utxos,
           NEW outputs \in OutputValues, WalletChannelTransfer(c, inputs, outputs)
    PROVE  WalletInv'
PROOF
<1> DEFINE E == NewIds(Len(outputs))
<1>1. ChannelTransfer(c, inputs, outputs) /\ missed' = missed /\ before' = before /\ NoteInv
  BY Zenon DEF WalletChannelTransfer, WalletInv
<1>2. PICK mine \in SUBSET E :
        owned' = owned \cup mine /\ view' = ChannelTransferView(inputs, mine)
  BY Zenon DEF WalletChannelTransfer, Fresh
<1>3. LedgerOK(notes) /\ ViewOK(notes, owned, view, missed) /\ outputs \in Seq(Nat)
  BY Zenon, WalletLedger, NoteAssumption DEF WalletInv
<1>4. /\ notes.next \in Nat /\ Len(outputs) \in Nat
      /\ owned \subseteq 0..(notes.next - 1) /\ missed \subseteq 0..(notes.next - 1)
      /\ DOMAIN notes.utxos \subseteq 0..(notes.next - 1)
  BY <1>3 DEF LedgerOK, ViewOK
<1>5. /\ DOMAIN notes'.utxos = (DOMAIN notes.utxos \ inputs) \cup E
      /\ notes'.service = notes.service
      /\ DOMAIN notes'.channel = (DOMAIN notes.channel \ inputs) \cup E
      /\ notes'.next = notes.next + Len(outputs)
  BY Zenon, <1>1, <1>3 DEF ChannelTransfer, LedgerOK, Exchange, Created, Merge, Without, Registered
<1>6. inputs \cap notes.service = {}
      /\ DOMAIN notes.channel \subseteq DOMAIN notes.utxos
      /\ notes.service \subseteq DOMAIN notes.utxos
  BY Zenon, <1>1, <1>3 DEF ChannelTransfer, SpendableIn, LedgerOK
<1> DEFINE N == 0..(notes.next - 1)
           N2 == 0..((notes.next + Len(outputs)) - 1)
<1>7. E \cap N = {} /\ E \subseteq N2 /\ N \subseteq N2
  BY <1>4 DEF NewIds
<1>8. /\ owned \subseteq N /\ missed \subseteq N /\ DOMAIN notes.utxos \subseteq N
  BY Zenon, <1>4
<1>9. /\ view.utxos = (owned \ missed) \cap DOMAIN notes.utxos
      /\ view.service_notes = (owned \ missed) \cap notes.service
      /\ view.channel_notes = (owned \ missed) \cap DOMAIN notes.channel
  BY Zenon, <1>3 DEF ViewOK
<1>10. view' = [utxos |-> (view.utxos \ inputs) \cup mine,
                service_notes |-> view.service_notes,
                channel_notes |-> (view.channel_notes \ inputs) \cup mine]
  BY Zenon, <1>2, <1>3 DEF ViewOK, ChannelTransferView
<1> HIDE DEF E, N, N2
<1>11. (view.utxos \ inputs) \cup mine = (owned' \ missed) \cap DOMAIN notes'.utxos
  BY Zenon, <1>2, <1>5, <1>7, <1>8, <1>9
<1>12. view.service_notes = (owned' \ missed) \cap notes'.service
  BY Zenon, <1>2, <1>5, <1>6, <1>7, <1>8, <1>9
<1>13. (view.channel_notes \ inputs) \cup mine = (owned' \ missed) \cap DOMAIN notes'.channel
  BY Zenon, <1>2, <1>5, <1>6, <1>7, <1>8, <1>9
<1>14. owned' \subseteq N2 /\ missed \subseteq N2
  BY Zenon, <1>2, <1>7, <1>8
<1>15. ViewOK(notes', owned', view', missed')
  BY Zenon, <1>1, <1>5, <1>10, <1>11, <1>12, <1>13, <1>14 DEF ViewOK, N2
<1>16. NoteInv'
  BY Zenon, <1>1, ChannelTransferKeeps
<1> QED  BY Zenon, <1>1, <1>15, <1>16, StartKept DEF ChannelTransfer

\* ChannelWithdraw, seen by the wallet.
LEMMA WalletWithdrawKeeps ==
    ASSUME WalletInv, NEW c \in NoteChannels, NEW inputs \in SUBSET DOMAIN notes.utxos,
           WalletChannelWithdraw(c, inputs)
    PROVE  WalletInv'
PROOF
<1>1. /\ ChannelWithdraw(c, inputs) /\ NoteInv
      /\ owned' = owned /\ missed' = missed /\ before' = before
      /\ view' = [view EXCEPT !.channel_notes = @ \ inputs]
  BY Zenon DEF WalletChannelWithdraw, WalletInv
<1>2. LedgerOK(notes) /\ ViewOK(notes, owned, view, missed)
  BY Zenon, WalletLedger DEF WalletInv
<1>3. /\ notes'.utxos = notes.utxos /\ notes'.service = notes.service
      /\ notes'.next = notes.next /\ DOMAIN notes'.channel = DOMAIN notes.channel \ inputs
  BY Zenon, <1>1, <1>2 DEF ChannelWithdraw, LedgerOK, Without
<1>4. view' = [utxos |-> view.utxos, service_notes |-> view.service_notes,
               channel_notes |-> view.channel_notes \ inputs]
  BY Zenon, <1>1, <1>2 DEF ViewOK
<1>5. ViewOK(notes', owned', view', missed')
  BY Zenon, <1>1, <1>2, <1>3, <1>4 DEF ViewOK
<1>6. NoteInv'
  BY Zenon, <1>1, WithdrawKeeps
<1> QED  BY Zenon, <1>1, <1>5, <1>6, StartKept DEF ChannelWithdraw

\* SDPDeclare, seen by the wallet.
LEMMA WalletDeclareKeeps ==
    ASSUME WalletInv, NEW n \in DOMAIN notes.utxos, WalletDeclare(n)
    PROVE  WalletInv'
PROOF
<1>1. /\ DeclareNote(n) /\ NoteInv /\ view' = Locked(n)
      /\ owned' = owned /\ missed' = missed /\ before' = before
  BY Zenon DEF WalletDeclare, WalletInv
<1>2. LedgerOK(notes) /\ ViewOK(notes, owned, view, missed)
  BY Zenon, WalletLedger DEF WalletInv
<1>3. /\ notes'.utxos = notes.utxos /\ notes'.service = notes.service \cup {n}
      /\ notes'.next = notes.next /\ notes'.channel = notes.channel
  BY Zenon, <1>1, <1>2 DEF DeclareNote, LedgerOK
<1>4. view' = [utxos |-> view.utxos, channel_notes |-> view.channel_notes,
               service_notes |-> (owned \ missed) \cap (notes.service \cup {n})]
  <2>1. CASE n \in view.utxos
    BY Zenon, <1>1, <1>2, <2>1 DEF ViewOK, Locked
  <2>2. CASE n \notin view.utxos
    BY Zenon, <1>1, <1>2, <2>2 DEF ViewOK, Locked
  <2> QED  BY Zenon, <2>1, <2>2
<1>5. ViewOK(notes', owned', view', missed')
  BY Zenon, <1>1, <1>2, <1>3, <1>4 DEF ViewOK
<1>6. NoteInv'
  BY Zenon, <1>1, DeclareKeeps
<1> QED  BY Zenon, <1>1, <1>5, <1>6, StartKept DEF DeclareNote

\* The release of a service note, seen by the wallet.
LEMMA WalletReleaseKeeps ==
    ASSUME WalletInv, NEW n \in DOMAIN notes.utxos, WalletRelease(n)
    PROVE  WalletInv'
PROOF
<1>1. /\ ReleaseNote(n) /\ NoteInv /\ tx' = tx /\ ~tx.open
      /\ view' = [view EXCEPT !.service_notes = @ \ {n}]
      /\ owned' = owned /\ missed' = missed
  BY Zenon DEF WalletRelease, WalletInv, ReleaseNote
<1>2. LedgerOK(notes) /\ ViewOK(notes, owned, view, missed)
  BY Zenon, WalletLedger DEF WalletInv
<1>3. /\ notes'.utxos = notes.utxos /\ notes'.service = notes.service \ {n}
      /\ notes'.next = notes.next /\ notes'.channel = notes.channel
  BY Zenon, <1>1, <1>2 DEF ReleaseNote, LedgerOK
<1>4. view' = [utxos |-> view.utxos, channel_notes |-> view.channel_notes,
               service_notes |-> view.service_notes \ {n}]
  BY Zenon, <1>1, <1>2 DEF ViewOK
<1>5. ViewOK(notes', owned', view', missed')
  BY Zenon, <1>1, <1>2, <1>3, <1>4 DEF ViewOK
<1>6. NoteInv'
  BY Zenon, <1>1, ReleaseKeeps
<1> QED  BY Zenon, <1>1, <1>5, <1>6 DEF WalletInv

\* A reward note, seen by the wallet.
LEMMA WalletRewardKeeps ==
    ASSUME WalletInv, NEW value \in Rewards, WalletReward(value)
    PROVE  WalletInv'
PROOF
<1>1. ClaimReward(value) /\ before' = before /\ NoteInv
  BY Zenon DEF WalletReward, WalletInv
<1>2. PICK mine \in SUBSET {notes.next} :
        /\ owned' = owned \cup mine
        /\ \/ view' = [view EXCEPT !.utxos = @ \cup mine] /\ missed' = missed
           \/ view' = view /\ missed' = missed \cup mine
  BY Zenon DEF WalletReward, Fresh
<1>3. LedgerOK(notes) /\ ViewOK(notes, owned, view, missed)
  BY Zenon, WalletLedger DEF WalletInv
<1>4. notes.next \in Nat
  BY Zenon, <1>3 DEF LedgerOK
<1>5. NewIds(Len(<<value>>)) = {notes.next}
  BY <1>4 DEF NewIds
<1>6. /\ DOMAIN notes'.utxos = DOMAIN notes.utxos \cup {notes.next}
      /\ notes'.service = notes.service /\ notes'.channel = notes.channel
      /\ notes'.next = notes.next + 1
  BY Zenon, <1>1, <1>3, <1>5 DEF ClaimReward, LedgerOK, Created, Merge
<1> DEFINE N == 0..(notes.next - 1)
           N2 == 0..((notes.next + 1) - 1)
<1>7. notes.next \notin N /\ notes.next \in N2 /\ N \subseteq N2
  BY <1>4
<1>8. /\ owned \subseteq N /\ missed \subseteq N /\ DOMAIN notes.utxos \subseteq N
      /\ DOMAIN notes.channel \subseteq DOMAIN notes.utxos
      /\ notes.service \subseteq DOMAIN notes.utxos
  BY Zenon, <1>3 DEF LedgerOK, ViewOK
<1>9. /\ view.utxos = (owned \ missed) \cap DOMAIN notes.utxos
      /\ view.service_notes = (owned \ missed) \cap notes.service
      /\ view.channel_notes = (owned \ missed) \cap DOMAIN notes.channel
      /\ view = [utxos |-> view.utxos, service_notes |-> view.service_notes,
                 channel_notes |-> view.channel_notes]
  BY Zenon, <1>3 DEF ViewOK
<1> HIDE DEF N, N2
<1>10. owned' \subseteq N2 /\ missed' \subseteq N2
  BY Zenon, <1>2, <1>7, <1>8
<1>11. /\ view.service_notes = (owned' \ missed') \cap notes'.service
       /\ view.channel_notes = (owned' \ missed') \cap DOMAIN notes'.channel
  <2>1. (owned' \ missed') \cap N = (owned \ missed) \cap N
    BY Zenon, <1>2, <1>7
  <2> QED  BY Zenon, <1>6, <1>8, <1>9, <2>1
<1>12. ASSUME view' = [view EXCEPT !.utxos = @ \cup mine] /\ missed' = missed
       PROVE  ViewOK(notes', owned', view', missed')
  <2>1. view' = [utxos |-> view.utxos \cup mine, service_notes |-> view.service_notes,
                 channel_notes |-> view.channel_notes]
    BY Zenon, <1>9, <1>12
  <2>2. view.utxos \cup mine = (owned' \ missed') \cap DOMAIN notes'.utxos
    BY <1>2, <1>6, <1>7, <1>8, <1>9, <1>12
  <2> QED  BY Zenon, <1>6, <1>10, <1>11, <2>1, <2>2 DEF ViewOK, N2
<1>13. ASSUME view' = view /\ missed' = missed \cup mine
       PROVE  ViewOK(notes', owned', view', missed')
  <2>1. view.utxos = (owned' \ missed') \cap DOMAIN notes'.utxos
    BY <1>2, <1>6, <1>7, <1>8, <1>9, <1>13
  <2> QED  BY Zenon, <1>6, <1>9, <1>10, <1>11, <1>13, <2>1 DEF ViewOK, N2
<1>14. NoteInv'
  BY Zenon, <1>1, RewardKeeps
<1>15. ViewOK(notes', owned', view', missed')
  BY Zenon, <1>2, <1>12, <1>13
<1> QED  BY Zenon, <1>1, <1>14, <1>15, StartKept DEF ClaimReward

\* Every step keeps the wallet's invariant.
LEMMA WalletNextInv == WalletInv /\ [WalletNotesNext]_walletNoteVars => WalletInv'
PROOF
<1> SUFFICES ASSUME WalletInv, [WalletNotesNext]_walletNoteVars PROVE WalletInv'
  BY Zenon
<1>1. CASE WalletBegin
  <2>1. BeginTx /\ before' = <<owned, view, missed>> /\ UNCHANGED <<owned, view, missed>>
    BY Zenon, <1>1 DEF WalletBegin
  <2>2. notes' = notes /\ tx'.start = notes
    BY Zenon, <2>1 DEF BeginTx
  <2>3. NoteInv'
    BY Zenon, <2>1, BeginKeeps DEF WalletInv
  <2>4. before'[1] = owned /\ before'[2] = view /\ before'[3] = missed
    BY Zenon, <2>1
  <2> QED  BY Zenon, <2>1, <2>2, <2>3, <2>4 DEF WalletInv
<1>2. ASSUME NEW cost \in GasCosts, WalletCommit(cost) PROVE WalletInv'
  <2>1. NoteInv'
    BY Zenon, <1>2, CommitTxKeeps DEF WalletCommit, WalletInv
  <2>2. UNCHANGED <<owned, view, missed, notes>> /\ ~tx'.open
    BY Zenon, <1>2 DEF WalletCommit, CommitTx, NoTx
  <2> QED  BY Zenon, <2>1, <2>2 DEF WalletInv
<1>3. CASE WalletRefuse
  <2>1. NoteInv'
    BY Zenon, <1>3, RefuseKeeps DEF WalletRefuse, WalletInv
  <2>2. /\ notes' = tx.start /\ ~tx'.open /\ tx.open
        /\ owned' = before[1] /\ view' = before[2] /\ missed' = before[3]
    BY Zenon, <1>3 DEF WalletRefuse, RefuseTx, NoTx
  <2> QED  BY Zenon, <2>1, <2>2 DEF WalletInv
<1>4. CASE UNCHANGED walletNoteVars
  <2>1. NoteInv'
    BY Zenon, <1>4, NoteNextInv DEF WalletInv, walletNoteVars
  <2> QED  BY Zenon, <1>4, <2>1 DEF WalletInv, walletNoteVars, noteVars
<1>5. CASE WalletNotesNext
  BY ZenonT(30), <1>1, <1>2, <1>3, <1>5, WalletTransferKeeps, WalletDepositKeeps, WalletWithdrawKeeps,
     WalletChannelTransferKeeps, WalletDeclareKeeps, WalletReleaseKeeps, WalletRewardKeeps
     DEF WalletNotesNext
<1> QED  BY Zenon, <1>4, <1>5

\* The wallet starts with its genesis notes.
LEMMA WalletInitInv == WalletNotesInit => WalletInv
PROOF
<1> SUFFICES ASSUME WalletNotesInit PROVE WalletInv
  BY Zenon
<1>1. /\ NoteInv /\ LedgerOK(notes) /\ ~tx.open /\ missed = {}
      /\ owned \subseteq DOMAIN notes.utxos /\ view = FromLedger(owned)
  BY Zenon, NoteInitInv DEF WalletNotesInit, NoteInit, NoteInv, AccountsOK, NoTx
<1>2. owned \ missed = owned
  BY Zenon, <1>1
<1>3. owned \subseteq 0..(notes.next - 1) /\ missed \subseteq 0..(notes.next - 1)
  BY Zenon, <1>1 DEF LedgerOK
<1>4. ViewOK(notes, owned, view, missed)
  BY ZenonT(30), <1>1, <1>2, <1>3 DEF ViewOK, FromLedger
<1> QED  BY Zenon, <1>1, <1>4 DEF WalletInv

\* Replaying the operations of the blocks, for any ledger and any keys, leaves
\* the wallet with what the ledger has for its keys (PoW rewards excepted), and
\* every note it would fund a transaction with can be spent.
THEOREM WalletStaysInStep == WalletNotesSpec => []WalletKnowsItsNotes
PROOF
<1>1. WalletNotesInit => WalletInv
  BY Zenon, WalletInitInv
<1>2. WalletInv /\ [WalletNotesNext]_walletNoteVars => WalletInv'
  BY Zenon, WalletNextInv
<1>3. WalletInv => WalletKnowsItsNotes
  <2> SUFFICES ASSUME WalletInv PROVE WalletKnowsItsNotes
    BY Zenon
  <2>1. ViewOK(notes, owned, view, missed)
    BY Zenon DEF WalletInv
  <2>2. ViewMatchesLedger
    BY Zenon, <2>1 DEF ViewOK, ViewMatchesLedger, FromLedger
  <2>3. FundsAreSpendable
    BY ZenonT(30), <2>1 DEF ViewOK, FundsAreSpendable, Fundable, Spendable
  <2> QED  BY Zenon, <2>2, <2>3 DEF WalletKnowsItsNotes
<1> QED  BY <1>1, <1>2, <1>3, PTL DEF WalletNotesSpec

-----------------------------------------------------------------------------
(* The markets: rounding up, and what a step of a price may do.            *)

\* One step of the base fee, for a rate num / den.
NextFee(fee, num, den, target, average) ==
    CeilDiv(fee * ((den - num) * target + num * average), den * target)

\* One step of the storage price p to q, with usage used against the average ema.
PriceStep(p, q, a, d, used, ema) ==
    /\ q \in Nat \ {0}
    /\ q * d >= p * (d - a) /\ q * d < p * (d + a) + d
    /\ q # p => (q > p <=> used > ema)

MarketInv ==
    /\ execution \in [average : Nat, fee : Nat \ {0}]
    /\ storage \in [price : Nat \ {0}, ema : Nat, consumed : Nat]
    /\ rewardTarget \in RewardTargetFloor .. GenesisTarget

\* RewardPoWConfig::validate lets one configuration pass whose target cannot ease: no
\* smoothing, one claim per block and a precision of 1.
TargetCanEase == ClaimFactor > 0 \/ ClaimTarget > 1 \/ ClaimPrecision > 1

\* What the retarget returns from the quotient t: t, kept between the two bounds.
Clamped(t) == LET floored == IF t > RewardTargetFloor THEN t ELSE RewardTargetFloor
              IN  IF floored < GenesisTarget THEN floored ELSE GenesisTarget
Demand(claims) == (ClaimPrecision - ClaimFactor) * claims + ClaimFactor * ClaimTarget

FeeStepOK ==
    /\ execution'.average >= GasTarget => execution'.fee >= execution.fee
    /\ execution'.average <= GasTarget => execution'.fee <= execution.fee

\* MarketsFollowLoad: for every configuration that RewardPoWConfig::validate and the
\* ratios accept, but the one that TargetCanEase leaves out, update_execution_market,
\* update_storage_market and compute_new_reward_difficulty keep their prices positive,
\* move them with the load and by bounded steps, and let the target recover.
THEOREM MarketsAreSteered == TargetCanEase => (MarketSpec => MarketsFollowLoad)
<1>CeilDivRounds.
    ASSUME NEW a \in Nat, NEW b \in Nat \ {0}
    PROVE  CeilDiv(a, b) \in Nat /\ a <= CeilDiv(a, b) * b /\ CeilDiv(a, b) * b < a + b
  <2> USE <1>CeilDivRounds
  <2> DEFINE c == a + b - 1
  <2>1. c \in Nat
      OBVIOUS
  <2>2. c \div b \in Nat /\ (c \div b) * b <= c /\ c < (c \div b) * b + b
      <3> HIDE DEF c
      <3> QED  BY Zenon, <2>1, Quotient
  <2>3. PICK q \in Nat : q = c \div b /\ q * b <= c /\ c < q * b + b
      BY Zenon, <2>2
  <2>4. CeilDiv(a, b) = q
      BY Zenon, <2>3 DEF CeilDiv
  <2>5. q * b \in Nat
      OBVIOUS
  <2> QED  BY <2>3, <2>4, <2>5
    \* Rounding up keeps the side of a whole number of divisors.
<1>CeilDivBounds.
    ASSUME NEW a \in Nat, NEW b \in Nat \ {0}, NEW n \in Nat
    PROVE  /\ n * b <= a => n <= CeilDiv(a, b)
           /\ a <= n * b => CeilDiv(a, b) <= n
           /\ a > 0 => CeilDiv(a, b) >= 1
  <2> USE <1>CeilDivBounds
  <2>1. PICK q \in Nat : q = CeilDiv(a, b) /\ a <= q * b /\ q * b < a + b
      BY Zenon, <1>CeilDivRounds
  <2>2. n * b \in Nat /\ q * b \in Nat /\ (n + 1) * b = n * b + b
      OBVIOUS
  <2>3. n * b <= a => n <= q
      BY <2>1, <2>2, ProductCancels
  <2>4. a <= n * b => q < n + 1
      <3>1. a <= n * b => q * b < (n + 1) * b
          BY <2>1, <2>2
      <3>2. n + 1 \in Nat
          OBVIOUS
      <3> HIDE <2>2
      <3> QED  BY Zenon, <3>1, <3>2, ProductCancels
  <2>5. a > 0 => q >= 1
      <3>1. q = 0 => q * b = 0
          OBVIOUS
      <3> QED  BY <2>1, <3>1
  <2> QED  BY <2>1, <2>3, <2>4, <2>5
<1>FeeStep.
    ASSUME NEW fee \in Nat \ {0}, NEW num \in Nat, NEW den \in Nat, num < den,
           NEW target \in Nat \ {0}, NEW average \in Nat
    PROVE  LET new == NextFee(fee, num, den, target, average)
           IN  /\ new \in Nat \ {0}
               /\ average >= target => new >= fee
               /\ average <= target => new <= fee
  <2> USE <1>FeeStep
  <2> DEFINE new == NextFee(fee, num, den, target, average)
  <2> DEFINE rest == den - num
             X == rest * target + num * average
             D == den * target
  <2>1. rest \in Nat \ {0}
      OBVIOUS
  <2>2. rest * target \in Nat \ {0} /\ num * average \in Nat /\ num * target \in Nat
      <3> HIDE DEF rest
      <3> QED  BY <2>1
  <2>3. X \in Nat \ {0}
      <3> HIDE DEF rest
      <3> QED  BY <2>2
  <2>4. D = rest * target + num * target
      OBVIOUS
  <2>5. D \in Nat \ {0}
      <3> HIDE DEF D, rest
      <3> QED  BY <2>2, <2>4
  <2>6. average >= target => target * num <= average * num
      BY Zenon, ProductGrows
  <2>7. average <= target => average * num <= target * num
      BY Zenon, ProductGrows
  <2>8. target * num = num * target /\ average * num = num * average
      OBVIOUS
  <2>9. (average >= target => D <= X) /\ (average <= target => X <= D)
      <3> HIDE DEF rest, D
      <3> QED  BY <2>2, <2>4, <2>6, <2>7, <2>8
  <2> HIDE DEF X, D
  <2>10. fee * X \in Nat \ {0} /\ fee * X = X * fee /\ fee * D = D * fee
      BY <2>3, <2>5
  <2>11. D <= X => fee * D <= fee * X
      BY Zenon, <2>3, <2>5, <2>10, ProductGrows
  <2>12. X <= D => fee * X <= fee * D
      BY Zenon, <2>3, <2>5, <2>10, ProductGrows
  <2>13. new = CeilDiv(fee * X, D)
      BY Zenon DEF X, D, NextFee
  <2> HIDE DEF new
  <2>14. new \in Nat /\ new >= 1
      <3>1. fee \in Nat /\ fee * X \in Nat /\ fee * X > 0
          BY <2>10
      <3>2. new \in Nat
          BY Zenon, <3>1, <2>5, <2>13, <1>CeilDivRounds
      <3>3. new >= 1
          BY Zenon, <3>1, <2>5, <2>13, <1>CeilDivBounds
      <3> QED  BY Zenon, <3>2, <3>3
  <2>15. (fee * D <= fee * X => fee <= new) /\ (fee * X <= fee * D => new <= fee)
      <3>1. fee \in Nat /\ fee * X \in Nat
          BY Zenon, <2>10
      <3> QED  BY Zenon, <3>1, <2>5, <2>13, <1>CeilDivBounds
  <2>16. /\ new \in Nat \ {0}
         /\ average >= target => new >= fee
         /\ average <= target => new <= fee
      BY <2>9, <2>11, <2>12, <2>14, <2>15
  <2> QED  BY Zenon, <2>16 DEF new
    \* The factors of a price move it by themselves.
<1>PriceProducts.
    ASSUME NEW p \in Nat \ {0}, NEW a \in Nat, NEW d \in Nat, a < d
    PROVE  /\ d \in Nat \ {0} /\ d - a \in Nat \ {0} /\ d + a \in Nat \ {0}
           /\ p * (d - a) \in Nat \ {0} /\ p * (d + a) \in Nat \ {0} /\ p * d \in Nat
           /\ p * (d - a) <= p * d /\ p * d <= p * (d + a)
  <2> USE <1>PriceProducts
  <2>1. PICK r \in Nat \ {0} : r = d - a /\ d = r + a
      <3>1. d - a \in Nat \ {0} /\ d = (d - a) + a
          OBVIOUS
      <3> QED  BY Zenon, <3>1
  <2>2. p * r \in Nat \ {0} /\ p * a \in Nat /\ p * d \in Nat
      OBVIOUS
  <2>3. p * d = p * r + p * a
      BY <2>1
  <2>4. p * (d + a) = p * d + p * a
      OBVIOUS
  <2>5. d \in Nat \ {0} /\ d + a \in Nat \ {0} /\ d - a \in Nat \ {0} /\ p * (d - a) = p * r
      BY <2>1
  <2> HIDE DEF PriceStep
  <2>6. p * (d + a) \in Nat \ {0} /\ p * d <= p * (d + a)
      <3>1. p * d \in Nat \ {0}
          BY <2>2, <2>3
      <3> QED  BY <3>1, <2>2, <2>4
  <2> QED  BY <2>2, <2>3, <2>5, <2>6
<1>PriceHolds.
    ASSUME NEW p \in Nat \ {0}, NEW a \in Nat, NEW d \in Nat, a < d, NEW used, NEW ema
    PROVE  PriceStep(p, p, a, d, used, ema)
  <2> USE <1>PriceHolds
  <2>1. /\ d \in Nat \ {0} /\ p * (d - a) \in Nat /\ p * (d + a) \in Nat /\ p * d \in Nat
        /\ p * (d - a) <= p * d /\ p * d <= p * (d + a)
      BY Zenon, <1>PriceProducts
  <2> QED  BY <2>1 DEF PriceStep
<1>PriceFalls.
    ASSUME NEW p \in Nat \ {0}, NEW a \in Nat, NEW d \in Nat, a < d,
           NEW used \in Nat, NEW ema \in Nat \ {0}, d * used <= (d - a) * ema
    PROVE  PriceStep(p, CeilDiv(p * (d - a), d), a, d, used, ema)
  <2> USE <1>PriceFalls
  <2>1. /\ d \in Nat \ {0} /\ p * (d - a) \in Nat \ {0} /\ p * (d + a) \in Nat /\ p * d \in Nat
        /\ p * (d - a) <= p * d /\ p * d <= p * (d + a) /\ d - a \in Nat
      BY Zenon, <1>PriceProducts
  <2>2. PICK x \in Nat \ {0} : x = p * (d - a)
      BY Zenon, <2>1
  <2>3. PICK q \in Nat : q = CeilDiv(x, d) /\ x <= q * d /\ q * d < x + d
      BY Zenon, <2>1, <2>2, <1>CeilDivRounds
  <2>4. q >= 1 /\ (x <= p * d => q <= p)
      BY <2>1, <2>3, <1>CeilDivBounds
  <2>5. used <= ema
      <3>1. PICK r \in Nat : r = d - a /\ r <= d
          BY <2>1
      <3>2. r * ema <= d * ema /\ d * ema \in Nat /\ r * ema \in Nat /\ d * used \in Nat
          BY Zenon, <3>1, ProductGrows
      <3>3. used * d <= ema * d
          BY <3>1, <3>2
      <3> QED  BY Zenon, <2>1, <3>3, ProductCancels
  <2>6. q * d \in Nat
      OBVIOUS
  <2>7. q <= p
      BY Zenon, <2>1, <2>2, <2>4
  <2>8. q * d >= x /\ q * d < p * (d + a) + d
      BY <2>1, <2>2, <2>3, <2>6
  <2>9. CeilDiv(p * (d - a), d) = q
      BY Zenon, <2>2, <2>3
  <2> HIDE <2>2
  <2>10. ~(q > p) /\ ~(used > ema) /\ q \in Nat \ {0}
      BY <2>4, <2>5, <2>7
  <2> QED  BY Zenon, <2>2, <2>8, <2>9, <2>10 DEF PriceStep
<1>PriceRises.
    ASSUME NEW p \in Nat \ {0}, NEW a \in Nat, NEW d \in Nat, a < d,
           NEW used \in Nat, NEW ema \in Nat \ {0}, d * used >= (d + a) * ema
    PROVE  PriceStep(p, CeilDiv(p * (d + a), d), a, d, used, ema)
  <2> USE <1>PriceRises
  <2>1. /\ d \in Nat \ {0} /\ p * (d - a) \in Nat /\ p * (d + a) \in Nat \ {0} /\ p * d \in Nat
        /\ p * (d - a) <= p * d /\ p * d <= p * (d + a)
      BY Zenon, <1>PriceProducts
  <2>2. PICK x \in Nat \ {0} : x = p * (d + a)
      BY Zenon, <2>1
  <2>3. PICK q \in Nat : q = CeilDiv(x, d) /\ x <= q * d /\ q * d < x + d
      BY Zenon, <2>1, <2>2, <1>CeilDivRounds
  <2>4. q >= 1 /\ (p * d <= x => p <= q) /\ (x <= p * d => q <= p)
      BY <2>1, <2>3, <1>CeilDivBounds
  <2>5. a > 0 => used > ema
      <3>1. (d + a) * ema = d * ema + a * ema /\ d * ema \in Nat /\ a * ema \in Nat /\ d * used \in Nat
          OBVIOUS
      <3>2. a > 0 => a * ema > 0
          OBVIOUS
      <3>3. a > 0 => ema * d < used * d
          BY <3>1, <3>2
      <3> QED  BY Zenon, <2>1, <3>3, ProductCancels
  <2>6. a = 0 => x = p * d
      BY <2>2
  <2>7. q * d \in Nat /\ p <= q /\ (a = 0 => q = p)
      BY <2>1, <2>2, <2>4, <2>6
  <2>8. q * d >= p * (d - a) /\ q * d < x + d
      BY <2>1, <2>2, <2>3, <2>7
  <2>9. CeilDiv(p * (d + a), d) = q
      BY Zenon, <2>2, <2>3
  <2>10. q \in Nat \ {0} /\ (q # p => q > p /\ used > ema)
      BY <2>4, <2>5, <2>7
  <2> QED  BY Zenon, <2>2, <2>8, <2>9, <2>10 DEF PriceStep
<1>PriceFollows.
    ASSUME NEW p \in Nat \ {0}, NEW a \in Nat, NEW d \in Nat, a < d,
           NEW used \in Nat, NEW ema \in Nat \ {0},
           (d - a) * ema < d * used, d * used < (d + a) * ema
    PROVE  PriceStep(p, CeilDiv(p * used, ema), a, d, used, ema)
  <2> USE <1>PriceFollows
  <2>1. PICK r \in Nat \ {0}, u \in Nat \ {0} : r = d - a /\ u = d + a /\ d \in Nat \ {0}
      BY <1>PriceProducts
  <2>2. used # 0
      <3>1. r * ema \in Nat /\ d * 0 = 0
          OBVIOUS
      <3> QED  BY <2>1, <3>1
  <2>3. p * used \in Nat \ {0}
      BY <2>2
  <2>4. PICK q \in Nat : q = CeilDiv(p * used, ema) /\ p * used <= q * ema /\ q * ema < p * used + ema
      BY Zenon, <2>3, <1>CeilDivRounds
  <2>5. q >= 1 /\ (p * ema <= p * used => p <= q) /\ (p * used <= p * ema => q <= p)
      BY <2>3, <2>4, <1>CeilDivBounds
  <2>6. used <= ema => p * used <= p * ema
      <3>1. used <= ema => used * p <= ema * p
          BY Zenon, ProductGrows
      <3> QED  BY <3>1
  <2>7. used > ema => p * ema <= p * used
      <3>1. used > ema => ema * p <= used * p
          BY ProductGrows
      <3> QED  BY <3>1
  <2>8. q * d >= p * r
      <3>1. (r * ema) * p <= (d * used) * p
          <4>1. r * ema \in Nat /\ d * used \in Nat /\ r * ema <= d * used
              BY <2>1
          <4> QED  BY Zenon, <4>1, ProductGrows
      <3>2. (p * used) * d <= (q * ema) * d
          <4>1. p * used \in Nat /\ q * ema \in Nat
              OBVIOUS
          <4> QED  BY Zenon, <2>1, <2>4, <4>1, ProductGrows
      <3>3. (r * ema) * p = (p * r) * ema /\ (d * used) * p = (p * used) * d
            /\ (q * ema) * d = (q * d) * ema
          OBVIOUS
      <3>4. (p * r) * ema \in Nat /\ (p * used) * d \in Nat /\ (q * d) * ema \in Nat
            /\ p * r \in Nat /\ q * d \in Nat
          OBVIOUS
      <3>5. (p * r) * ema <= (q * d) * ema
          BY <3>1, <3>2, <3>3, <3>4
      <3> QED  BY Zenon, <3>4, <3>5, ProductCancels
  <2>9. q * d < p * u + d
      <3>1. (q * ema) * d < (p * used + ema) * d
          <4>1. p * used + ema \in Nat /\ q * ema \in Nat
              OBVIOUS
          <4> QED  BY Zenon, <2>1, <2>4, <4>1, ProductGrowsStrictly
      <3>2. (d * used) * p <= (u * ema) * p
          <4>1. u * ema \in Nat /\ d * used \in Nat /\ d * used <= u * ema
              BY <2>1
          <4> QED  BY Zenon, <4>1, ProductGrows
      <3>3. /\ (q * ema) * d = (q * d) * ema /\ (p * used + ema) * d = (d * used) * p + d * ema
            /\ (u * ema) * p = (p * u) * ema /\ (p * u + d) * ema = (p * u) * ema + d * ema
          OBVIOUS
      <3>4. /\ (q * d) * ema \in Nat /\ (d * used) * p \in Nat /\ d * ema \in Nat
            /\ (p * u) * ema \in Nat /\ (p * u + d) * ema \in Nat /\ p * u + d \in Nat /\ q * d \in Nat
          OBVIOUS
      <3>5. (q * d) * ema < (p * u + d) * ema
          BY <3>1, <3>2, <3>3, <3>4
      <3> QED  BY Zenon, <3>4, <3>5, ProductCancels
  <2>10. q # p => (q > p <=> used > ema)
      BY <2>5, <2>6, <2>7
  <2> QED  BY <2>1, <2>4, <2>5, <2>8, <2>9, <2>10 DEF PriceStep
    \* The quotient by which the retarget moves the reward target, without claims.
<1>TargetEases.
    ASSUME NEW target \in Nat \ {0}, NEW T \in Nat \ {0}, NEW F \in Nat, NEW P \in Nat,
           F < P, F > 0, F <= target * (P - F)
    PROVE  (T * target * P) \div (F * T) \in Nat /\ (T * target * P) \div (F * T) > target
  <2> USE <1>TargetEases
  <2> DEFINE n == T * target * P
             m == F * T
  <2>1. PICK r \in Nat \ {0} : r = P - F /\ P = F + r
      <3>1. P - F \in Nat \ {0} /\ P = F + (P - F)
          OBVIOUS
      <3> QED  BY Zenon, <3>1
  <2>2. n \in Nat /\ m \in Nat \ {0}
      OBVIOUS
  <2>3. target * P = target * F + target * r /\ target * r \in Nat /\ target * F \in Nat
      BY <2>1
  <2>4. (target + 1) * F = target * F + F
      OBVIOUS
  <2>5. (target + 1) * F <= target * P /\ (target + 1) * F \in Nat /\ target * P \in Nat
      BY <2>1, <2>3, <2>4
  <2>6. ((target + 1) * F) * T <= (target * P) * T
      BY Zenon, <2>5, ProductGrows
  <2>7. ((target + 1) * F) * T = (target + 1) * m /\ (target * P) * T = n
      OBVIOUS
  <2>8. (target + 1) * m <= n
      BY Zenon, <2>6, <2>7
  <2> HIDE DEF n, m
  <2>9. PICK q \in Nat : q = n \div m /\ n < q * m + m
      BY Zenon, <2>2, Quotient
  <2>10. (target + 1) * m < (q + 1) * m
      <3>1. (q + 1) * m = q * m + m /\ q * m \in Nat /\ (target + 1) * m \in Nat
          BY <2>2
      <3> QED  BY <2>2, <2>8, <2>9, <3>1
  <2>11. target + 1 < q + 1
      <3>1. target + 1 \in Nat /\ q + 1 \in Nat
          OBVIOUS
      <3> QED  BY Zenon, <2>2, <2>10, <3>1, ProductCancels
  <2>12. (T * target * P) \div (F * T) = q
      BY Zenon, <2>9 DEF n, m
  <2> QED  BY <2>11, <2>12
    \* And with at least the claims it aims at.
<1>TargetHardens.
    ASSUME NEW target \in Nat, NEW T \in Nat \ {0}, NEW F \in Nat, NEW P \in Nat, F < P,
           NEW claims \in Nat, claims >= T
    PROVE  LET demand == (P - F) * claims + F * T
           IN  /\ demand \in Nat \ {0}
               /\ (T * target * P) \div demand \in Nat
               /\ (T * target * P) \div demand <= target
  <2> USE <1>TargetHardens
  <2> DEFINE n == T * target * P
             demand == (P - F) * claims + F * T
  <2>1. PICK r \in Nat \ {0} : r = P - F /\ P = F + r
      <3>1. P - F \in Nat \ {0} /\ P = F + (P - F)
          OBVIOUS
      <3> QED  BY Zenon, <3>1
  <2>2. demand = r * claims + F * T
      BY Zenon, <2>1
  <2>3. r * claims \in Nat \ {0} /\ F * T \in Nat /\ n \in Nat /\ r * T \in Nat
      OBVIOUS
  <2> HIDE DEF demand
  <2>4. demand \in Nat \ {0}
      BY <2>2, <2>3
  <2>5. T * r <= claims * r
      BY Zenon, ProductGrows
  <2>6. P * T <= demand /\ P * T \in Nat
      <3>1. P * T = r * T + F * T
          BY <2>1
      <3>2. T * r = r * T /\ claims * r = r * claims
          OBVIOUS
      <3> QED  BY <2>2, <2>3, <2>5, <3>1, <3>2
  <2>7. (P * T) * target <= demand * target
      BY Zenon, <2>4, <2>6, ProductGrows
  <2>8. (P * T) * target = n
      OBVIOUS
  <2> HIDE DEF n
  <2>9. PICK q \in Nat : q = n \div demand /\ q * demand <= n
      BY Zenon, <2>3, <2>4, Quotient
  <2>10. q * demand <= target * demand
      <3>1. demand * target = target * demand /\ target * demand \in Nat /\ q * demand \in Nat
          BY <2>4
      <3> QED  BY <2>3, <2>7, <2>8, <2>9, <3>1
  <2>11. q <= target
      BY Zenon, <2>4, <2>10, ProductCancels
  <2>12. (T * target * P) \div ((P - F) * claims + F * T) = q /\ (P - F) * claims + F * T \in Nat \ {0}
      BY Zenon, <2>4, <2>9 DEF n, demand
  <2> QED  BY Zenon, <2>11, <2>12
<1>FloorFacts.
    /\ RewardTargetFloor \in Nat \ {0} /\ RewardTargetFloor <= GenesisTarget
    /\ GenesisTarget \in Nat \ {0} /\ ClaimPrecision - ClaimFactor \in Nat \ {0}
    /\ ClaimFactor <= RewardTargetFloor * (ClaimPrecision - ClaimFactor)
  <2> DEFINE r == ClaimPrecision - ClaimFactor
             f == CeilDiv(ClaimFactor, r)
  <2>1. r \in Nat \ {0} /\ ClaimFactor \in Nat /\ GenesisTarget \in Nat /\ GenesisTarget > f
      BY MarketAssumption
  <2>2. RewardTargetFloor = IF f > 1 THEN f ELSE 1
      BY Zenon DEF RewardTargetFloor
  <2> HIDE DEF r, f
  <2>3. f \in Nat /\ ClaimFactor <= f * r
      BY Zenon, <2>1, <1>CeilDivRounds DEF f
  <2>4. RewardTargetFloor \in Nat \ {0} /\ RewardTargetFloor <= GenesisTarget /\ f <= RewardTargetFloor
      BY <2>1, <2>2, <2>3
  <2>5. f * r <= RewardTargetFloor * r /\ f * r \in Nat /\ RewardTargetFloor * r \in Nat
      BY Zenon, <2>1, <2>3, <2>4, ProductGrows
  <2>6. ClaimFactor <= RewardTargetFloor * r
      BY <2>1, <2>3, <2>5
  <2>7. GenesisTarget \in Nat \ {0}
      BY <2>1, <2>4
  <2> QED  BY Zenon, <2>1, <2>4, <2>6, <2>7 DEF r
<1>RetargetFacts.
    ASSUME NEW claims \in Nat, rewardTarget \in Nat
    PROVE  LET d == IF Demand(claims) > 1 THEN Demand(claims) ELSE 1
               t == (ClaimTarget * rewardTarget * ClaimPrecision) \div d
           IN  /\ Demand(claims) \in Nat /\ d \in Nat \ {0} /\ t \in Nat
               /\ NewRewardTarget(claims) = Clamped(t)
               /\ NewRewardTarget(claims) \in RewardTargetFloor .. GenesisTarget
  <2> USE <1>RetargetFacts
  <2> DEFINE n == ClaimTarget * rewardTarget * ClaimPrecision
             d == IF Demand(claims) > 1 THEN Demand(claims) ELSE 1
             t == n \div d
  <2>1. PICK r \in Nat \ {0} : r = ClaimPrecision - ClaimFactor
      BY Zenon, <1>FloorFacts
  <2>2. ClaimTarget \in Nat /\ ClaimFactor \in Nat /\ ClaimPrecision \in Nat
      BY Zenon, MarketAssumption
  <2>3. Demand(claims) \in Nat
      <3>1. r * claims \in Nat /\ ClaimFactor * ClaimTarget \in Nat
          BY <2>2
      <3> QED  BY <2>1, <3>1 DEF Demand
  <2>4. d \in Nat \ {0}
      BY <2>3
  <2>5. n \in Nat
      BY <2>2
  <2>6. NewRewardTarget(claims) = Clamped(t)
      BY Zenon DEF NewRewardTarget, Clamped, Demand
  <2> HIDE DEF n, d
  <2>7. t \in Nat
      BY Zenon, <2>4, <2>5, Quotient
  <2>8. Clamped(t) \in RewardTargetFloor .. GenesisTarget
      <3> HIDE DEF t
      <3> QED  BY <2>7, <1>FloorFacts DEF Clamped
  <2> QED  BY Zenon, <2>3, <2>4, <2>6, <2>7, <2>8 DEF d, n
<1>MarketInvRecovers.
    ASSUME MarketInv, TargetCanEase
    PROVE  TargetRecovers
  <2> USE <1>MarketInvRecovers
  <2>1. /\ ClaimTarget \in Nat \ {0} /\ ClaimFactor \in Nat /\ ClaimPrecision \in Nat \ {0}
        /\ ClaimFactor < ClaimPrecision /\ Claims \subseteq Nat
      BY MarketAssumption
  <2>2. /\ rewardTarget \in Nat \ {0} /\ RewardTargetFloor <= rewardTarget /\ rewardTarget <= GenesisTarget
        /\ RewardTargetFloor \in Nat /\ GenesisTarget \in Nat
      BY <1>FloorFacts DEF MarketInv
  <2>3. NewRewardTarget(0) > rewardTarget \/ rewardTarget = GenesisTarget
      <3> DEFINE d == IF Demand(0) > 1 THEN Demand(0) ELSE 1
                 t == (ClaimTarget * rewardTarget * ClaimPrecision) \div d
      <3>1. Demand(0) = ClaimFactor * ClaimTarget
          <4>1. PICK r \in Nat : r = ClaimPrecision - ClaimFactor
              BY Zenon, <1>FloorFacts
          <4>2. r * 0 = 0 /\ ClaimFactor * ClaimTarget \in Nat
              BY <2>1
          <4> QED  BY <4>1, <4>2 DEF Demand
      <3>2. t > rewardTarget /\ t \in Nat
          <4>1. CASE ClaimFactor > 0
              <5>1. ClaimFactor * ClaimTarget \in Nat \ {0}
                  BY <2>1, <4>1
              <5>2. d = ClaimFactor * ClaimTarget
                  BY <3>1, <5>1
              <5>3. ClaimFactor <= rewardTarget * (ClaimPrecision - ClaimFactor)
                  <6>1. PICK r \in Nat : r = ClaimPrecision - ClaimFactor /\ ClaimFactor <= RewardTargetFloor * r
                      BY Zenon, <1>FloorFacts
                  <6>2. RewardTargetFloor * r <= rewardTarget * r /\ RewardTargetFloor * r \in Nat
                        /\ rewardTarget * r \in Nat
                      BY Zenon, <2>2, ProductGrows
                  <6> QED  BY <2>1, <6>1, <6>2
              <5> QED  BY Zenon, <2>1, <2>2, <4>1, <5>2, <5>3, <1>TargetEases
          <4>2. CASE ClaimFactor = 0
              <5>1. d = 1
                  BY <2>1, <3>1, <4>2
              <5>2. PICK n \in Nat : n = ClaimTarget * rewardTarget * ClaimPrecision
                  BY <2>1, <2>2
              <5>3. PICK k \in Nat : k = ClaimTarget * ClaimPrecision /\ k > 1
                  <6>1. CASE ClaimTarget > 1
                      <7>1. 1 * ClaimPrecision < ClaimTarget * ClaimPrecision /\ ClaimTarget * ClaimPrecision \in Nat
                          BY <2>1, <6>1, ProductGrowsStrictly
                      <7> QED  BY <2>1, <7>1
                  <6>2. CASE ClaimPrecision > 1
                      <7>1. 1 * ClaimTarget < ClaimPrecision * ClaimTarget
                            /\ ClaimPrecision * ClaimTarget \in Nat
                          BY <2>1, <6>2, ProductGrowsStrictly
                      <7>2. ClaimPrecision * ClaimTarget = ClaimTarget * ClaimPrecision
                          BY <2>1
                      <7> QED  BY <2>1, <7>1, <7>2
                  <6> QED  BY <2>1, <4>2, <6>1, <6>2 DEF TargetCanEase
              <5>4. n = k * rewardTarget
                  BY <2>1, <2>2, <5>2, <5>3
              <5>5. 1 * rewardTarget < k * rewardTarget
                  BY Zenon, <2>2, <5>3, ProductGrowsStrictly
              <5>6. t = n
                  BY <5>1, <5>2
              <5> QED  BY <2>2, <5>2, <5>4, <5>5, <5>6
          <4> QED  BY <2>1, <4>1, <4>2
      <3>3. NewRewardTarget(0) = Clamped(t)
          BY Zenon, <2>2, <1>RetargetFacts
      <3> HIDE DEF t
      <3> QED  BY <2>2, <3>2, <3>3 DEF Clamped
  <2>4. ASSUME NEW c \in Claims, c >= ClaimTarget PROVE NewRewardTarget(c) <= rewardTarget
      <3> DEFINE d == IF Demand(c) > 1 THEN Demand(c) ELSE 1
                 t == (ClaimTarget * rewardTarget * ClaimPrecision) \div d
      <3>1. c \in Nat /\ rewardTarget \in Nat
          BY Zenon, <2>1, <2>2
      <3>2. /\ Demand(c) \in Nat \ {0}
            /\ (ClaimTarget * rewardTarget * ClaimPrecision) \div Demand(c) \in Nat
            /\ (ClaimTarget * rewardTarget * ClaimPrecision) \div Demand(c) <= rewardTarget
          BY Zenon, <2>1, <2>4, <3>1, <1>TargetHardens DEF Demand
      <3>3. d = Demand(c)
          BY <3>2
      <3>4. NewRewardTarget(c) = Clamped(t)
          BY Zenon, <3>1, <1>RetargetFacts
      <3>5. t \in Nat /\ t <= rewardTarget
          BY Zenon, <3>2, <3>3
      <3> HIDE DEF t
      <3> QED  BY <2>2, <3>4, <3>5 DEF Clamped
  <2> QED  BY Zenon, <2>3, <2>4 DEF TargetRecovers
<1>BlockStep.
    ASSUME MarketInv, NEW gas \in Gas, NEW sg \in StorageGas, NEW claims \in Claims,
           MarketBlock(gas, sg, claims)
    PROVE  /\ MarketInv'
           /\ execution'.average >= GasTarget => execution'.fee >= execution.fee
           /\ execution'.average <= GasTarget => execution'.fee <= execution.fee
           /\ storage'.price = storage.price
  <2> USE <1>BlockStep
  <2>1. gas \in Nat /\ sg \in Nat /\ claims \in Nat /\ GasTarget \in Nat \ {0}
      BY MarketAssumption
  <2>2. PICK avg \in Nat, fee \in Nat \ {0} : execution.average = avg /\ execution.fee = fee
      BY Zenon DEF MarketInv
  <2>3. PICK price \in Nat \ {0}, ema \in Nat, used \in Nat :
          storage = [price |-> price, ema |-> ema, consumed |-> used]
      BY Zenon DEF MarketInv
  <2>4. PICK sn \in Nat, sd \in Nat \ {0} : Smoothing.num = sn /\ Smoothing.den = sd /\ sn <= sd
      BY Zenon, MarketAssumption DEF Ratio
  <2>5. PICK num \in Nat, den \in Nat \ {0} : FeeRate.num = num /\ FeeRate.den = den /\ num < den
      BY Zenon, MarketAssumption DEF Ratio
  <2>6. AverageGas(gas) \in Nat
      <3>1. PICK w \in Nat : w = sd - sn
          BY <2>4
      <3>2. w * gas \in Nat /\ sn * avg \in Nat
          BY <2>1
      <3>3. PICK n \in Nat : n = (sd - sn) * gas + sn * avg
          BY <3>1, <3>2
      <3>4. AverageGas(gas) = n \div sd
          BY Zenon, <2>2, <2>4, <3>3 DEF AverageGas
      <3> QED  BY Zenon, <3>4, Quotient
  <2>7. PICK average \in Nat : average = AverageGas(gas)
      BY Zenon, <2>6
  <2>8. PICK new : new = BaseFee(average)
      BY Zenon
  <2>9. new = NextFee(fee, num, den, GasTarget, average)
      BY Zenon, <2>2, <2>5, <2>8 DEF BaseFee, NextFee
  <2>10. /\ new \in Nat \ {0}
         /\ average >= GasTarget => new >= fee
         /\ average <= GasTarget => new <= fee
      <3>1. den \in Nat
          BY Zenon
      <3> QED  BY Zenon, <2>1, <2>5, <2>9, <3>1, <1>FeeStep
  <2>11. execution' = [average |-> average, fee |-> new]
      BY Zenon, <2>7, <2>8 DEF MarketBlock
  <2>12. storage' = [price |-> price, ema |-> ema, consumed |-> used + sg]
      BY Zenon, <2>3 DEF MarketBlock
  <2>13. rewardTarget' \in RewardTargetFloor .. GenesisTarget
      <3>1. rewardTarget \in Nat
          BY <1>FloorFacts DEF MarketInv
      <3>2. NewRewardTarget(claims) \in RewardTargetFloor .. GenesisTarget
          BY ZenonT(30), <2>1, <3>1, <1>RetargetFacts
      <3> QED  BY Zenon, <3>2 DEF MarketBlock
  <2>14. MarketInv'
      BY <2>1, <2>10, <2>11, <2>12, <2>13 DEF MarketInv
  <2> QED  BY Zenon, <2>2, <2>3, <2>10, <2>11, <2>12, <2>14
<1>EpochStep.
    ASSUME MarketInv, MarketEpoch
    PROVE  /\ MarketInv'
           /\ PriceStep(storage.price, storage'.price, StorageStep.num, StorageStep.den,
                        storage.consumed, storage'.ema)
           /\ storage'.ema = 0 => storage'.price = storage.price
  <2> USE <1>EpochStep
  <2>1. PICK price \in Nat \ {0}, last \in Nat, used \in Nat :
          storage = [price |-> price, ema |-> last, consumed |-> used]
      BY Zenon DEF MarketInv
  <2>2. PICK bn \in Nat, bd \in Nat \ {0} :
          StorageSmoothing.num = bn /\ StorageSmoothing.den = bd /\ bn <= bd
      BY Zenon, MarketAssumption DEF Ratio
  <2>3. PICK a \in Nat, d \in Nat : StorageStep.num = a /\ StorageStep.den = d /\ a < d
      BY Zenon, MarketAssumption DEF Ratio
  <2>4. StorageEma \in Nat
      <3>1. PICK w \in Nat : w = bd - bn
          BY <2>2
      <3>2. bn * used \in Nat /\ w * last \in Nat
          OBVIOUS
      <3>3. PICK n \in Nat : n = bn * used + (bd - bn) * last
          BY <3>1, <3>2
      <3>4. StorageEma = n \div bd
          BY Zenon, <2>1, <2>2, <3>3 DEF StorageEma
      <3> QED  BY Zenon, <3>4, Quotient
  <2>5. PICK ema \in Nat : ema = StorageEma
      BY Zenon, <2>4
  <2>6. PICK new : new = StoragePrice(ema)
      BY Zenon
  <2>7. new = IF ema = 0 THEN price
              ELSE IF d * used <= (d - a) * ema THEN CeilDiv(price * (d - a), d)
              ELSE IF d * used >= (d + a) * ema THEN CeilDiv(price * (d + a), d)
              ELSE CeilDiv(price * used, ema)
      BY Zenon, <2>1, <2>3, <2>6 DEF StoragePrice
  <2>8. PriceStep(price, new, a, d, used, ema)
      <3>1. CASE ema = 0
          BY Zenon, <2>3, <2>7, <3>1, <1>PriceHolds
      <3>2. CASE ema # 0 /\ d * used <= (d - a) * ema
          <4>1. new = CeilDiv(price * (d - a), d) /\ ema \in Nat \ {0}
              BY Zenon, <2>7, <3>2
          <4> QED  BY Zenon, <2>3, <3>2, <4>1, <1>PriceFalls
      <3>3. CASE ema # 0 /\ ~(d * used <= (d - a) * ema) /\ d * used >= (d + a) * ema
          <4>1. new = CeilDiv(price * (d + a), d)
              BY Zenon, <2>7, <3>3
          <4> QED  BY Zenon, <2>3, <3>3, <4>1, <1>PriceRises
      <3>4. CASE ema # 0 /\ ~(d * used <= (d - a) * ema) /\ ~(d * used >= (d + a) * ema)
          <4>1. new = CeilDiv(price * used, ema)
              BY Zenon, <2>7, <3>4
          <4>2. (d - a) * ema < d * used /\ d * used < (d + a) * ema
              <5>1. PICK r \in Nat : r = d - a
                  BY <2>3
              <5>2. r * ema \in Nat /\ d * used \in Nat /\ (d + a) * ema \in Nat
                  OBVIOUS
              <5> QED  BY <3>4, <5>1, <5>2
          <4> QED  BY Zenon, <2>3, <3>4, <4>1, <4>2, <1>PriceFollows
      <3> QED  BY Zenon, <3>1, <3>2, <3>3, <3>4
  <2>9. storage' = [price |-> new, ema |-> ema, consumed |-> 0]
      BY Zenon, <2>5, <2>6 DEF MarketEpoch
  <2>10. MarketInv'
      <3>1. new \in Nat \ {0}
          BY Zenon, <2>8 DEF PriceStep
      <3> QED  BY <2>9, <3>1 DEF MarketInv, MarketEpoch
  <2>11. ema = 0 => new = price
      BY Zenon, <2>7
  <2> QED  BY ZenonT(30), <2>1, <2>3, <2>8, <2>9, <2>10, <2>11
<1>MarketStep.
    ASSUME MarketInv, [MarketNext]_marketVars
    PROVE  /\ MarketInv' /\ FeeStepOK
           /\ PriceStep(storage.price, storage'.price, StorageStep.num, StorageStep.den,
                        storage.consumed, storage'.ema)
           /\ (storage.consumed = 0 /\ storage'.ema = 0) => storage'.price = storage.price
  <2> USE <1>MarketStep
  <2>1. PICK price \in Nat \ {0} : storage.price = price
      BY Zenon DEF MarketInv
  <2>2. PICK a \in Nat, d \in Nat : StorageStep.num = a /\ StorageStep.den = d /\ a < d
      BY Zenon, MarketAssumption DEF Ratio
  <2>3. execution.fee \in Nat /\ execution.average \in Nat /\ GasTarget \in Nat
      BY Zenon, MarketAssumption DEF MarketInv
  <2>4. PriceStep(price, price, a, d, storage.consumed, storage'.ema)
      BY Zenon, <2>2, <1>PriceHolds
  <2>5. ASSUME NEW gas \in Gas, NEW sg \in StorageGas, NEW claims \in Claims,
               MarketBlock(gas, sg, claims)
        PROVE  MarketInv' /\ FeeStepOK /\ storage'.price = storage.price
      BY Zenon, <2>5, <1>BlockStep DEF FeeStepOK
  <2>6. CASE MarketEpoch
      <3>1. execution' = execution
          BY Zenon, <2>6 DEF MarketEpoch
      <3>2. FeeStepOK
          BY <2>3, <3>1 DEF FeeStepOK
      <3> QED  BY Zenon, <2>6, <3>2, <1>EpochStep
  <2>7. CASE UNCHANGED marketVars
      <3>1. execution' = execution /\ storage' = storage /\ rewardTarget' = rewardTarget
          BY Zenon, <2>7 DEF marketVars
      <3>2. FeeStepOK
          BY <2>3, <3>1 DEF FeeStepOK
      <3>3. MarketInv'
          BY Zenon, <3>1 DEF MarketInv, RewardTargetFloor, CeilDiv
      <3> QED  BY Zenon, <2>1, <2>2, <2>4, <3>1, <3>2, <3>3
  <2>8. ASSUME NEW gas \in Gas, NEW sg \in StorageGas, NEW claims \in Claims,
               MarketBlock(gas, sg, claims)
        PROVE  PriceStep(storage.price, storage'.price, StorageStep.num, StorageStep.den,
                         storage.consumed, storage'.ema)
      BY Zenon, <2>1, <2>2, <2>4, <2>5, <2>8
  <2> QED  BY Zenon, <2>5, <2>6, <2>7, <2>8 DEF MarketNext
<1> SUFFICES ASSUME TargetCanEase PROVE MarketSpec => MarketsFollowLoad
    BY Zenon
<1>1. MarketInit => MarketInv
    BY <1>FloorFacts DEF MarketInit, MarketInv
<1>2. MarketInv /\ [MarketNext]_marketVars => MarketInv'
    BY Zenon, <1>MarketStep
<1>3. MarketInv => PricesStayPositive /\ TargetRecovers
    <2>1. MarketInv => PricesStayPositive
        BY DEF MarketInv, PricesStayPositive
    <2> QED  BY Zenon, <2>1, <1>MarketInvRecovers
<1>4. MarketInv /\ [MarketNext]_marketVars =>
        [ /\ execution'.average >= GasTarget => execution'.fee >= execution.fee
          /\ execution'.average <= GasTarget => execution'.fee <= execution.fee ]_marketVars
    BY Zenon, <1>MarketStep DEF FeeStepOK
<1>5. MarketInv /\ [MarketNext]_marketVars =>
        [ LET p == storage.price  q == storage'.price
              a == StorageStep.num  d == StorageStep.den
          IN  /\ q * d >= p * (d - a) /\ q * d < p * (d + a) + d
              /\ (q # p) => (q > p <=> storage.consumed > storage'.ema)
              /\ (storage.consumed = 0 /\ storage'.ema = 0) => q = p ]_marketVars
    BY Zenon, <1>MarketStep DEF PriceStep
<1> QED  BY <1>1, <1>2, <1>3, <1>4, <1>5, PTL
         DEF MarketSpec, MarketsFollowLoad, FeeFollowsLoad, StoragePriceStep

=============================================================================
