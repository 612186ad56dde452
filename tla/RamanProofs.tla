----------------------------- MODULE RamanProofs -----------------------------
(***************************************************************************)
(* Theorems about RamanLedger for any number of accounts and threads, any  *)
(* word size and any swaps: its types, that debits and credits are neither *)
(* lost nor doubled, and that it implements SwapLedger.  Below them, what  *)
(* is read back of any RAMAN artifact of any length from a file that is    *)
(* cut off anywhere or followed by any other words.                        *)
(***************************************************************************)
EXTENDS RamanLedger, RamanArtifact, SumLemmas, SequenceTheorems, TLAPS

(* A swap is admitted to its loops with accounts that exist, and to the    *)
(* exchange of the debit with a loaded balance that covers the amount.     *)
Admitted ==
    \A t \in Threads :
        /\ pc[t] \in InSwap => {swap[t].src, swap[t].dst} \subseteq Accounts
        /\ pc[t] = "debit" => cur[t] >= swap[t].amount

IInv == TypeOK /\ Admitted

(* The product of two words, saturated, is a word: it is never negative.   *)
LEMMA ProductIsNat == \A m, r \in Nat : Product(m, r) \in Nat
<1> SUFFICES ASSUME NEW m \in Nat, NEW r \in Nat PROVE Product(m, r) \in Nat
  OBVIOUS
<1>1. m * r \in Nat
  OBVIOUS
<1>2. Word - 1 \in Nat
  BY WordAssumption
<1> QED BY <1>1, <1>2 DEF Product

(* Amounts and rates are words, hence numbers.                             *)
LEMMA ArgumentsAreNat == \A s \in Swaps : s.amount \in Nat /\ s.rate \in Nat
<1>1. 0 .. Word - 1 \subseteq Nat
  BY WordAssumption
<1>2. Amounts \subseteq Nat /\ Rates \subseteq Nat
  BY <1>1, WordsAssumption, Zenon
<1> QED BY <1>2 DEF Swaps

(* The EURC amount of a swap is a number the credit can add.               *)
LEMMA EurcIsNat == \A s \in Swaps : EurcFor(s) \in Nat
<1> SUFFICES ASSUME NEW s \in Swaps PROVE EurcFor(s) \in Nat
  OBVIOUS
<1>1. s.amount \in Nat /\ s.rate \in Nat
  BY ArgumentsAreNat
<1>2. Product(s.amount, s.rate) \in Nat
  BY <1>1, ProductIsNat
<1> QED BY <1>2, WordAssumption DEF EurcFor

(* A sum reduced modulo the word size is a word.                           *)
LEMMA ModIsWord == \A x \in Nat : x % Word \in 0 .. Word - 1
BY WordAssumption

(* There is a swap to ask for, so the initial arguments are well typed.    *)
LEMMA SomeSwap == (CHOOSE s \in Swaps : TRUE) \in Swaps
<1>1. PICK a \in Accounts : TRUE
  BY AccountsAssumption
<1>2. PICK m \in Amounts, r \in Rates : TRUE
  BY SwapAssumption
<1>3. [src |-> a, dst |-> a, amount |-> m, rate |-> r] \in Swaps
  BY <1>1, <1>2, AccountsAssumption DEF Swaps
<1> QED BY <1>3

(* The initial state satisfies the inductive invariant.                    *)
LEMMA InitHolds == Init => IInv
<1> SUFFICES ASSUME Init PROVE IInv
  OBVIOUS
<1>1. swap \in [Threads -> Swaps]
  BY SomeSwap DEF Init
<1>2. TypeOK
  BY <1>1, WordsAssumption, WordAssumption DEF Init, TypeOK
<1>3. Admitted
  BY DEF Init, Admitted, InSwap
<1> QED BY <1>2, <1>3 DEF IInv

(* Every step preserves the inductive invariant.                           *)
LEMMA StepHolds == IInv /\ [Next]_vars => IInv'
<1> SUFFICES ASSUME IInv, [Next]_vars PROVE IInv'
  OBVIOUS
<1> USE DEF IInv
<1>1. ASSUME NEW t \in Threads, NEW s \in Swaps, Begin(t, s) PROVE IInv'
  <2>1. TypeOK'
    BY <1>1 DEF Begin, Goto, Return, TypeOK, InSwap
  <2>2. Admitted'
    BY <1>1 DEF Begin, Goto, Return, TypeOK, Admitted, InSwap
  <2> QED BY <2>1, <2>2
<1>2. ASSUME NEW t \in Threads, LoadUsdt(t) PROVE IInv'
  <2>1. swap[t].src \in Accounts /\ usdt[swap[t].src] \in 0 .. Word - 1
    BY <1>2 DEF LoadUsdt, Admitted, InSwap, TypeOK
  <2>2. TypeOK'
    BY <1>2, <2>1 DEF LoadUsdt, Goto, Return, args, TypeOK, InSwap
  <2>3. Admitted'
    BY <1>2, <2>1 DEF LoadUsdt, Goto, Return, args, TypeOK, Admitted, InSwap
  <2> QED BY <2>2, <2>3
<1>3. ASSUME NEW t \in Threads, Debit(t) PROVE IInv'
  <2>1. swap[t].src \in Accounts /\ swap[t].amount \in Nat
    BY <1>3, ArgumentsAreNat DEF Debit, Admitted, InSwap, TypeOK
  <2>2. cur[t] - swap[t].amount \in 0 .. Word - 1
    BY <1>3, <2>1, WordAssumption DEF Debit, Admitted, TypeOK
  <2>3. TypeOK'
    BY <1>3, <2>1, <2>2 DEF Debit, Goto, args, TypeOK, InSwap
  <2>4. Admitted'
    BY <1>3 DEF Debit, Goto, args, TypeOK, Admitted, InSwap
  <2> QED BY <2>3, <2>4
<1>4. ASSUME NEW t \in Threads, RetryDebit(t) PROVE IInv'
  BY <1>4 DEF RetryDebit, Goto, args, TypeOK, Admitted, InSwap
<1>5. ASSUME NEW t \in Threads, LoadEurc(t) PROVE IInv'
  <2>1. swap[t].dst \in Accounts /\ eurc[swap[t].dst] \in 0 .. Word - 1
    BY <1>5 DEF LoadEurc, Admitted, InSwap, TypeOK
  <2>2. TypeOK'
    BY <1>5, <2>1 DEF LoadEurc, Goto, args, TypeOK, InSwap
  <2>3. Admitted'
    BY <1>5 DEF LoadEurc, Goto, args, TypeOK, Admitted, InSwap
  <2> QED BY <2>2, <2>3
<1>6. ASSUME NEW t \in Threads, Credit(t) PROVE IInv'
  <2>1. swap[t].dst \in Accounts /\ EurcFor(swap[t]) \in Nat
    BY <1>6, EurcIsNat DEF Credit, Admitted, InSwap, TypeOK
  <2>2. cur[t] \in Nat
    BY WordAssumption DEF TypeOK
  <2>3. (cur[t] + EurcFor(swap[t])) % Word \in 0 .. Word - 1
    BY <2>1, <2>2, ModIsWord
  <2>4. TypeOK'
    BY <1>6, <2>1, <2>3 DEF Credit, Return, args, TypeOK, InSwap
  <2>5. Admitted'
    BY <1>6 DEF Credit, Return, args, TypeOK, Admitted, InSwap
  <2> QED BY <2>4, <2>5
<1>7. ASSUME NEW t \in Threads, RetryCredit(t) PROVE IInv'
  BY <1>7 DEF RetryCredit, Goto, args, TypeOK, Admitted, InSwap
<1>8. CASE UNCHANGED vars
  BY <1>8 DEF vars, TypeOK, Admitted, InSwap
<1> QED BY <1>1, <1>2, <1>3, <1>4, <1>5, <1>6, <1>7, <1>8 DEF Next, Step, Exchange

(* The inductive invariant holds in every behaviour.                       *)
LEMMA Invariant == Spec => []IInv
BY InitHolds, StepHolds, PTL DEF Spec

(* Balances are words, never negative, whatever swaps interleave.          *)
THEOREM TypeCorrect == Spec => []TypeOK
BY Invariant, PTL DEF IInv

(* Only a debit touches USDT, and it takes from the balance what it        *)
(* records as sold.                                                        *)
THEOREM UsdtIsSoldHolds == Spec => []UsdtIsSold
<1>1. Init => UsdtIsSold
  BY WordsAssumption, WordAssumption DEF Init, UsdtIsSold
<1>2. IInv /\ UsdtIsSold /\ [Next]_vars => UsdtIsSold'
  <2> SUFFICES ASSUME IInv, UsdtIsSold, [Next]_vars PROVE UsdtIsSold'
    OBVIOUS
  <2>1. ASSUME NEW t \in Threads, Debit(t) PROVE UsdtIsSold'
    <3>1. swap[t].src \in Accounts /\ swap[t].amount \in Nat
      BY <2>1, ArgumentsAreNat DEF IInv, Debit, Admitted, InSwap, TypeOK
    <3>2. InitUsdt \in Int
      BY WordsAssumption, WordAssumption
    <3> QED BY <2>1, <3>1, <3>2, WordAssumption DEF IInv, Debit, TypeOK, UsdtIsSold
  <2>2. ASSUME usdt' = usdt, sold' = sold PROVE UsdtIsSold'
    BY <2>2 DEF UsdtIsSold
  <2> QED BY <2>1, <2>2
       DEF Next, Step, Exchange, Begin, LoadUsdt, RetryDebit, LoadEurc, Credit, RetryCredit, vars
<1> QED BY <1>1, <1>2, Invariant, PTL DEF Spec

(* There is only one way to divide by the word size with a word left over. *)
LEMMA DivisionIsUnique ==
    ASSUME NEW p \in Int, NEW q \in Int, NEW r \in 0 .. Word - 1, NEW s \in 0 .. Word - 1,
           Word * p + r = Word * q + s
    PROVE  r = s
<1> DEFINE d == p - q
<1>1. Word * d = s - r
  BY WordAssumption
<1>2. -Word < s - r /\ s - r < Word
  BY WordAssumption
<1>3. CASE d >= 1
  <2>1. Word * d >= Word
    BY <1>3, WordAssumption
  <2> QED BY <2>1, <1>1, <1>2, WordAssumption
<1>4. CASE d <= -1
  <2>1. Word * d <= -Word
    BY <1>4, WordAssumption
  <2> QED BY <2>1, <1>1, <1>2, WordAssumption
<1>5. CASE d = 0
  BY <1>5, <1>1, WordAssumption
<1> QED BY <1>3, <1>4, <1>5

(* A number is its quotient and its remainder by the word size.            *)
LEMMA Division == \A x \in Nat : x = Word * (x \div Word) + (x % Word) /\ x \div Word \in Nat
BY WordAssumption

(* Reducing a summand modulo the word size first does not change the       *)
(* reduced sum: wrap-around loses nothing but whole words.                 *)
LEMMA ModAdd ==
    ASSUME NEW x \in Nat, NEW e \in Nat
    PROVE  ((x % Word) + e) % Word = (x + e) % Word
<1> DEFINE y == (x % Word) + e
<1>1. x % Word \in Nat /\ y \in Nat
  BY ModIsWord, WordAssumption
<1>2. x = Word * (x \div Word) + (x % Word) /\ x \div Word \in Nat
  BY Division
<1>3. y = Word * (y \div Word) + (y % Word) /\ y \div Word \in Nat
  BY <1>1, Division
<1>4. x + e = Word * ((x + e) \div Word) + ((x + e) % Word) /\ (x + e) \div Word \in Nat
  BY Division
<1>5. x + e = Word * ((x \div Word) + (y \div Word)) + (y % Word)
  BY <1>1, <1>2, <1>3, WordAssumption
<1>6. y % Word \in 0 .. Word - 1 /\ (x + e) % Word \in 0 .. Word - 1
  BY <1>1, ModIsWord
<1> QED BY <1>2, <1>3, <1>4, <1>5, <1>6, DivisionIsUnique

(* Only a credit touches EURC, and it adds what it records as bought.      *)
THEOREM EurcIsBoughtHolds == Spec => []EurcIsBought
<1>1. Init => EurcIsBought
  BY WordsAssumption, WordAssumption DEF Init, EurcIsBought
<1>2. IInv /\ EurcIsBought /\ [Next]_vars => EurcIsBought'
  <2> SUFFICES ASSUME IInv, EurcIsBought, [Next]_vars PROVE EurcIsBought'
    OBVIOUS
  <2>1. ASSUME NEW t \in Threads, Credit(t) PROVE EurcIsBought'
    <3> DEFINE d == swap[t].dst
               e == EurcFor(swap[t])
    <3>1. d \in Accounts /\ e \in Nat /\ bought[d] \in Nat /\ InitEurc \in Nat
      BY <2>1, EurcIsNat, WordsAssumption, WordAssumption
         DEF IInv, Credit, Admitted, InSwap, TypeOK
    <3>2. eurc[d] = (InitEurc + bought[d]) % Word
      BY <3>1 DEF EurcIsBought
    <3>3. (cur[t] + e) % Word = (InitEurc + bought[d] + e) % Word
      BY <2>1, <3>1, <3>2, ModAdd DEF Credit
    <3>4. /\ eurc' = [eurc EXCEPT ![d] = (cur[t] + e) % Word]
          /\ bought' = [bought EXCEPT ![d] = @ + e]
      BY <2>1 DEF Credit
    <3>5. eurc'[d] = (InitEurc + bought'[d]) % Word
      BY <3>1, <3>3, <3>4 DEF IInv, TypeOK
    <3>6. \A a \in Accounts \ {d} : eurc'[a] = eurc[a] /\ bought'[a] = bought[a]
      BY <3>4 DEF IInv, TypeOK
    <3> QED BY <3>5, <3>6 DEF EurcIsBought
  <2>2. ASSUME eurc' = eurc, bought' = bought PROVE EurcIsBought'
    BY <2>2 DEF EurcIsBought
  <2> QED BY <2>1, <2>2
       DEF Next, Step, Exchange, Begin, LoadUsdt, RetryDebit, LoadEurc, Debit, RetryCredit, vars
<1> QED BY <1>1, <1>2, Invariant, PTL DEF Spec

(* The loops implement the promise: the exchange that succeeds is the      *)
(* atomic debit or credit, every other step changes nothing it names.      *)
THEOREM LedgerImplementsPromise == Spec => ImplementsPromise
<1>1. Init => Promise!Init
  BY DEF Init, Promise!Init, Owed, Promise!Nothing
<1>2. IInv /\ [Next]_vars => [Promise!Next]_(Promise!vars)
  <2> SUFFICES ASSUME IInv, [Next]_vars PROVE [Promise!Next]_(Promise!vars)
    OBVIOUS
  <2>1. ASSUME NEW t \in Threads, Debit(t) PROVE Promise!Next
    <3> DEFINE s == swap[t]
    <3>1. s.src \in Accounts /\ s.dst \in Accounts /\ s.amount \in Amounts /\ s.rate \in Rates
      BY <2>1 DEF IInv, Debit, Admitted, InSwap, TypeOK, Swaps
    <3>2. Promise!Debit(t, s.src, s.dst, s.amount, s.rate)
      <4>1. Owed[t] = Promise!Nothing
        BY <2>1 DEF Debit, Owed, Promise!Nothing
      <4>2. usdt[s.src] >= s.amount /\ usdt' = [usdt EXCEPT ![s.src] = @ - s.amount]
        BY <2>1 DEF IInv, Debit, Admitted
      <4>3. Promise!EurcFor(s.amount, s.rate) = EurcFor(s)
        BY DEF Promise!EurcFor, Promise!Product, EurcFor, Product
      <4>4. pc' = [pc EXCEPT ![t] = "load_eurc"] /\ swap' = swap /\ eurc' = eurc
        BY <2>1 DEF Debit, Goto, args
      <4>5. Owed' = [Owed EXCEPT ![t] = [to |-> {s.dst}, eurc |-> EurcFor(s)]]
        BY <4>4 DEF Owed, IInv, TypeOK, EurcFor, Product
      <4> QED BY <4>1, <4>2, <4>3, <4>4, <4>5 DEF Promise!Debit
    <3> QED BY <3>1, <3>2 DEF Promise!Next
  <2>2. ASSUME NEW t \in Threads, Credit(t) PROVE Promise!Next
    <3> DEFINE s == swap[t]
    <3>1. s.dst \in Accounts
      BY <2>2 DEF IInv, Credit, Admitted, InSwap, TypeOK
    <3>2. Promise!Credit(t, s.dst)
      <4>1. Owed[t] = [to |-> {s.dst}, eurc |-> EurcFor(s)]
        BY <2>2 DEF Credit, Owed
      <4>2. eurc' = [eurc EXCEPT ![s.dst] = (@ + EurcFor(s)) % Word]
        BY <2>2 DEF Credit
      <4>3. pc' = [pc EXCEPT ![t] = "idle"] /\ swap' = swap /\ usdt' = usdt
        BY <2>2 DEF Credit, Return, args
      <4>4. Owed' = [Owed EXCEPT ![t] = Promise!Nothing]
        BY <4>3 DEF Owed, IInv, TypeOK, Promise!Nothing, EurcFor, Product
      <4> QED BY <4>1, <4>2, <4>3, <4>4 DEF Promise!Credit
    <3> QED BY <3>1, <3>2 DEF Promise!Next
  <2>3. ASSUME usdt' = usdt, eurc' = eurc, Owed' = Owed PROVE UNCHANGED Promise!vars
    BY <2>3 DEF Promise!vars
  <2>4. ASSUME NEW t \in Threads, NEW s \in Swaps, Begin(t, s)
        PROVE  usdt' = usdt /\ eurc' = eurc /\ Owed' = Owed
    BY <2>4 DEF Begin, Goto, Return, Owed, IInv, TypeOK, EurcFor, Product
  <2>5. ASSUME NEW t \in Threads, LoadUsdt(t) \/ RetryDebit(t)
        PROVE  usdt' = usdt /\ eurc' = eurc /\ Owed' = Owed
    BY <2>5 DEF LoadUsdt, RetryDebit, Goto, Return, args, Owed, IInv, TypeOK, EurcFor, Product
  <2>6. ASSUME NEW t \in Threads, LoadEurc(t) \/ RetryCredit(t)
        PROVE  usdt' = usdt /\ eurc' = eurc /\ Owed' = Owed
    BY <2>6 DEF LoadEurc, RetryCredit, Goto, args, Owed, IInv, TypeOK, EurcFor, Product
  <2>7. ASSUME UNCHANGED vars PROVE usdt' = usdt /\ eurc' = eurc /\ Owed' = Owed
    BY <2>7 DEF vars, Owed, EurcFor, Product
  <2> QED BY <2>1, <2>2, <2>3, <2>4, <2>5, <2>6, <2>7 DEF Next, Step, Exchange
<1> QED BY <1>1, <1>2, Invariant, PTL DEF Spec, ImplementsPromise, Promise!Spec

-----------------------------------------------------------------------------
(* Lists, one after the other.                                             *)

\* A list has a length, and is a sequence of whatever holds its items.
LEMMA ListIs ==
    ASSUME NEW s, IsList(s)
    PROVE  /\ Len(s) \in Nat /\ DOMAIN s = 1 .. Len(s)
           /\ \A W : (\A i \in 1 .. Len(s) : s[i] \in W) => s \in Seq(W)
  BY DEF IsList

\* A sequence is a list.
LEMMA SequenceIsList ==
    ASSUME NEW W, NEW s \in Seq(W)
    PROVE  IsList(s)
  BY DEF IsList

\* So is one word.
LEMMA WordsAreLists == \A w : IsList(<<w>>) /\ Len(<<w>>) = 1 /\ <<w>>[1] = w
  BY DEF IsList

\* One list after another is a list, with the items of both where they belong.
LEMMA Concatenation ==
    ASSUME NEW s, IsList(s), NEW t, IsList(t)
    PROVE  /\ IsList(s \o t) /\ Len(s \o t) = Len(s) + Len(t)
           /\ \A i \in 1 .. Len(s) : (s \o t)[i] = s[i]
           /\ \A i \in 1 .. Len(t) : (s \o t)[Len(s) + i] = t[i]
  <1> DEFINE W == {s[i] : i \in 1 .. Len(s)} \cup {t[i] : i \in 1 .. Len(t)}
  <1>1. Len(s) \in Nat /\ Len(t) \in Nat
    BY ListIs
  <1>2. s \in Seq(W) /\ t \in Seq(W)
    <2>1. (\A i \in 1 .. Len(s) : s[i] \in W) /\ (\A i \in 1 .. Len(t) : t[i] \in W)
      OBVIOUS
    <2> HIDE DEF W
    <2> QED
      BY <2>1, ListIs
  <1> HIDE DEF W
  <1>3. s \o t \in Seq(W) /\ Len(s \o t) = Len(s) + Len(t)
    BY <1>2
  <1>4. IsList(s \o t)
    BY <1>3, SequenceIsList
  <1>5. \A i \in 1 .. Len(s) + Len(t) :
            (s \o t)[i] = IF i <= Len(s) THEN s[i] ELSE t[i - Len(s)]
    BY <1>1, <1>2
  <1>6. ASSUME NEW i \in 1 .. Len(s) PROVE (s \o t)[i] = s[i]
    BY <1>1, <1>5, <1>6
  <1>7. ASSUME NEW i \in 1 .. Len(t) PROVE (s \o t)[Len(s) + i] = t[i]
    <2>1. Len(s) + i \in 1 .. Len(s) + Len(t) /\ ~(Len(s) + i <= Len(s)) /\ (Len(s) + i) - Len(s) = i
      BY <1>1, <1>7
    <2> QED
      BY <1>5, <2>1
  <1> QED
    BY <1>3, <1>4, <1>6, <1>7

\* What FlattenSeq adds up.
Flattened(flat, ss, n) ==
    flat = [i \in 1 .. n |-> IF i = 1 THEN ss[i] ELSE flat[i - 1] \o ss[i]]

\* FlattenSeq is defined for every number of items.
LEMMA FlattenedExists ==
    ASSUME NEW ss, NEW n \in Nat
    PROVE  \E flat : Flattened(flat, ss, n)
  <1> DEFINE S == {m \in Nat : \E flat : Flattened(flat, ss, m)}
  <1>1. 0 \in S
    <2> DEFINE none == [i \in 1 .. 0 |-> 0]
    <2>1. Flattened(none, ss, 0)
      BY DEF Flattened
    <2> QED
      BY <2>1
  <1>2. ASSUME NEW m \in 1 .. n, m - 1 \in S
        PROVE  m \in S
    <2>1. PICK flat : Flattened(flat, ss, m - 1)
      BY <1>2
    <2> DEFINE new == IF m = 1 THEN ss[m] ELSE flat[m - 1] \o ss[m]
               more == [i \in 1 .. m |-> IF i = m THEN new ELSE flat[i]]
    <2>2. \A i \in 1 .. m - 1 : flat[i] = IF i = 1 THEN ss[i] ELSE flat[i - 1] \o ss[i]
      BY <2>1 DEF Flattened
    <2>3. more = [i \in 1 .. m |-> more[i]]
      OBVIOUS
    <2>4. ASSUME NEW i \in 1 .. m
          PROVE  more[i] = IF i = 1 THEN ss[i] ELSE more[i - 1] \o ss[i]
      <3>1. CASE i = 1
        <4>1. i = m => more[i] = ss[i]
          BY <3>1
        <4>2. i # m => more[i] = flat[i] /\ i \in 1 .. m - 1
          BY <2>4
        <4> HIDE DEF more
        <4> QED
          BY <2>2, <3>1, <4>1, <4>2
      <3>2. CASE i # 1
        <4>1. i - 1 \in 1 .. m /\ i - 1 # m
          BY <2>4, <3>2
        <4>2. more[i - 1] = flat[i - 1]
          BY <4>1
        <4>3. i = m => more[i] = flat[i - 1] \o ss[i]
          BY <3>2
        <4>4. i # m => more[i] = flat[i] /\ i \in 1 .. m - 1
          BY <2>4
        <4> HIDE DEF more
        <4> QED
          BY <2>2, <3>2, <4>2, <4>3, <4>4
      <3> QED
        BY <3>1, <3>2
    <2>5. Flattened(more, ss, m)
      <3> HIDE DEF more
      <3> QED
        BY <2>3, <2>4 DEF Flattened
    <2> QED
      BY <2>5
  <1> HIDE DEF S
  <1>3. \A k \in 0 .. n : k \in S
    BY <1>1, <1>2, CountingUp
  <1> QED
    BY <1>3 DEF S

\* What the first k of some lists are, one after the other.
Joined(join, ss) ==
    /\ join[0] = <<>>
    /\ \A k \in 1 .. Len(ss) : join[k] = join[k - 1] \o ss[k]
    /\ \A k \in 0 .. Len(ss) : IsList(join[k])

\* FlattenSeq puts lists one after the other, from the first on.
LEMMA JoinedLists ==
    ASSUME NEW ss, IsList(ss), \A k \in 1 .. Len(ss) : IsList(ss[k])
    PROVE  \E join : Joined(join, ss) /\ join[Len(ss)] = FlattenSeq(ss)
  <1> DEFINE n == Len(ss)
             flat == CHOOSE g : Flattened(g, ss, n)
             join == [k \in 0 .. n |-> IF k = 0 THEN <<>> ELSE flat[k]]
  <1>1. n \in Nat
    BY ListIs
  <1>2. Flattened(flat, ss, n)
    BY <1>1, FlattenedExists
  <1>3. n # 0 => FlattenSeq(ss) = flat[n]
    BY DEF FlattenSeq, Flattened
  <1> HIDE DEF flat
  <1>4. n = 0 => FlattenSeq(ss) = <<>>
    <2> SUFFICES ASSUME n = 0 PROVE FlattenSeq(ss) = <<>>
      OBVIOUS
    <2>1. FlattenSeq(ss) = ss
      BY DEF FlattenSeq
    <2>2. ss = [k \in 1 .. 0 |-> ss[k]]
      BY DEF IsList
    <2> QED
      BY <2>1, <2>2
  <1>5. \A k \in 1 .. n : flat[k] = IF k = 1 THEN ss[k] ELSE flat[k - 1] \o ss[k]
    BY <1>2 DEF Flattened
  <1> HIDE DEF n
  <1>6. join[0] = <<>> /\ \A k \in 1 .. n : join[k] = flat[k]
    BY <1>1
  <1>7. join[n] = FlattenSeq(ss)
    BY <1>1, <1>3, <1>4, <1>6
  <1>8. ASSUME NEW k \in 1 .. n
        PROVE  join[k] = join[k - 1] \o ss[k]
    <2>1. CASE k = 1
      <3>1. join[k - 1] = <<>> /\ IsList(ss[k])
        BY <1>6, <2>1 DEF n
      <3>2. ss[k] \in Seq({ss[k][i] : i \in 1 .. Len(ss[k])})
        BY <3>1, ListIs
      <3>3. <<>> \o ss[k] = ss[k]
        BY <3>2
      <3> QED
        BY <1>5, <1>6, <2>1, <3>1, <3>3
    <2>2. CASE k # 1
      <3>1. k - 1 \in 1 .. n
        BY <1>1, <2>2
      <3> QED
        BY <1>5, <1>6, <2>2, <3>1
    <2> QED
      BY <2>1, <2>2
  <1> HIDE DEF join
  <1>9. \A k \in 0 .. n : IsList(join[k])
    <2> DEFINE S == {k \in 0 .. n : IsList(join[k])}
    <2>1. 0 \in S
      BY <1>1, <1>6 DEF IsList
    <2>2. ASSUME NEW k \in 1 .. n, k - 1 \in S
          PROVE  k \in S
      <3>1. IsList(join[k - 1]) /\ IsList(ss[k])
        BY <2>2 DEF n
      <3>2. IsList(join[k - 1] \o ss[k])
        BY ONLY <3>1, Concatenation
      <3>3. join[k] = join[k - 1] \o ss[k]
        BY <1>8, <2>2
      <3>4. k \in 0 .. n
        BY <1>1, <2>2
      <3>5. IsList(join[k])
        BY ONLY <3>2, <3>3
      <3> QED
        BY <3>4, <3>5
    <2>3. \A k \in 0 .. n : k \in S
      <3> HIDE DEF S
      <3> QED
        BY <1>1, <2>1, <2>2, CountingUp
    <2> QED
      BY <2>3
  <1> QED
    BY <1>6, <1>7, <1>8, <1>9 DEF Joined, n

-----------------------------------------------------------------------------
(* Files and readers.                                                      *)

\* The file f has all of s from the place at on, or ends within it.
StandsAt(f, at, s) ==
    /\ at + Len(s) <= Len(f) + 1
    /\ \A i \in 1 .. Len(s) : f[at + i - 1] = s[i]
BreaksOff(f, at, s) ==
    /\ at + Len(s) > Len(f) + 1
    /\ \A i \in 1 .. Len(f) + 1 - at : f[at + i - 1] = s[i]

\* What the reader should make of a file where s stands for v.
Inverts(f, reader, s, v) ==
    /\ IsList(s)
    /\ \A at \in Places(f) :
           /\ StandsAt(f, at, s) => reader[at] = Got(at + Len(s), v)
           /\ BreaksOff(f, at, s) => reader[at] = Refused

\* A file that has s and then t from a place on has s there and t behind it;
\* one that ends within them ends within s, or has s and ends within t.
LEMMA Parts ==
    ASSUME NEW f, IsList(f), NEW s, IsList(s), NEW t, IsList(t), NEW at \in Places(f)
    PROVE  /\ StandsAt(f, at, s \o t) =>
                  StandsAt(f, at, s) /\ at + Len(s) \in Places(f) /\ StandsAt(f, at + Len(s), t)
           /\ BreaksOff(f, at, s \o t) =>
                  \/ BreaksOff(f, at, s)
                  \/ StandsAt(f, at, s) /\ at + Len(s) \in Places(f) /\ BreaksOff(f, at + Len(s), t)
  <1>1. Len(f) \in Nat /\ Len(s) \in Nat /\ Len(t) \in Nat /\ at \in Nat \ {0} /\ at <= Len(f) + 1
    BY ListIs DEF Places
  <1>2. /\ Len(s \o t) = Len(s) + Len(t)
        /\ \A i \in 1 .. Len(s) : (s \o t)[i] = s[i]
        /\ \A i \in 1 .. Len(t) : (s \o t)[Len(s) + i] = t[i]
    BY Concatenation
  <1> DEFINE st == s \o t
  <1> HIDE DEF st
  <1>3. ASSUME StandsAt(f, at, st)
        PROVE  StandsAt(f, at, s) /\ at + Len(s) \in Places(f) /\ StandsAt(f, at + Len(s), t)
    <2>1. /\ at + (Len(s) + Len(t)) <= Len(f) + 1
          /\ \A i \in 1 .. Len(s) + Len(t) : f[at + i - 1] = st[i]
      BY <1>2, <1>3 DEF StandsAt, st
    <2>2. StandsAt(f, at, s)
      <3>1. at + Len(s) <= Len(f) + 1 /\ \A i \in 1 .. Len(s) : i \in 1 .. Len(s) + Len(t)
        BY <1>1, <2>1
      <3>2. \A i \in 1 .. Len(s) : f[at + i - 1] = s[i]
        BY <1>2, <2>1, <3>1 DEF st
      <3> QED
        BY <3>1, <3>2 DEF StandsAt
    <2>3. ASSUME NEW i \in 1 .. Len(t) PROVE f[(at + Len(s)) + i - 1] = t[i]
      <3>1. Len(s) + i \in 1 .. Len(s) + Len(t)
        BY <1>1
      <3>2. f[at + (Len(s) + i) - 1] = st[Len(s) + i]
        BY <2>1, <3>1
      <3>3. at + (Len(s) + i) - 1 = (at + Len(s)) + i - 1
        BY <1>1
      <3> QED
        BY <1>2, <3>2, <3>3 DEF st
    <2>4. at + Len(s) \in Places(f) /\ (at + Len(s)) + Len(t) <= Len(f) + 1
      BY <1>1, <2>1 DEF Places
    <2> QED
      BY <2>2, <2>3, <2>4 DEF StandsAt
  <1>4. ASSUME BreaksOff(f, at, st), ~BreaksOff(f, at, s)
        PROVE  StandsAt(f, at, s) /\ at + Len(s) \in Places(f) /\ BreaksOff(f, at + Len(s), t)
    <2>1. /\ at + (Len(s) + Len(t)) > Len(f) + 1
          /\ \A i \in 1 .. Len(f) + 1 - at : f[at + i - 1] = st[i]
      BY <1>2, <1>4 DEF BreaksOff, st
    <2>2. at + Len(s) <= Len(f) + 1
      <3>1. SUFFICES ASSUME at + Len(s) > Len(f) + 1 PROVE FALSE
        BY <1>1
      <3>2. \A i \in 1 .. Len(f) + 1 - at : i \in 1 .. Len(s)
        BY <1>1, <3>1
      <3>3. BreaksOff(f, at, s)
        BY <1>2, <2>1, <3>1, <3>2 DEF BreaksOff, st
      <3> QED
        BY <1>4, <3>3
    <2>3. \A i \in 1 .. Len(s) : i \in 1 .. Len(f) + 1 - at
      BY <1>1, <2>2
    <2>4. StandsAt(f, at, s)
      BY <1>2, <2>1, <2>2, <2>3 DEF StandsAt, st
    <2>5. ASSUME NEW i \in 1 .. Len(f) + 1 - (at + Len(s)) PROVE f[(at + Len(s)) + i - 1] = t[i]
      <3>1. Len(s) + i \in 1 .. Len(f) + 1 - at /\ i \in 1 .. Len(t)
        BY <1>1, <2>1, <2>2
      <3>2. f[at + (Len(s) + i) - 1] = st[Len(s) + i]
        BY <2>1, <3>1
      <3>3. at + (Len(s) + i) - 1 = (at + Len(s)) + i - 1
        BY <1>1
      <3> QED
        BY <1>2, <3>1, <3>2, <3>3 DEF st
    <2>6. at + Len(s) \in Places(f) /\ (at + Len(s)) + Len(t) > Len(f) + 1
      BY <1>1, <2>1, <2>2 DEF Places
    <2> QED
      BY <2>4, <2>5, <2>6 DEF BreaksOff
  <1> QED
    BY <1>3, <1>4 DEF st

(* A word is read where it stands, and refused past the end.               *)
LEMMA WordInverts ==
    ASSUME NEW f, IsList(f), NEW w
    PROVE  Inverts(f, WordAt(f), <<w>>, w)
  <1>1. IsList(<<w>>) /\ Len(<<w>>) = 1 /\ <<w>>[1] = w
    BY WordsAreLists
  <1>2. ASSUME NEW at \in Places(f)
        PROVE  /\ StandsAt(f, at, <<w>>) => WordAt(f)[at] = Got(at + 1, w)
               /\ BreaksOff(f, at, <<w>>) => WordAt(f)[at] = Refused
    <2>1. Len(f) \in Nat /\ at \in Nat \ {0} /\ at <= Len(f) + 1
      BY ListIs DEF Places
    <2>2. WordAt(f)[at] = IF at <= Len(f) THEN Got(at + 1, f[at]) ELSE Refused
      BY DEF WordAt
    <2>3. ASSUME StandsAt(f, at, <<w>>) PROVE at <= Len(f) /\ f[at] = w
      <3>1. at + 1 <= Len(f) + 1 /\ f[at + 1 - 1] = w
        BY <1>1, <2>3 DEF StandsAt
      <3>2. at + 1 - 1 = at
        BY <2>1
      <3> QED
        BY <2>1, <3>1, <3>2
    <2>4. ASSUME BreaksOff(f, at, <<w>>) PROVE ~(at <= Len(f))
      BY <1>1, <2>1, <2>4 DEF BreaksOff
    <2> QED
      BY <2>2, <2>3, <2>4
  <1> QED
    BY <1>1, <1>2 DEF Inverts
-----------------------------------------------------------------------------
(* Readers in turn.                                                        *)

\* The first k of a list.
FirstOnes(vs, k) == [i \in 1 .. k |-> vs[i]]

\* The first k are the first k - 1 and one more.
LEMMA FirstsAppend ==
    ASSUME NEW vs, IsList(vs), NEW k \in 1 .. Len(vs)
    PROVE  Append(FirstOnes(vs, k - 1), vs[k]) = FirstOnes(vs, k)
  <1> DEFINE W == {vs[i] : i \in 1 .. Len(vs)}
  <1>1. Len(vs) \in Nat /\ k - 1 \in Nat /\ k <= Len(vs)
    BY ListIs
  <1>2. FirstOnes(vs, k - 1) \in Seq(W) /\ Len(FirstOnes(vs, k - 1)) = k - 1 /\ vs[k] \in W
    <2>1. \A i \in 1 .. k - 1 : vs[i] \in W
      BY <1>1
    <2>2. vs[k] \in W
      OBVIOUS
    <2> HIDE DEF W
    <2>3. FirstOnes(vs, k - 1) \in [1 .. k - 1 -> W]
      BY <2>1 DEF FirstOnes
    <2> QED
      BY <1>1, <2>2, <2>3 DEF FirstOnes
  <1> HIDE DEF W
  <1> DEFINE more == Append(FirstOnes(vs, k - 1), vs[k])
  <1>3. more \in Seq(W) /\ Len(more) = k
    BY <1>1, <1>2
  <1>4. ASSUME NEW i \in 1 .. k PROVE more[i] = vs[i]
    <2>1. i # k => FirstOnes(vs, k - 1)[i] = vs[i]
      BY <1>1, <1>4 DEF FirstOnes
    <2> QED
      BY <1>1, <1>2, <1>4, <2>1
  <1> HIDE DEF more
  <1>5. more = [i \in 1 .. k |-> more[i]]
    BY <1>3
  <1>6. more = FirstOnes(vs, k)
    BY <1>4, <1>5 DEF FirstOnes
  <1> QED
    BY <1>6 DEF more

\* What InTurn adds up.
TakeNext(before, item) ==
    IF before.ok /\ item.ok THEN Got(item.at, Append(before.val, item.val)) ELSE Refused
Turned(got, readers, at, n) ==
    got = [k \in 0 .. n |-> IF k = 0 THEN Got(at, <<>>)
                            ELSE TakeNext(got[k - 1], readers[k][got[k - 1].at])]

\* What the places add up to.
LEMMA Associates == \A i, j, k \in Nat : (i + j) + k = i + (j + k)
  OBVIOUS

\* What was read is not refused, and says what was read up to where.
LEMMA GotsDiffer ==
    \A p, v : Got(p, v) # Refused /\ \A q, w : Got(p, v) = Got(q, w) => p = q /\ v = w
  BY DEF Got, Refused, NotRead

\* One more item is read behind the others.
LEMMA NextGot ==
    \A p, v, q, w : TakeNext(Got(p, v), Got(q, w)) = Got(q, Append(v, w))
  BY DEF TakeNext, Got

\* InTurn is defined for every number of readers.
LEMMA TurnedExists ==
    ASSUME NEW readers, NEW at, NEW n \in Nat
    PROVE  \E got : Turned(got, readers, at, n)
  <1> DEFINE S == {m \in Nat : \E got : Turned(got, readers, at, m)}
  <1>1. 0 \in S
    <2> DEFINE none == [k \in 0 .. 0 |-> Got(at, <<>>)]
    <2>1. Turned(none, readers, at, 0)
      BY DEF Turned
    <2> QED
      BY <2>1
  <1>2. ASSUME NEW m \in 1 .. n, m - 1 \in S
        PROVE  m \in S
    <2>1. PICK got : Turned(got, readers, at, m - 1)
      BY <1>2
    <2> DEFINE new == TakeNext(got[m - 1], readers[m][got[m - 1].at])
               more == [k \in 0 .. m |-> IF k = m THEN new ELSE got[k]]
    <2>2. \A k \in 0 .. m - 1 : got[k] = IF k = 0 THEN Got(at, <<>>)
                                         ELSE TakeNext(got[k - 1], readers[k][got[k - 1].at])
      BY <2>1 DEF Turned
    <2>3. more = [k \in 0 .. m |-> more[k]]
      OBVIOUS
    <2>4. ASSUME NEW k \in 0 .. m
          PROVE  more[k] = IF k = 0 THEN Got(at, <<>>)
                           ELSE TakeNext(more[k - 1], readers[k][more[k - 1].at])
      <3>1. CASE k = 0
        <4>1. more[k] = got[k] /\ k \in 0 .. m - 1
          BY <1>2, <2>4, <3>1
        <4> HIDE DEF more
        <4> QED
          BY <2>2, <3>1, <4>1
      <3>2. CASE k # 0
        <4>1. k - 1 \in 0 .. m /\ k - 1 # m
          BY <2>4, <3>2
        <4>2. more[k - 1] = got[k - 1]
          BY <4>1
        <4>3. k = m => more[k] = new
          BY <3>2
        <4>4. k # m => more[k] = got[k] /\ k \in 0 .. m - 1
          BY <2>4
        <4> HIDE DEF more
        <4> QED
          BY <2>2, <3>2, <4>2, <4>3, <4>4
      <3> QED
        BY <3>1, <3>2
    <2>5. Turned(more, readers, at, m)
      <3> HIDE DEF more
      <3> QED
        BY <2>3, <2>4 DEF Turned
    <2> QED
      BY <2>5
  <1> HIDE DEF S
  <1>3. \A k \in 0 .. n : k \in S
    BY <1>1, <1>2, CountingUp
  <1> QED
    BY <1>3 DEF S

\* InTurn gives the last of what it adds up.
LEMMA InTurnIs ==
    ASSUME NEW readers, NEW at, Len(readers) \in Nat
    PROVE  \E got : Turned(got, readers, at, Len(readers)) /\ InTurn(readers, at) = got[Len(readers)]
  <1> DEFINE got == CHOOSE g : Turned(g, readers, at, Len(readers))
  <1>1. Turned(got, readers, at, Len(readers))
    BY TurnedExists
  <1>2. InTurn(readers, at) = got[Len(readers)]
    BY DEF InTurn, Turned, TakeNext
  <1> QED
    BY <1>1, <1>2

\* Every reader of a row of them inverts what stands for its value.
AllInvert(f, readers, ss, vs) ==
    /\ IsList(ss) /\ IsList(vs) /\ Len(vs) = Len(ss) /\ Len(readers) = Len(ss)
    /\ \A k \in 1 .. Len(ss) : Inverts(f, readers[k], ss[k], vs[k])

\* Readers in turn read lists that stand one after the other, and refuse a file
\* that ends within them.
LEMMA ReadInTurn ==
    ASSUME NEW f, IsList(f), NEW readers, NEW ss, NEW vs, AllInvert(f, readers, ss, vs)
    PROVE  /\ IsList(FlattenSeq(ss))
           /\ \A at \in Places(f) :
                  /\ StandsAt(f, at, FlattenSeq(ss)) =>
                         InTurn(readers, at) = Got(at + Len(FlattenSeq(ss)), vs)
                  /\ BreaksOff(f, at, FlattenSeq(ss)) => InTurn(readers, at) = Refused
  <1> DEFINE n == Len(ss)
  <1>1. n \in Nat /\ n = Len(readers) /\ IsList(ss) /\ IsList(vs) /\ n = Len(vs)
    BY ListIs DEF AllInvert
  <1>2. \A k \in 1 .. n : Inverts(f, readers[k], ss[k], vs[k]) /\ IsList(ss[k])
    BY DEF AllInvert, Inverts
  <1>3. PICK join : Joined(join, ss) /\ join[n] = FlattenSeq(ss)
    BY <1>1, <1>2, JoinedLists
  <1> HIDE DEF n
  <1>4. /\ join[0] = <<>>
        /\ \A k \in 1 .. n : join[k] = join[k - 1] \o ss[k]
        /\ \A k \in 0 .. n : IsList(join[k])
    BY <1>3 DEF Joined, n
  <1>5. ASSUME NEW at \in Places(f)
        PROVE  /\ StandsAt(f, at, FlattenSeq(ss)) =>
                      InTurn(readers, at) = Got(at + Len(FlattenSeq(ss)), vs)
               /\ BreaksOff(f, at, FlattenSeq(ss)) => InTurn(readers, at) = Refused
    <2>1. PICK got : Turned(got, readers, at, n) /\ InTurn(readers, at) = got[n]
      BY <1>1, InTurnIs
    <2>2. /\ got[0] = Got(at, <<>>)
          /\ \A k \in 1 .. n : got[k] = TakeNext(got[k - 1], readers[k][got[k - 1].at])
      BY <1>1, <2>1 DEF Turned
    <2> DEFINE ReadsUpTo(k) ==
                   /\ StandsAt(f, at, join[k]) => got[k] = Got(at + Len(join[k]), FirstOnes(vs, k))
                   /\ BreaksOff(f, at, join[k]) => got[k] = Refused
               S == {k \in 0 .. n : ReadsUpTo(k)}
    <2>3. ReadsUpTo(0)
      <3>1. Len(join[0]) = 0 /\ FirstOnes(vs, 0) = <<>>
        BY <1>4 DEF FirstOnes
      <3>2. at \in Nat /\ at <= Len(f) + 1 /\ Len(f) \in Nat
        BY ListIs DEF Places
      <3>3. ~BreaksOff(f, at, join[0])
        BY <3>1, <3>2 DEF BreaksOff
      <3> QED
        BY <2>2, <3>1, <3>2, <3>3
    <2>4. ASSUME NEW k \in 1 .. n, ReadsUpTo(k - 1)
          PROVE  ReadsUpTo(k)
      <3> DEFINE before == join[k - 1]
      <3>1. k - 1 \in 0 .. n
        BY <1>1
      <3>2. IsList(before) /\ IsList(ss[k]) /\ join[k] = before \o ss[k]
        BY <1>2, <1>4, <3>1
      <3>3. /\ StandsAt(f, at, before) => got[k - 1] = Got(at + Len(before), FirstOnes(vs, k - 1))
            /\ BreaksOff(f, at, before) => got[k - 1] = Refused
        BY <2>4
      <3>4. got[k] = TakeNext(got[k - 1], readers[k][got[k - 1].at])
        BY <2>2
      <3>5. Append(FirstOnes(vs, k - 1), vs[k]) = FirstOnes(vs, k)
        BY <1>1, FirstsAppend
      <3>6. Len(before \o ss[k]) = Len(before) + Len(ss[k])
        BY <3>2, Concatenation
      <3>7. \A p \in Places(f) :
                /\ StandsAt(f, p, ss[k]) => readers[k][p] = Got(p + Len(ss[k]), vs[k])
                /\ BreaksOff(f, p, ss[k]) => readers[k][p] = Refused
        BY <1>2 DEF Inverts
      <3>8. /\ StandsAt(f, at, before \o ss[k]) =>
                   StandsAt(f, at, before) /\ at + Len(before) \in Places(f)
                   /\ StandsAt(f, at + Len(before), ss[k])
            /\ BreaksOff(f, at, before \o ss[k]) =>
                   \/ BreaksOff(f, at, before)
                   \/ StandsAt(f, at, before) /\ at + Len(before) \in Places(f)
                      /\ BreaksOff(f, at + Len(before), ss[k])
        BY ONLY <3>2, Parts, IsList(f), at \in Places(f)
      <3>9. Len(before) \in Nat /\ Len(ss[k]) \in Nat /\ at \in Nat
        BY <3>2, ListIs DEF Places
      <3> HIDE DEF before
      <3>10. ASSUME StandsAt(f, at, before \o ss[k])
             PROVE  got[k] = Got(at + Len(before \o ss[k]), FirstOnes(vs, k))
        <4>1. got[k - 1] = Got(at + Len(before), FirstOnes(vs, k - 1))
          BY <3>3, <3>8, <3>10
        <4>2. readers[k][at + Len(before)] = Got((at + Len(before)) + Len(ss[k]), vs[k])
          BY <3>7, <3>8, <3>10
        <4>3. (at + Len(before)) + Len(ss[k]) = at + (Len(before) + Len(ss[k]))
          BY ONLY <3>9, Associates
        <4>4. got[k] = TakeNext(Got(at + Len(before), FirstOnes(vs, k - 1)),
                            Got((at + Len(before)) + Len(ss[k]), vs[k]))
          BY ONLY <3>4, <4>1, <4>2 DEF Got
        <4>5. got[k] = Got((at + Len(before)) + Len(ss[k]), FirstOnes(vs, k))
          <5> DEFINE p == at + Len(before)
                     q == (at + Len(before)) + Len(ss[k])
          <5>1. TakeNext(Got(p, FirstOnes(vs, k - 1)), Got(q, vs[k])) = Got(q, Append(FirstOnes(vs, k - 1), vs[k]))
            BY ONLY NextGot
          <5> QED
            BY ONLY <3>5, <4>4, <5>1
        <4> QED
          BY ONLY <3>6, <4>3, <4>5, Zenon
      <3>11. ASSUME BreaksOff(f, at, before \o ss[k])
             PROVE  got[k] = Refused
        <4>1. CASE BreaksOff(f, at, before)
          BY ONLY <3>3, <3>4, <4>1 DEF TakeNext, Refused, NotRead
        <4>2. CASE /\ StandsAt(f, at, before) /\ at + Len(before) \in Places(f)
                   /\ BreaksOff(f, at + Len(before), ss[k])
          <5>1. got[k - 1] = Got(at + Len(before), FirstOnes(vs, k - 1))
            BY <3>3, <4>2
          <5>2. readers[k][at + Len(before)] = Refused
            BY <3>7, <4>2
          <5> QED
            BY ONLY <3>4, <5>1, <5>2 DEF TakeNext, Got, Refused, NotRead
        <4> QED
          BY <3>8, <3>11, <4>1, <4>2
      <3> QED
        BY <3>2, <3>10, <3>11
    <2> HIDE DEF ReadsUpTo
    <2>5. ReadsUpTo(n)
      <3>1. \A k \in 1 .. n : k - 1 \in S => k \in S
        BY <1>1, <2>4
      <3>2. 0 \in S
        BY <1>1, <2>3
      <3> HIDE DEF S
      <3>3. n \in S
        <4>1. \A k \in 0 .. n : k \in S
          BY <1>1, <3>1, <3>2, CountingUp
        <4> QED
          BY <1>1, <4>1
      <3> QED
        BY <3>3 DEF S
    <2>6. FirstOnes(vs, n) = vs
      BY <1>1 DEF FirstOnes, IsList
    <2> QED
      BY <1>3, <2>1, <2>5, <2>6 DEF ReadsUpTo
  <1>6. IsList(FlattenSeq(ss))
    BY <1>1, <1>3, <1>4
  <1> QED
    BY <1>5, <1>6
(* Fields under their names.                                               *)
AreNames(names) ==
    /\ IsList(names)
    /\ \A i, j \in 1 .. Len(names) : names[i] = names[j] => i = j

\* What stands in the fields of r, in the order of the names.
Under(r, names) == [n \in 1 .. Len(names) |-> r[names[n]]]

\* Values under their names.
Named(names, vs) == [x \in ToSet(names) |-> vs[CHOOSE n \in DOMAIN names : names[n] = x]]

\* Fields that are read in turn make up the record they were written from.
LEMMA FieldsInvert ==
    ASSUME NEW f, IsList(f), NEW names, AreNames(names), NEW r, IsRecord(r, names),
           NEW readers, NEW ss, AllInvert(f, readers, ss, Under(r, names))
    PROVE  Inverts(f, FieldsAt(f, names, readers), FlattenSeq(ss), r)
  <1>1. /\ IsList(FlattenSeq(ss))
        /\ \A at \in Places(f) :
               /\ StandsAt(f, at, FlattenSeq(ss)) =>
                      InTurn(readers, at) = Got(at + Len(FlattenSeq(ss)), Under(r, names))
               /\ BreaksOff(f, at, FlattenSeq(ss)) => InTurn(readers, at) = Refused
    BY ReadInTurn
  <1>2. Len(names) \in Nat /\ DOMAIN names = 1 .. Len(names)
    BY ListIs DEF AreNames
  <1>3. Named(names, Under(r, names)) = r
    <2> DEFINE at(x) == CHOOSE n \in DOMAIN names : names[n] = x
    <2>1. ASSUME NEW x \in ToSet(names) PROVE Under(r, names)[at(x)] = r[x]
      <3>1. \E n \in DOMAIN names : names[n] = x
        BY <2>1 DEF ToSet
      <3>2. at(x) \in 1 .. Len(names) /\ names[at(x)] = x
        BY <1>2, <3>1
      <3> HIDE DEF at
      <3> QED
        BY <3>2 DEF Under
    <2> HIDE DEF at
    <2>2. [x \in ToSet(names) |-> Under(r, names)[at(x)]] = [x \in ToSet(names) |-> r[x]]
      BY <2>1
    <2>3. r = [x \in ToSet(names) |-> r[x]]
      BY DEF IsRecord
    <2> QED
      BY <2>2, <2>3 DEF at, Named
  <1>4. ASSUME NEW at \in Places(f)
        PROVE  FieldsAt(f, names, readers)[at] =
                   IF InTurn(readers, at).ok
                   THEN Got(InTurn(readers, at).at, Named(names, InTurn(readers, at).val))
                   ELSE Refused
    BY DEF FieldsAt, Named
  <1>5. ASSUME NEW at \in Places(f), StandsAt(f, at, FlattenSeq(ss))
        PROVE  FieldsAt(f, names, readers)[at] = Got(at + Len(FlattenSeq(ss)), r)
    <2>1. InTurn(readers, at) = Got(at + Len(FlattenSeq(ss)), Under(r, names))
      BY ONLY <1>1, <1>5
    <2>2. /\ InTurn(readers, at).ok
          /\ InTurn(readers, at).at = at + Len(FlattenSeq(ss))
          /\ InTurn(readers, at).val = Under(r, names)
      BY ONLY <2>1 DEF Got
    <2> QED
      BY ONLY <1>3, <1>4, <1>5, <2>2
  <1>6. ASSUME NEW at \in Places(f), BreaksOff(f, at, FlattenSeq(ss))
        PROVE  FieldsAt(f, names, readers)[at] = Refused
    <2>1. InTurn(readers, at) = Refused
      BY ONLY <1>1, <1>6
    <2>2. ~InTurn(readers, at).ok
      BY ONLY <2>1 DEF Refused, NotRead
    <2> QED
      BY ONLY <1>4, <1>6, <2>2
  <1> QED
    BY <1>1, <1>5, <1>6 DEF Inverts

(* A list behind its length.                                               *)
LEMMA ListInverts ==
    ASSUME NEW f, IsList(f), NEW item, NEW vs, IsList(vs), NEW ss, IsList(ss), Len(ss) = Len(vs),
           \A k \in 1 .. Len(vs) : Inverts(f, item, ss[k], vs[k])
    PROVE  Inverts(f, ListAt(f, item), Counted(ss), vs)
  <1> DEFINE n == Len(ss)
             readers == [k \in 1 .. n |-> item]
             items == FlattenSeq(ss)
  <1>1. n \in Nat
    BY ListIs
  <1>2. Len(readers) = n /\ \A k \in 1 .. n : readers[k] = item
    <2>1. readers \in [1 .. n -> {item}]
      OBVIOUS
    <2> HIDE DEF readers
    <2>2. Len(readers) = n
      BY <1>1, <2>1
    <2> QED
      BY <2>2 DEF readers
  <1> HIDE DEF readers
  <1>3. AllInvert(f, readers, ss, vs)
    BY <1>2 DEF AllInvert
  <1>4. /\ IsList(items)
        /\ \A at \in Places(f) :
               /\ StandsAt(f, at, items) => InTurn(readers, at) = Got(at + Len(items), vs)
               /\ BreaksOff(f, at, items) => InTurn(readers, at) = Refused
    BY <1>3, ReadInTurn
  <1> HIDE DEF items
  <1>5. IsList(<<n>>) /\ Len(<<n>>) = 1
    BY WordsAreLists
  <1>6. Counted(ss) = <<n>> \o items
    BY DEF Counted, items
  <1>7. IsList(<<n>> \o items) /\ Len(<<n>> \o items) = 1 + Len(items) /\ Len(items) \in Nat
    BY <1>4, <1>5, Concatenation, ListIs
  <1> HIDE DEF n
  <1>8. Inverts(f, WordAt(f), <<n>>, n)
    BY WordInverts
  <1>9. ASSUME NEW at \in Places(f)
        PROVE  /\ ListAt(f, item)[at] =
                      IF at <= Len(f) THEN InTurn([k \in 1 .. f[at] |-> item], at + 1) ELSE Refused
               /\ WordAt(f)[at] = IF at <= Len(f) THEN Got(at + 1, f[at]) ELSE Refused
               /\ at \in Nat
    BY DEF ListAt, WordAt, Places
  <1>10. ASSUME NEW at \in Places(f)
         PROVE  /\ StandsAt(f, at, <<n>>) => ListAt(f, item)[at] = InTurn(readers, at + 1)
                /\ BreaksOff(f, at, <<n>>) => ListAt(f, item)[at] = Refused
    <2>1. ASSUME StandsAt(f, at, <<n>>) PROVE at <= Len(f) /\ f[at] = n
      <3>1. WordAt(f)[at] = Got(at + 1, n)
        BY <1>5, <1>8, <1>10, <2>1 DEF Inverts
      <3>2. Got(at + 1, n) # Refused /\ (Got(at + 1, f[at]) = Got(at + 1, n) => f[at] = n)
        BY ONLY GotsDiffer
      <3> QED
        BY ONLY <1>9, <1>10, <3>1, <3>2, Zenon
    <2>2. ASSUME BreaksOff(f, at, <<n>>) PROVE ~(at <= Len(f))
      <3>1. WordAt(f)[at] = Refused
        BY <1>8, <1>10, <2>2 DEF Inverts
      <3>2. Got(at + 1, f[at]) # Refused
        BY ONLY GotsDiffer
      <3> QED
        BY ONLY <1>9, <1>10, <3>1, <3>2, Zenon
    <2>3. ASSUME StandsAt(f, at, <<n>>) PROVE ListAt(f, item)[at] = InTurn(readers, at + 1)
      BY ONLY <1>9, <1>10, <2>1, <2>3 DEF readers
    <2> QED
      BY ONLY <1>9, <1>10, <2>2, <2>3
  <1>11. ASSUME NEW at \in Places(f)
         PROVE  /\ StandsAt(f, at, <<n>> \o items) =>
                       StandsAt(f, at, <<n>>) /\ at + 1 \in Places(f) /\ StandsAt(f, at + 1, items)
                /\ BreaksOff(f, at, <<n>> \o items) =>
                       \/ BreaksOff(f, at, <<n>>)
                       \/ StandsAt(f, at, <<n>>) /\ at + 1 \in Places(f) /\ BreaksOff(f, at + 1, items)
    <2>1. /\ StandsAt(f, at, <<n>> \o items) =>
                 /\ StandsAt(f, at, <<n>>) /\ at + Len(<<n>>) \in Places(f)
                 /\ StandsAt(f, at + Len(<<n>>), items)
          /\ BreaksOff(f, at, <<n>> \o items) =>
                 \/ BreaksOff(f, at, <<n>>)
                 \/ /\ StandsAt(f, at, <<n>>) /\ at + Len(<<n>>) \in Places(f)
                    /\ BreaksOff(f, at + Len(<<n>>), items)
      BY ONLY <1>4, <1>5, <1>11, Parts, IsList(f)
    <2>2. at + Len(<<n>>) = at + 1
      BY ONLY <1>5
    <2> QED
      BY ONLY <2>1, <2>2, Zenon
  <1>12. ASSUME NEW at \in Places(f), StandsAt(f, at, <<n>> \o items)
         PROVE  ListAt(f, item)[at] = Got(at + Len(<<n>> \o items), vs)
    <2>1. ListAt(f, item)[at] = Got((at + 1) + Len(items), vs)
      BY ONLY <1>4, <1>10, <1>11, <1>12
    <2>2. (at + 1) + Len(items) = at + (1 + Len(items))
      BY ONLY <1>7, <1>9, <1>12, Associates
    <2> QED
      BY ONLY <1>7, <2>1, <2>2, Zenon
  <1>13. ASSUME NEW at \in Places(f), BreaksOff(f, at, <<n>> \o items)
         PROVE  ListAt(f, item)[at] = Refused
    BY ONLY <1>4, <1>10, <1>11, <1>13
  <1> QED
    BY <1>6, <1>7, <1>12, <1>13 DEF Inverts
-----------------------------------------------------------------------------
(* The parts of an artifact.                                               *)

\* A function on 1 .. n is a list of length n.
LEMMA FunctionIsList ==
    ASSUME NEW n \in Nat, NEW s, s = [i \in 1 .. n |-> s[i]]
    PROVE  IsList(s) /\ Len(s) = n /\ DOMAIN s = 1 .. n
  <1> DEFINE W == {s[i] : i \in 1 .. n}
  <1>1. s \in [1 .. n -> W]
    OBVIOUS
  <1> HIDE DEF W
  <1>2. s \in Seq(W) /\ Len(s) = n
    BY <1>1
  <1>3. IsList(s)
    BY <1>2, SequenceIsList
  <1> QED
    BY <1>2, <1>3

\* No record has a field twice.
LEMMA NamesDiffer ==
    /\ AreNames(PairNames) /\ AreNames(PredicateNames) /\ AreNames(DevicePredicateNames)
    /\ AreNames(RuleNames) /\ AreNames(IrNames) /\ AreNames(FirstNames) /\ AreNames(DeviceNames)
  <1>1. AreNames(PairNames) /\ AreNames(DeviceNames)
    BY DEF AreNames, IsList, PairNames, DeviceNames
  <1>2. AreNames(PredicateNames) /\ AreNames(DevicePredicateNames)
    BY DEF AreNames, IsList, PredicateNames, DevicePredicateNames
  <1>3. AreNames(IrNames)
    BY DEF AreNames, IsList, IrNames
  <1>4. AreNames(RuleNames)
    BY DEF AreNames, IsList, RuleNames
  <1>5. AreNames(FirstNames)
    BY DEF AreNames, IsList, FirstNames
  <1> QED
    BY <1>1, <1>2, <1>3, <1>4, <1>5

\* The values of a record in the order of its fields are a list.
LEMMA UnderIsList ==
    ASSUME NEW r, NEW names, AreNames(names)
    PROVE  IsList(Under(r, names)) /\ Len(Under(r, names)) = Len(names)
  <1>1. Len(names) \in Nat
    BY ListIs DEF AreNames
  <1>2. Under(r, names) = [n \in 1 .. Len(names) |-> Under(r, names)[n]]
    BY DEF Under
  <1> QED
    BY ONLY <1>1, <1>2, FunctionIsList

\* A row of words is read back,
LEMMA RowInverts ==
    ASSUME NEW f, IsList(f), NEW names, AreNames(names), NEW r, IsRecord(r, names)
    PROVE  Inverts(f, RowAt(f, names), WriteRow(r, names), r)
  <1> DEFINE ss == [n \in DOMAIN names |-> <<r[names[n]]>>]
             readers == [n \in DOMAIN names |-> WordAt(f)]
  <1>1. Len(names) \in Nat /\ DOMAIN names = 1 .. Len(names)
    BY ListIs DEF AreNames
  <1>2. IsList(ss) /\ Len(ss) = Len(names)
    <2>1. ss = [n \in 1 .. Len(names) |-> ss[n]]
      BY <1>1
    <2> HIDE DEF ss
    <2> QED
      BY ONLY <1>1, <2>1, FunctionIsList
  <1>3. Len(readers) = Len(names)
    <2>1. readers = [n \in 1 .. Len(names) |-> readers[n]]
      BY <1>1
    <2> HIDE DEF readers
    <2> QED
      BY ONLY <1>1, <2>1, FunctionIsList
  <1>4. ASSUME NEW n \in 1 .. Len(names)
        PROVE  Inverts(f, readers[n], ss[n], Under(r, names)[n])
    <2>1. readers[n] = WordAt(f) /\ ss[n] = <<r[names[n]]>> /\ Under(r, names)[n] = r[names[n]]
      BY <1>1 DEF Under
    <2>2. Inverts(f, WordAt(f), <<r[names[n]]>>, r[names[n]])
      BY WordInverts
    <2> HIDE DEF ss, readers
    <2> QED
      BY ONLY <2>1, <2>2, Zenon
  <1> HIDE DEF ss, readers
  <1>5. IsList(Under(r, names)) /\ Len(Under(r, names)) = Len(names)
    BY UnderIsList
  <1>6. AllInvert(f, readers, ss, Under(r, names))
    BY ONLY <1>2, <1>3, <1>4, <1>5 DEF AllInvert
  <1>7. Inverts(f, FieldsAt(f, names, readers), FlattenSeq(ss), r)
    BY <1>6, FieldsInvert
  <1> QED
    BY ONLY <1>7 DEF RowAt, WriteRow, ss, readers

\* and a list of rows,
LEMMA RowsInvert ==
    ASSUME NEW f, IsList(f), NEW names, AreNames(names), NEW v, IsRows(v, names)
    PROVE  Inverts(f, ListAt(f, RowAt(f, names)), WriteRows(v, names), v)
  <1> DEFINE ss == [n \in DOMAIN v |-> WriteRow(v[n], names)]
  <1>1. IsList(v) /\ Len(v) \in Nat /\ DOMAIN v = 1 .. Len(v)
    BY ListIs DEF IsRows
  <1>2. IsList(ss) /\ Len(ss) = Len(v)
    <2>1. ss = [n \in 1 .. Len(v) |-> ss[n]]
      BY <1>1
    <2> HIDE DEF ss
    <2> QED
      BY ONLY <1>1, <2>1, FunctionIsList
  <1>3. ASSUME NEW n \in 1 .. Len(v) PROVE Inverts(f, RowAt(f, names), ss[n], v[n])
    <2>1. ss[n] = WriteRow(v[n], names) /\ IsRecord(v[n], names)
      BY <1>1 DEF IsRows
    <2>2. Inverts(f, RowAt(f, names), WriteRow(v[n], names), v[n])
      BY <2>1, RowInverts
    <2> HIDE DEF ss
    <2> QED
      BY ONLY <2>1, <2>2, Zenon
  <1> HIDE DEF ss
  <1>4. Inverts(f, ListAt(f, RowAt(f, names)), Counted(ss), v)
    BY <1>1, <1>2, <1>3, ListInverts
  <1> QED
    BY ONLY <1>4 DEF WriteRows, ss

\* and a rule with its predicates and values,
LEMMA RuleInverts ==
    ASSUME NEW f, IsList(f), NEW predicate, AreNames(predicate), NEW r, IsRecord(r, RuleNames),
           IsRows(r.predicates, predicate), IsRows(r.values, PairNames)
    PROVE  Inverts(f, RuleAt(f, predicate), WriteRule(r, predicate), r)
  <1> DEFINE ss == << <<r.priority>>, <<r.order>>, WriteRows(r.predicates, predicate),
                      <<r.action>>, WriteRows(r.values, PairNames) >>
             readers == <<WordAt(f), WordAt(f), ListAt(f, RowAt(f, predicate)),
                          WordAt(f), ListAt(f, RowAt(f, PairNames))>>
             vs == Under(r, RuleNames)
  <1>1. AreNames(RuleNames) /\ Len(RuleNames) = 5
    BY NamesDiffer DEF RuleNames
  <1>2. IsList(vs) /\ Len(vs) = 5
    BY <1>1, UnderIsList
  <1>3. vs[1] = r.priority /\ vs[2] = r.order /\ vs[3] = r.predicates /\ vs[4] = r.action /\ vs[5] = r.values
    BY DEF Under, RuleNames
  <1> HIDE DEF vs
  <1>4. IsList(ss) /\ Len(ss) = 5 /\ Len(readers) = 5
    BY DEF IsList
  <1>5. /\ Inverts(f, ListAt(f, RowAt(f, predicate)), WriteRows(r.predicates, predicate), r.predicates)
        /\ Inverts(f, ListAt(f, RowAt(f, PairNames)), WriteRows(r.values, PairNames), r.values)
    BY RowsInvert, NamesDiffer
  <1>6. /\ Inverts(f, WordAt(f), <<r.priority>>, r.priority)
        /\ Inverts(f, WordAt(f), <<r.order>>, r.order)
        /\ Inverts(f, WordAt(f), <<r.action>>, r.action)
    BY WordInverts
  <1>7. ASSUME NEW n \in 1 .. 5 PROVE Inverts(f, readers[n], ss[n], vs[n])
    <2>1. n = 1 \/ n = 2 \/ n = 3 \/ n = 4 \/ n = 5
      BY <1>7
    <2> QED
      BY <1>3, <1>5, <1>6, <2>1
  <1> HIDE DEF ss, readers
  <1>8. AllInvert(f, readers, ss, vs)
    BY ONLY <1>2, <1>4, <1>7 DEF AllInvert
  <1>9. Inverts(f, FieldsAt(f, RuleNames, readers), FlattenSeq(ss), r)
    BY <1>1, <1>8, FieldsInvert DEF vs
  <1> QED
    BY ONLY <1>9 DEF RuleAt, WriteRule, ss, readers

\* and a list of rules,
LEMMA RulesInvert ==
    ASSUME NEW f, IsList(f), NEW predicate, AreNames(predicate), NEW v, IsRules(v, predicate)
    PROVE  Inverts(f, ListAt(f, RuleAt(f, predicate)), WriteRules(v, predicate), v)
  <1> DEFINE ss == [n \in DOMAIN v |-> WriteRule(v[n], predicate)]
  <1>1. IsList(v) /\ Len(v) \in Nat /\ DOMAIN v = 1 .. Len(v)
    BY ListIs DEF IsRules, IsRows
  <1>2. IsList(ss) /\ Len(ss) = Len(v)
    <2>1. ss = [n \in 1 .. Len(v) |-> ss[n]]
      BY <1>1
    <2> HIDE DEF ss
    <2> QED
      BY ONLY <1>1, <2>1, FunctionIsList
  <1>3. ASSUME NEW n \in 1 .. Len(v) PROVE Inverts(f, RuleAt(f, predicate), ss[n], v[n])
    <2>1. /\ ss[n] = WriteRule(v[n], predicate) /\ IsRecord(v[n], RuleNames)
          /\ IsRows(v[n].predicates, predicate) /\ IsRows(v[n].values, PairNames)
      BY <1>1 DEF IsRules, IsRows
    <2>2. Inverts(f, RuleAt(f, predicate), WriteRule(v[n], predicate), v[n])
      BY <2>1, RuleInverts
    <2> HIDE DEF ss
    <2> QED
      BY ONLY <2>1, <2>2, Zenon
  <1> HIDE DEF ss
  <1>4. Inverts(f, ListAt(f, RuleAt(f, predicate)), Counted(ss), v)
    BY <1>1, <1>2, <1>3, ListInverts
  <1> QED
    BY ONLY <1>4 DEF WriteRules, ss
\* and a line of the intermediate form,
LEMMA IrInverts ==
    ASSUME NEW f, IsList(f), NEW r, IsRecord(r, IrNames), IsRows(r.exact_filters, PairNames)
    PROVE  Inverts(f, IrAt(f), WriteIr(r), r)
  <1> DEFINE ss == << <<r.priority>>, <<r.order>>, <<r.kind>>, WriteRows(r.exact_filters, PairNames) >>
             readers == <<WordAt(f), WordAt(f), WordAt(f), ListAt(f, RowAt(f, PairNames))>>
             vs == Under(r, IrNames)
  <1>1. AreNames(IrNames) /\ Len(IrNames) = 4
    BY NamesDiffer DEF IrNames
  <1>2. IsList(vs) /\ Len(vs) = 4
    BY <1>1, UnderIsList
  <1>3. vs[1] = r.priority /\ vs[2] = r.order /\ vs[3] = r.kind /\ vs[4] = r.exact_filters
    BY DEF Under, IrNames
  <1> HIDE DEF vs
  <1>4. IsList(ss) /\ Len(ss) = 4 /\ Len(readers) = 4
    BY DEF IsList
  <1>5. Inverts(f, ListAt(f, RowAt(f, PairNames)), WriteRows(r.exact_filters, PairNames), r.exact_filters)
    BY RowsInvert, NamesDiffer
  <1>6. /\ Inverts(f, WordAt(f), <<r.priority>>, r.priority)
        /\ Inverts(f, WordAt(f), <<r.order>>, r.order)
        /\ Inverts(f, WordAt(f), <<r.kind>>, r.kind)
    BY WordInverts
  <1>7. ASSUME NEW n \in 1 .. 4 PROVE Inverts(f, readers[n], ss[n], vs[n])
    <2>1. n = 1 \/ n = 2 \/ n = 3 \/ n = 4
      BY <1>7
    <2> QED
      BY <1>3, <1>5, <1>6, <2>1
  <1> HIDE DEF ss, readers
  <1>8. AllInvert(f, readers, ss, vs)
    BY ONLY <1>2, <1>4, <1>7 DEF AllInvert
  <1>9. Inverts(f, FieldsAt(f, IrNames, readers), FlattenSeq(ss), r)
    BY <1>1, <1>8, FieldsInvert DEF vs
  <1> QED
    BY ONLY <1>9 DEF IrAt, WriteIr, ss, readers

\* and a list of these,
LEMMA IrsInvert ==
    ASSUME NEW f, IsList(f), NEW v, IsRows(v, IrNames),
           \A n \in DOMAIN v : IsRows(v[n].exact_filters, PairNames)
    PROVE  Inverts(f, ListAt(f, IrAt(f)), Counted([n \in DOMAIN v |-> WriteIr(v[n])]), v)
  <1> DEFINE ss == [n \in DOMAIN v |-> WriteIr(v[n])]
  <1>1. IsList(v) /\ Len(v) \in Nat /\ DOMAIN v = 1 .. Len(v)
    BY ListIs DEF IsRows
  <1>2. IsList(ss) /\ Len(ss) = Len(v)
    <2>1. ss = [n \in 1 .. Len(v) |-> ss[n]]
      BY <1>1
    <2> HIDE DEF ss
    <2> QED
      BY ONLY <1>1, <2>1, FunctionIsList
  <1>3. ASSUME NEW n \in 1 .. Len(v) PROVE Inverts(f, IrAt(f), ss[n], v[n])
    <2>1. ss[n] = WriteIr(v[n]) /\ IsRecord(v[n], IrNames) /\ IsRows(v[n].exact_filters, PairNames)
      BY <1>1 DEF IsRows
    <2>2. Inverts(f, IrAt(f), WriteIr(v[n]), v[n])
      BY <2>1, IrInverts
    <2> HIDE DEF ss
    <2> QED
      BY ONLY <2>1, <2>2, Zenon
  <1> HIDE DEF ss
  <1>4. Inverts(f, ListAt(f, IrAt(f)), Counted(ss), v)
    BY <1>1, <1>2, <1>3, ListInverts
  <1> QED
    BY ONLY <1>4 DEF ss

\* and a list of words.
LEMMA WordsInvert ==
    ASSUME NEW f, IsList(f), NEW v, IsList(v)
    PROVE  Inverts(f, ListAt(f, WordAt(f)), Counted([n \in DOMAIN v |-> <<v[n]>>]), v)
  <1> DEFINE ss == [n \in DOMAIN v |-> <<v[n]>>]
  <1>1. Len(v) \in Nat /\ DOMAIN v = 1 .. Len(v)
    BY ListIs
  <1>2. IsList(ss) /\ Len(ss) = Len(v)
    <2>1. ss = [n \in 1 .. Len(v) |-> ss[n]]
      BY <1>1
    <2> HIDE DEF ss
    <2> QED
      BY ONLY <1>1, <2>1, FunctionIsList
  <1>3. ASSUME NEW n \in 1 .. Len(v) PROVE Inverts(f, WordAt(f), ss[n], v[n])
    <2>1. ss[n] = <<v[n]>>
      BY <1>1
    <2>2. Inverts(f, WordAt(f), <<v[n]>>, v[n])
      BY WordInverts
    <2> HIDE DEF ss
    <2> QED
      BY ONLY <2>1, <2>2, Zenon
  <1> HIDE DEF ss
  <1>4. Inverts(f, ListAt(f, WordAt(f)), Counted(ss), v)
    BY <1>1, <1>2, <1>3, ListInverts
  <1> QED
    BY ONLY <1>4 DEF ss

\* An artifact without its device program.
FirstOf(a) == [x \in ToSet(FirstNames) |-> a[x]]

\* What is written before the device program is read back,
LEMMA FirstInverts ==
    ASSUME NEW f, IsList(f), NEW a, IsArtifact(a)
    PROVE  Inverts(f, FirstAt(f), WriteFirst(a), FirstOf(a))
  <1> DEFINE ss == << <<a.magic>>, <<a.version>>, <<a.source>>, <<a.runtime>>, <<a.compiled_rpl>>,
                      <<a.total_rules>>, Counted([n \in DOMAIN a.indexed_fields |-> <<a.indexed_fields[n]>>]),
                      Counted([n \in DOMAIN a.ir |-> WriteIr(a.ir[n])]),
                      WriteRules(a.executable, PredicateNames) >>
             readers == <<WordAt(f), WordAt(f), WordAt(f), WordAt(f), WordAt(f), WordAt(f),
                          ListAt(f, WordAt(f)), ListAt(f, IrAt(f)),
                          ListAt(f, RuleAt(f, PredicateNames))>>
             vs == Under(FirstOf(a), FirstNames)
  <1>1. AreNames(FirstNames) /\ Len(FirstNames) = 9
    BY NamesDiffer DEF FirstNames
  <1>2. IsList(vs) /\ Len(vs) = 9
    BY <1>1, UnderIsList
  <1>3. \A n \in 1 .. 9 : vs[n] = a[FirstNames[n]]
    <2>1. DOMAIN FirstNames = 1 .. 9
      BY DEF FirstNames
    <2>2. \A n \in 1 .. 9 : FirstNames[n] \in ToSet(FirstNames)
      BY <2>1 DEF ToSet
    <2> QED
      BY <1>1, <2>2 DEF Under, FirstOf
  <1> HIDE DEF vs
  <1>4. /\ vs[1] = a.magic /\ vs[2] = a.version /\ vs[3] = a.source /\ vs[4] = a.runtime
        /\ vs[5] = a.compiled_rpl /\ vs[6] = a.total_rules /\ vs[7] = a.indexed_fields
        /\ vs[8] = a.ir /\ vs[9] = a.executable
    BY <1>3 DEF FirstNames
  <1>5. IsList(ss) /\ Len(ss) = 9 /\ Len(readers) = 9
    BY DEF IsList
  <1>6. /\ Inverts(f, ListAt(f, WordAt(f)),
                   Counted([n \in DOMAIN a.indexed_fields |-> <<a.indexed_fields[n]>>]), a.indexed_fields)
        /\ Inverts(f, ListAt(f, IrAt(f)), Counted([n \in DOMAIN a.ir |-> WriteIr(a.ir[n])]), a.ir)
        /\ Inverts(f, ListAt(f, RuleAt(f, PredicateNames)), WriteRules(a.executable, PredicateNames),
                   a.executable)
    <2>1. /\ IsList(a.indexed_fields)
          /\ IsRows(a.ir, IrNames) /\ \A n \in DOMAIN a.ir : IsRows(a.ir[n].exact_filters, PairNames)
          /\ IsRules(a.executable, PredicateNames)
      BY DEF IsArtifact
    <2> QED
      BY <2>1, WordsInvert, IrsInvert, RulesInvert, NamesDiffer
  <1>7. /\ Inverts(f, WordAt(f), <<a.magic>>, a.magic)
        /\ Inverts(f, WordAt(f), <<a.version>>, a.version)
        /\ Inverts(f, WordAt(f), <<a.source>>, a.source)
        /\ Inverts(f, WordAt(f), <<a.runtime>>, a.runtime)
        /\ Inverts(f, WordAt(f), <<a.compiled_rpl>>, a.compiled_rpl)
        /\ Inverts(f, WordAt(f), <<a.total_rules>>, a.total_rules)
    BY WordInverts
  <1>8. ASSUME NEW n \in 1 .. 9 PROVE Inverts(f, readers[n], ss[n], vs[n])
    <2>1. n = 1 \/ n = 2 \/ n = 3 \/ n = 4 \/ n = 5 \/ n = 6 \/ n = 7 \/ n = 8 \/ n = 9
      BY <1>8
    <2>2. CASE n \in 1 .. 6
      BY <1>4, <1>7, <2>1, <2>2
    <2>3. CASE n \in 7 .. 9
      BY <1>4, <1>6, <2>1, <2>3
    <2> QED
      BY <2>1, <2>2, <2>3
  <1> HIDE DEF ss, readers
  <1>9. AllInvert(f, readers, ss, vs)
    BY ONLY <1>2, <1>5, <1>8 DEF AllInvert
  <1>10. IsRecord(FirstOf(a), FirstNames)
    BY DEF IsRecord, FirstOf
  <1>11. Inverts(f, FieldsAt(f, FirstNames, readers), FlattenSeq(ss), FirstOf(a))
    BY <1>1, <1>9, <1>10, FieldsInvert DEF vs
  <1> QED
    BY ONLY <1>11 DEF FirstAt, WriteFirst, ss, readers

\* and so is the device program, which takes at least a word.
LEMMA DeviceInverts ==
    ASSUME NEW f, IsList(f), NEW abi, IsRecord(abi, DeviceNames), IsRules(abi.rules, DevicePredicateNames)
    PROVE  Inverts(f, DeviceAt(f), WriteDevice(abi), abi) /\ Len(WriteDevice(abi)) > 0
  <1> DEFINE ss == << <<abi.version>>, WriteRules(abi.rules, DevicePredicateNames) >>
             readers == <<WordAt(f), ListAt(f, RuleAt(f, DevicePredicateNames))>>
             vs == Under(abi, DeviceNames)
  <1>1. AreNames(DeviceNames) /\ Len(DeviceNames) = 2
    BY NamesDiffer DEF DeviceNames
  <1>2. IsList(vs) /\ Len(vs) = 2
    BY <1>1, UnderIsList
  <1>3. vs[1] = abi.version /\ vs[2] = abi.rules
    BY DEF Under, DeviceNames
  <1> HIDE DEF vs
  <1>4. IsList(ss) /\ Len(ss) = 2 /\ Len(readers) = 2
    BY DEF IsList
  <1>5. Inverts(f, ListAt(f, RuleAt(f, DevicePredicateNames)),
                WriteRules(abi.rules, DevicePredicateNames), abi.rules)
    BY RulesInvert, NamesDiffer
  <1>6. Inverts(f, WordAt(f), <<abi.version>>, abi.version)
    BY WordInverts
  <1>7. ASSUME NEW n \in 1 .. 2 PROVE Inverts(f, readers[n], ss[n], vs[n])
    <2>1. n = 1 \/ n = 2
      BY <1>7
    <2> QED
      BY <1>3, <1>5, <1>6, <2>1
  <1>8. IsList(ss[1]) /\ IsList(ss[2])
    BY <1>5, WordsAreLists DEF Inverts
  <1>12. Len(ss[1]) = 1
    BY WordsAreLists
  <1> HIDE DEF ss, readers
  <1>9. AllInvert(f, readers, ss, vs)
    BY ONLY <1>2, <1>4, <1>7 DEF AllInvert
  <1>10. Inverts(f, FieldsAt(f, DeviceNames, readers), FlattenSeq(ss), abi)
    BY <1>1, <1>9, FieldsInvert DEF vs
  <1>11. Len(FlattenSeq(ss)) > 0
    <2>1. \A k \in 1 .. 2 : IsList(ss[k])
      <3>1. \A k \in 1 .. 2 : k = 1 \/ k = 2
        OBVIOUS
      <3> QED
        BY ONLY <1>8, <3>1
    <2>2. PICK join : Joined(join, ss) /\ join[2] = FlattenSeq(ss)
      <3>1. \A k \in 1 .. Len(ss) : IsList(ss[k])
        BY ONLY <1>4, <2>1
      <3>2. \E join : Joined(join, ss) /\ join[Len(ss)] = FlattenSeq(ss)
        BY ONLY <1>4, <3>1, JoinedLists
      <3> QED
        BY ONLY <1>4, <3>2, Zenon
    <2>3. /\ IsList(join[0]) /\ IsList(join[1])
          /\ join[1] = join[0] \o ss[1] /\ join[2] = join[1] \o ss[2]
      <3>1. /\ \A k \in 1 .. 2 : join[k] = join[k - 1] \o ss[k]
            /\ \A k \in 0 .. 2 : IsList(join[k])
        BY ONLY <1>4, <2>2 DEF Joined
      <3>2. 1 \in 1 .. 2 /\ 2 \in 1 .. 2 /\ 0 \in 0 .. 2 /\ 1 \in 0 .. 2 /\ 1 - 1 = 0 /\ 2 - 1 = 1
        OBVIOUS
      <3> QED
        BY ONLY <3>1, <3>2, Zenon
    <2>4. Len(join[1]) = Len(join[0]) + Len(ss[1])
      <3>1. Len(join[0] \o ss[1]) = Len(join[0]) + Len(ss[1])
        BY ONLY <1>8, <2>3, Concatenation, Zenon
      <3> QED
        BY ONLY <2>3, <3>1, Zenon
    <2>5. Len(join[2]) = Len(join[1]) + Len(ss[2])
      <3>1. Len(join[1] \o ss[2]) = Len(join[1]) + Len(ss[2])
        BY ONLY <1>8, <2>3, Concatenation, Zenon
      <3> QED
        BY ONLY <2>3, <3>1, Zenon
    <2>6. Len(join[0]) \in Nat /\ Len(ss[2]) \in Nat
      BY ONLY <1>8, <2>3, ListIs
    <2>7. Len(join[2]) > 0
      <3>1. \A i, j \in Nat : (i + 1) + j > 0
        OBVIOUS
      <3>2. (Len(join[0]) + 1) + Len(ss[2]) > 0
        BY ONLY <2>6, <3>1
      <3> QED
        BY ONLY <1>12, <2>4, <2>5, <3>2, Zenon
    <2> QED
      BY ONLY <2>2, <2>7
  <1> QED
    BY ONLY <1>10, <1>11 DEF DeviceAt, WriteDevice, ss, readers
-----------------------------------------------------------------------------
(* A file of an artifact.                                                  *)

\* What parse_raman_artifact_binary makes of its two parts.
Composed(v, abi) == [x \in DOMAIN v \cup {"device_abi"} |-> IF x = "device_abi" THEN abi ELSE v[x]]

\* The two parts make up the artifact, but for its device program.
LEMMA ComposedIs ==
    ASSUME NEW a, IsArtifact(a), NEW abi
    PROVE  /\ Composed(FirstOf(a), abi) = [a EXCEPT !.device_abi = abi]
           /\ [a EXCEPT !.device_abi = a.device_abi] = a
           /\ [a EXCEPT !.device_abi = abi].magic = "magic"
  <1> DEFINE all == ToSet(Append(FirstNames, "device_abi"))
  <1>1. all = ToSet(FirstNames) \cup {"device_abi"}
    BY DEF ToSet, FirstNames
  <1>2. a = [x \in all |-> a[x]]
    BY DEF IsArtifact, IsRecord
  <1>3. "magic" \in all
    BY <1>1 DEF ToSet, FirstNames
  <1>4. a.magic = "magic"
    BY DEF IsArtifact
  <1> HIDE DEF all
  <1>5. DOMAIN FirstOf(a) = ToSet(FirstNames) /\ \A x \in ToSet(FirstNames) : FirstOf(a)[x] = a[x]
    BY DEF FirstOf
  <1>6. [a EXCEPT !.device_abi = abi] = [x \in all |-> IF x = "device_abi" THEN abi ELSE a[x]]
    BY <1>2
  <1>7. Composed(FirstOf(a), abi) = [x \in all |-> IF x = "device_abi" THEN abi ELSE a[x]]
    BY <1>1, <1>5 DEF Composed
  <1>8. [a EXCEPT !.device_abi = a.device_abi] = a
    BY <1>2
  <1>9. [a EXCEPT !.device_abi = abi].magic = "magic"
    BY <1>3, <1>4, <1>6
  <1> QED
    BY <1>6, <1>7, <1>8, <1>9

\* The parser, in terms of its two parts.
LEMMA ParseIs ==
    ASSUME NEW f, NEW first, NEW abi,
           first = FirstAt(f.tokens)[1], abi = DeviceSection(f, first.at)
    PROVE  parse_raman_artifact_binary(f) =
               IF ~first.ok \/ ~abi.ok THEN Refused
               ELSE IF /\ Composed(first.val, abi.val).magic = "magic"
                       /\ validate_raman_artifact(Composed(first.val, abi.val))
                    THEN Got(abi.at, Composed(first.val, abi.val)) ELSE Refused
  BY DEF parse_raman_artifact_binary, Composed

\* A file that has the artifact from its first byte on, or breaks off within it.
Whole(f, a) == IsList(f.tokens) /\ StandsAt(f.tokens, 1, encode_raman_artifact_binary(a))
Cut(f, a) == IsList(f.tokens) /\ BreaksOff(f.tokens, 1, encode_raman_artifact_binary(a))

\* What is written of an artifact is a list.
LEMMA Written ==
    ASSUME NEW a, IsArtifact(a)
    PROVE  /\ IsList(WriteFirst(a)) /\ IsList(WriteDevice(a.device_abi)) /\ Len(WriteDevice(a.device_abi)) > 0
           /\ IsList(encode_raman_artifact_binary(a))
           /\ Len(encode_raman_artifact_binary(a)) = Len(WriteFirst(a)) + Len(WriteDevice(a.device_abi))
  <1>1. IsList(<<0>>)
    BY WordsAreLists
  <1>2. IsRecord(a.device_abi, DeviceNames) /\ IsRules(a.device_abi.rules, DevicePredicateNames)
    BY DEF IsArtifact
  <1>3. IsList(WriteFirst(a)) /\ IsList(WriteDevice(a.device_abi)) /\ Len(WriteDevice(a.device_abi)) > 0
    BY <1>1, <1>2, FirstInverts, DeviceInverts DEF Inverts
  <1> QED
    BY <1>3, Concatenation DEF encode_raman_artifact_binary

\* A file that has all of the artifact loads it, unless it does not validate.
LEMMA WholeLoads ==
    ASSUME NEW a, IsArtifact(a), NEW f, Whole(f, a)
    PROVE  \/ validate_raman_artifact(a) /\ parse_raman_artifact_binary(f).val = a
              /\ parse_raman_artifact_binary(f) # Refused
           \/ ~validate_raman_artifact(a) /\ parse_raman_artifact_binary(f) = Refused
  <1> DEFINE s == WriteFirst(a)
             t == WriteDevice(a.device_abi)
             at == 1 + Len(s)
             first == FirstAt(f.tokens)[1]
             abi == DeviceSection(f, first.at)
  <1>1. IsList(f.tokens) /\ StandsAt(f.tokens, 1, s \o t)
    BY DEF Whole, encode_raman_artifact_binary
  <1>2. IsList(s) /\ IsList(t) /\ Len(t) > 0 /\ Len(t) \in Nat
    BY Written, ListIs
  <1>3. 1 \in Places(f.tokens) /\ Len(f.tokens) \in Nat
    BY <1>1, ListIs DEF Places
  <1>4. StandsAt(f.tokens, 1, s) /\ at \in Places(f.tokens) /\ StandsAt(f.tokens, at, t)
    BY ONLY <1>1, <1>2, <1>3, Parts
  <1>5. Inverts(f.tokens, FirstAt(f.tokens), s, FirstOf(a))
    BY <1>1, FirstInverts
  <1>6. Inverts(f.tokens, DeviceAt(f.tokens), t, a.device_abi)
    BY <1>1, DeviceInverts DEF IsArtifact
  <1> HIDE DEF s, t
  <1>7. first = Got(at, FirstOf(a))
    BY ONLY <1>3, <1>4, <1>5 DEF Inverts
  <1>8. first.ok /\ first.at = at /\ first.val = FirstOf(a)
    BY ONLY <1>7 DEF Got
  <1>9. at <= Len(f.tokens)
    BY <1>2, <1>3, <1>4 DEF Places, StandsAt
  <1>10. abi = Got(at + Len(t), a.device_abi)
    <2>1. DeviceSection(f, at) = DeviceAt(f.tokens)[at]
      BY ONLY <1>9 DEF DeviceSection
    <2>2. DeviceAt(f.tokens)[at] = Got(at + Len(t), a.device_abi)
      BY ONLY <1>4, <1>6 DEF Inverts
    <2> QED
      BY ONLY <1>8, <2>1, <2>2
  <1>11. abi.ok /\ abi.val = a.device_abi
    BY ONLY <1>10 DEF Got
  <1>12. Composed(first.val, abi.val) = a /\ a.magic = "magic"
    <2>1. Composed(FirstOf(a), a.device_abi) = a
      BY ComposedIs
    <2>2. a.magic = "magic"
      BY DEF IsArtifact
    <2> QED
      BY ONLY <1>8, <1>11, <2>1, <2>2
  <1>13. parse_raman_artifact_binary(f) = IF validate_raman_artifact(a) THEN Got(abi.at, a) ELSE Refused
    <2>1. parse_raman_artifact_binary(f) =
              IF ~first.ok \/ ~abi.ok THEN Refused
              ELSE IF /\ Composed(first.val, abi.val).magic = "magic"
                      /\ validate_raman_artifact(Composed(first.val, abi.val))
                   THEN Got(abi.at, Composed(first.val, abi.val)) ELSE Refused
      BY ParseIs
    <2> HIDE DEF first, abi
    <2> QED
      BY ONLY <1>8, <1>11, <1>12, <2>1, Zenon
  <1>14. Got(abi.at, a) # Refused /\ Got(abi.at, a).val = a
    BY ONLY GotsDiffer DEF Got
  <1> QED
    BY ONLY <1>13, <1>14, Zenon

\* A file that ends within the artifact is refused, or ends where the device
\* program would begin and loads without it.
LEMMA CutLoads ==
    ASSUME NEW a, IsArtifact(a), NEW f, Cut(f, a)
    PROVE  \/ parse_raman_artifact_binary(f) = Refused
           \/ /\ parse_raman_artifact_binary(f).val = [a EXCEPT !.device_abi = NoProgram]
              /\ parse_raman_artifact_binary(f) # Refused
              /\ f.torn # TRUE
              /\ f.tokens \o WriteDevice(a.device_abi) = encode_raman_artifact_binary(a)
  <1> DEFINE s == WriteFirst(a)
             t == WriteDevice(a.device_abi)
             at == 1 + Len(s)
             first == FirstAt(f.tokens)[1]
             abi == DeviceSection(f, first.at)
  <1>1. IsList(f.tokens) /\ BreaksOff(f.tokens, 1, s \o t)
    BY DEF Cut, encode_raman_artifact_binary
  <1>2. IsList(s) /\ IsList(t) /\ Len(s) \in Nat
    BY Written, ListIs
  <1>3. 1 \in Places(f.tokens) /\ Len(f.tokens) \in Nat
    BY <1>1, ListIs DEF Places
  <1>4. \/ BreaksOff(f.tokens, 1, s)
        \/ StandsAt(f.tokens, 1, s) /\ at \in Places(f.tokens) /\ BreaksOff(f.tokens, at, t)
    BY ONLY <1>1, <1>2, <1>3, Parts
  <1>5. Inverts(f.tokens, FirstAt(f.tokens), s, FirstOf(a))
    BY <1>1, FirstInverts
  <1>6. Inverts(f.tokens, DeviceAt(f.tokens), t, a.device_abi)
    BY <1>1, DeviceInverts DEF IsArtifact
  <1>7. parse_raman_artifact_binary(f) =
            IF ~first.ok \/ ~abi.ok THEN Refused
            ELSE IF /\ Composed(first.val, abi.val).magic = "magic"
                    /\ validate_raman_artifact(Composed(first.val, abi.val))
                 THEN Got(abi.at, Composed(first.val, abi.val)) ELSE Refused
    BY ParseIs
  <1>8. s \o t = encode_raman_artifact_binary(a)
    BY DEF encode_raman_artifact_binary
  <1> HIDE DEF s, t
  <1>9. ~Refused.ok
    BY DEF Refused, NotRead
  <1>10. CASE BreaksOff(f.tokens, 1, s)
    <2>1. first = Refused
      BY ONLY <1>3, <1>5, <1>10 DEF Inverts
    <2> HIDE DEF first, abi
    <2> QED
      BY ONLY <1>7, <1>9, <2>1, Zenon
  <1>11. CASE StandsAt(f.tokens, 1, s) /\ at \in Places(f.tokens) /\ BreaksOff(f.tokens, at, t)
    <2>1. first = Got(at, FirstOf(a))
      BY ONLY <1>3, <1>5, <1>11 DEF Inverts
    <2>2. first.ok /\ first.at = at /\ first.val = FirstOf(a)
      BY ONLY <2>1 DEF Got
    <2>3. CASE at <= Len(f.tokens) \/ f.torn
      <3>1. DeviceSection(f, at) = DeviceAt(f.tokens)[at]
        BY ONLY <2>3 DEF DeviceSection
      <3>2. DeviceAt(f.tokens)[at] = Refused
        BY ONLY <1>6, <1>11 DEF Inverts
      <3>3. abi = Refused
        BY ONLY <2>2, <3>1, <3>2
      <3> HIDE DEF first, abi
      <3> QED
        BY ONLY <1>7, <1>9, <3>3, Zenon
    <2>4. CASE ~(at <= Len(f.tokens) \/ f.torn)
      <3>1. abi = Got(at, NoProgram)
        BY ONLY <2>2, <2>4 DEF DeviceSection
      <3>2. abi.ok /\ abi.val = NoProgram
        BY ONLY <3>1 DEF Got
      <3>3. Composed(first.val, abi.val) = [a EXCEPT !.device_abi = NoProgram]
        <4>1. Composed(FirstOf(a), NoProgram) = [a EXCEPT !.device_abi = NoProgram]
          BY ComposedIs
        <4> QED
          BY ONLY <2>2, <3>2, <4>1
      <3>4. \A p, v : Got(p, v) # Refused /\ Got(p, v).val = v
        BY ONLY GotsDiffer DEF Got
      <3>5. \/ parse_raman_artifact_binary(f) = Refused
            \/ parse_raman_artifact_binary(f) = Got(abi.at, [a EXCEPT !.device_abi = NoProgram])
        <4> HIDE DEF first, abi
        <4> QED
          BY ONLY <1>7, <3>3, Zenon
      <3>6. f.tokens = s
        <4>1. Len(f.tokens) = Len(s)
          BY ONLY <1>2, <1>3, <1>11, <2>4 DEF Places
        <4>2. \A i \in 1 .. Len(s) : f.tokens[i] = s[i]
          <5>1. \A i \in 1 .. Len(s) : f.tokens[1 + i - 1] = s[i]
            BY ONLY <1>11 DEF StandsAt
          <5>2. \A i \in 1 .. Len(s) : 1 + i - 1 = i
            BY ONLY <1>2
          <5> QED
            BY ONLY <5>1, <5>2
        <4> QED
          BY ONLY <1>1, <1>2, <4>1, <4>2 DEF IsList
      <3>7. f.tokens \o t = encode_raman_artifact_binary(a)
        BY ONLY <1>8, <3>6
      <3> QED
        <4>1. f.torn # TRUE
          BY ONLY <2>4
        <4>2. ASSUME parse_raman_artifact_binary(f) = Got(abi.at, [a EXCEPT !.device_abi = NoProgram])
              PROVE  /\ parse_raman_artifact_binary(f).val = [a EXCEPT !.device_abi = NoProgram]
                     /\ parse_raman_artifact_binary(f) # Refused
          BY ONLY <3>4, <4>2
        <4> QED
          BY ONLY <3>5, <3>7, <4>1, <4>2 DEF t
    <2> QED
      BY ONLY <2>3, <2>4
  <1> QED
    BY ONLY <1>4, <1>10, <1>11

-----------------------------------------------------------------------------
(* What the file was made of.                                              *)
Arrived(a, f) ==
    LET whole == encode_raman_artifact_binary(a) IN
    \/ \E n \in 0 .. Len(whole) : \E torn \in BOOLEAN :
           (torn => n < Len(whole)) /\ f = [tokens |-> SubSeq(whole, 1, n), torn |-> torn]
    \/ \E rest : IsList(rest) /\ f = [tokens |-> whole \o rest, torn |-> TRUE]

\* A file of an artifact has all of it or ends within it.
LEMMA WholeOrCut ==
    ASSUME NEW a, IsArtifact(a), NEW f, Arrived(a, f)
    PROVE  \/ Whole(f, a)
           \/ Cut(f, a) /\ Len(f.tokens) < Len(encode_raman_artifact_binary(a)) /\ f.torn \in BOOLEAN
  <1> DEFINE whole == encode_raman_artifact_binary(a)
  <1>1. IsList(whole)
    BY Written
  <1>2. Len(whole) \in Nat
    BY <1>1, ListIs
  <1> HIDE DEF whole
  <1>3. ASSUME NEW n \in 0 .. Len(whole), NEW torn \in BOOLEAN,
               f = [tokens |-> SubSeq(whole, 1, n), torn |-> torn]
        PROVE  \/ IsList(f.tokens) /\ StandsAt(f.tokens, 1, whole)
               \/ /\ IsList(f.tokens) /\ BreaksOff(f.tokens, 1, whole)
                  /\ Len(f.tokens) < Len(whole) /\ f.torn \in BOOLEAN
    <2> DEFINE part == SubSeq(whole, 1, n)
    <2>1. f.tokens = part /\ f.torn = torn
      BY ONLY <1>3
    <2>2. part = [i \in 1 .. n |-> part[i]] /\ \A i \in 1 .. n : part[i] = whole[i]
      <3> DEFINE W == {whole[i] : i \in 1 .. Len(whole)}
      <3>1. whole \in Seq(W)
        <4>1. \A i \in 1 .. Len(whole) : whole[i] \in W
          OBVIOUS
        <4> HIDE DEF W
        <4> QED
          BY ONLY <1>1, <4>1, ListIs
      <3> HIDE DEF W
      <3> QED
        BY ONLY <1>2, <1>3, <3>1, SubSeqProperties
    <2>3. IsList(part) /\ Len(part) = n
      <3>1. n \in Nat
        BY ONLY <1>2, <1>3
      <3> HIDE DEF part
      <3> QED
        BY ONLY <2>2, <3>1, FunctionIsList
    <2> HIDE DEF part
    <2>4. \A i \in 1 .. n : part[1 + i - 1] = whole[i]
      BY ONLY <1>2, <1>3, <2>2
    <2>5. CASE n = Len(whole)
      <3>1. StandsAt(part, 1, whole)
        BY ONLY <1>2, <2>3, <2>4, <2>5 DEF StandsAt
      <3> QED
        BY ONLY <2>1, <2>3, <3>1
    <2>6. CASE n # Len(whole)
      <3>1. n < Len(whole) /\ n + 1 - 1 = n /\ 1 + Len(whole) > n + 1
        BY ONLY <1>2, <1>3, <2>6
      <3>2. BreaksOff(part, 1, whole)
        BY ONLY <2>3, <2>4, <3>1 DEF BreaksOff
      <3> QED
        BY ONLY <1>3, <2>1, <2>3, <3>1, <3>2
    <2> QED
      BY ONLY <2>5, <2>6
  <1>4. ASSUME NEW rest, IsList(rest), f = [tokens |-> whole \o rest, torn |-> TRUE]
        PROVE  IsList(f.tokens) /\ StandsAt(f.tokens, 1, whole)
    <2> DEFINE all == whole \o rest
    <2>1. f.tokens = all
      BY ONLY <1>4
    <2>2. IsList(all) /\ Len(all) = Len(whole) + Len(rest) /\ \A i \in 1 .. Len(whole) : all[i] = whole[i]
      BY ONLY <1>1, <1>4, Concatenation
    <2>3. Len(rest) \in Nat
      BY ONLY <1>4, ListIs
    <2> HIDE DEF all
    <2>4. 1 + Len(whole) <= Len(all) + 1
      BY ONLY <1>2, <2>2, <2>3
    <2>5. \A i \in 1 .. Len(whole) : all[1 + i - 1] = whole[i]
      BY ONLY <1>2, <2>2
    <2> QED
      BY ONLY <2>1, <2>2, <2>4, <2>5 DEF StandsAt
  <1> QED
    BY <1>3, <1>4 DEF Arrived, Whole, Cut, whole
\* The file is of the artifact, and what was loaded is what was read from it.
ReadFromIt ==
    /\ encoded \in Encodables /\ Arrived(encoded, file)
    /\ loaded = NotRead \/ loaded = parse_raman_artifact_binary(file)

\* The file stays one of the artifact that was encoded.
LEMMA ReadFromItHolds == RASpec => []ReadFromIt
  <1>1. RAInit => ReadFromIt
    <2> SUFFICES ASSUME RAInit PROVE ReadFromIt
      OBVIOUS
    <2>1. encoded \in Encodables
      BY EncodablesAssumption DEF RAInit
    <2> DEFINE whole == encode_raman_artifact_binary(encoded)
    <2>2. IsList(whole) /\ Len(whole) \in Nat
      BY <2>1, EncodablesAssumption, Written, ListIs
    <2>3. SubSeq(whole, 1, 0) = <<>>
      <3> DEFINE W == {whole[i] : i \in 1 .. Len(whole)}
      <3>1. whole \in Seq(W)
        <4>1. \A i \in 1 .. Len(whole) : whole[i] \in W
          OBVIOUS
        <4> HIDE DEF W, whole
        <4> QED
          BY ONLY <2>2, <4>1, ListIs
      <3> HIDE DEF W, whole
      <3> QED
        BY ONLY <2>2, <3>1, SubSeqProperties
    <2>4. file = [tokens |-> SubSeq(whole, 1, 0), torn |-> FALSE]
      BY <2>3 DEF RAInit
    <2> HIDE DEF whole
    <2>5. Arrived(encoded, file)
      <3>1. 0 \in 0 .. Len(whole) /\ FALSE \in BOOLEAN
        BY <2>2
      <3> QED
        BY ONLY <2>4, <3>1 DEF Arrived, whole
    <2> QED
      BY <2>1, <2>5 DEF ReadFromIt, RAInit
  <1>2. ReadFromIt /\ [RANext]_raVars => ReadFromIt'
    <2> SUFFICES ASSUME ReadFromIt, [RANext]_raVars PROVE ReadFromIt'
      OBVIOUS
    <2> USE DEF ReadFromIt
    <2>1. ASSUME NEW a \in Encodables, ArriveBinary(a)
          PROVE  ReadFromIt'
      <3>1. /\ encoded' = a /\ loaded' = NotRead
            /\ Arrived(a, file')
        <4> DEFINE whole == encode_raman_artifact_binary(a)
        <4>1. CASE \E n \in 0 .. Len(whole), torn \in BOOLEAN :
                       (torn => n < Len(whole)) /\ Store(a, [tokens |-> SubSeq(whole, 1, n), torn |-> torn])
          <5>1. PICK n \in 0 .. Len(whole), torn \in BOOLEAN :
                       (torn => n < Len(whole)) /\ Store(a, [tokens |-> SubSeq(whole, 1, n), torn |-> torn])
            BY <4>1
          <5> QED
            BY <5>1 DEF Store, Arrived
        <4>2. CASE \E rest \in Leftovers : Store(a, [tokens |-> whole \o rest, torn |-> TRUE])
          BY <4>2, LeftoversAssumption DEF Store, Arrived
        <4> QED
          BY <2>1, <4>1, <4>2 DEF ArriveBinary
      <3>2. Arrived(a, file)' = Arrived(a, file')
        BY DEF Arrived
      <3> QED
        BY <2>1, <3>1 DEF Arrived
    <2>2. CASE load_raman_artifact_binary
      <3>1. encoded' = encoded /\ file' = file /\ loaded' = parse_raman_artifact_binary(file)
        BY <2>2 DEF load_raman_artifact_binary
      <3>2. loaded' = parse_raman_artifact_binary(file)'
        BY <3>1
      <3> QED
        BY <3>1, <3>2
    <2>3. CASE UNCHANGED raVars
      BY <2>3 DEF raVars
    <2> QED
      BY <2>1, <2>2, <2>3 DEF RANext
  <1> QED
    BY <1>1, <1>2, PTL DEF RASpec

(* What parse_raman_artifact_binary loads is the artifact that was encoded,*)
(* whatever its sections hold and wherever the file was cut off: all of it,*)
(* or all but the device program from a file that ends just before it.     *)
THEOREM ArtifactIsWholeHolds == RASpec => []ArtifactIsWhole
  <1>1. ReadFromIt => ArtifactIsWhole
    <2> SUFFICES ASSUME ReadFromIt PROVE ArtifactIsWhole
      OBVIOUS
    <2> DEFINE whole == encode_raman_artifact_binary(encoded)
               device == WriteDevice(encoded.device_abi)
               cut == [encoded EXCEPT !.device_abi = NoProgram]
    <2>1. IsArtifact(encoded)
      BY EncodablesAssumption DEF ReadFromIt
    <2>2. loaded = NotRead \/ loaded = parse_raman_artifact_binary(file)
      BY DEF ReadFromIt
    <2>3. ~NotRead.ok /\ NotRead # Refused /\ ~Refused.ok
      BY DEF NotRead, Refused
    <2>4. \/ Whole(file, encoded)
          \/ Cut(file, encoded) /\ Len(file.tokens) < Len(whole) /\ file.torn \in BOOLEAN
      BY <2>1, WholeOrCut DEF ReadFromIt
    <2>5. CASE Whole(file, encoded)
      <3>1. \/ validate_raman_artifact(encoded) /\ parse_raman_artifact_binary(file).val = encoded
               /\ parse_raman_artifact_binary(file) # Refused
            \/ ~validate_raman_artifact(encoded) /\ parse_raman_artifact_binary(file) = Refused
        BY <2>1, <2>5, WholeLoads
      <3> QED
        BY ONLY <2>2, <2>3, <3>1 DEF ArtifactIsWhole
    <2>6. CASE Cut(file, encoded) /\ Len(file.tokens) < Len(whole) /\ file.torn \in BOOLEAN
      <3>1. \/ parse_raman_artifact_binary(file) = Refused
            \/ /\ parse_raman_artifact_binary(file).val = cut
               /\ parse_raman_artifact_binary(file) # Refused
               /\ file.torn # TRUE
               /\ file.tokens \o device = whole
        BY <2>1, <2>6, CutLoads
      <3> HIDE DEF whole, device, cut
      <3>2. /\ loaded.ok /\ loaded.val # encoded =>
                   loaded.val = cut /\ ~file.torn /\ file.tokens \o device = whole
            /\ loaded = Refused => Len(file.tokens) < Len(whole)
        BY ONLY <2>2, <2>3, <2>6, <3>1
      <3> QED
        BY ONLY <3>2 DEF ArtifactIsWhole, whole, device, cut
    <2> QED
      BY ONLY <2>4, <2>5, <2>6
  <1> QED
    BY <1>1, ReadFromItHolds, PTL
==============================================================================
