----------------------------- MODULE LedgerProofs -----------------------------
(* The reservations and the balances of Ledger hold for any wallet, any     *)
(* assets and amounts, any number of transfers and any bounds.              *)
(*                                                                          *)
(* Nothing in the database but a coloring or a flag reserves a TXO: the     *)
(* first invariant, Reservations, says that everything under way has left   *)
(* one, and the lemmas on Usable and Pick that the two queries behind every *)
(* choice of a TXO see it.  The second, Books, says that the rows, flags,   *)
(* plans and invoices fit together, and MovesAreWhole that a transfer takes *)
(* from a TXO all that ever came there, once.  With them the balances are   *)
(* sums over the same rows, grouped in different ways.                      *)
EXTENDS Ledger, SumTheorems, TLAPS

(***************************************************************************)
(* Sums of amounts                                                         *)
(***************************************************************************)

Amounts(R) == [r \in R |-> r.amount]
Amounted(R) == IsFiniteSet(R) /\ \A r \in R : r.amount \in Int

\* The sum of records, which MapThenSumSet computes in some order, is the total of
\* their amounts.
LEMMA SumIsTotal ==
    ASSUME NEW R, IsFiniteSet(R)
    PROVE  Sum(R) = Total(Amounts(R), R)
  <1> DEFINE Iter(g) ==
          g = [s \in SUBSET R |->
                IF s = {} THEN 0
                ELSE (CHOOSE x \in s : TRUE).amount
                        + g[s \ {CHOOSE x \in s : TRUE}]]
  <1>1. \A g : Iter(g) <=> Totals(g, Amounts(R), R)
    <2> TAKE g
    <2>1. ASSUME NEW s \in SUBSET R
          PROVE  SumStep(g, Amounts(R), s) =
                    IF s = {} THEN 0
                    ELSE (CHOOSE x \in s : TRUE).amount
                            + g[s \ {CHOOSE x \in s : TRUE}]
      <3>1. s # {} => Least(s) \in R /\ Amounts(R)[Least(s)] = Least(s).amount
        BY LeastIn DEF Amounts
      <3> QED
        BY <3>1 DEF SumStep, Least
    <2> QED
      BY <2>1 DEF Totals
  <1> DEFINE h == CHOOSE g : Iter(g)
  <1>2. Sum(R) = h[R]
    BY DEF Sum, MapThenSumSet, MapThenFoldSet
  <1>3. Iter(h)
    <2> HIDE DEF Iter
    <2> QED
      BY <1>1, TotalsExist
  <1> HIDE DEF h, Iter
  <1>4. Totals(h, Amounts(R), R)
    BY <1>1, <1>3
  <1> QED
    BY <1>2, <1>4, TotalOfPart

\* A sum of amounts is the amount of any of the records and the sum of the
\* others.
LEMMA SumFacts ==
    ASSUME NEW R, Amounted(R)
    PROVE  /\ Sum(R) \in Int
           /\ R = {} => Sum(R) = 0
           /\ \A r \in R : Sum(R) = r.amount + Sum(R \ {r})
  <1> DEFINE w == Amounts(R)
  <1>1. \A r \in R : w[r] = r.amount /\ w[r] \in Int
    BY DEF Amounts, Amounted
  <1>2. ASSUME NEW r \in R PROVE Total(w, R \ {r}) = Sum(R \ {r})
    <2>1. IsFiniteSet(R \ {r})
      BY FS_RemoveElement DEF Amounted
    <2>2. \A x \in R \ {r} : w[x] = Amounts(R \ {r})[x]
      BY DEF Amounts
    <2> HIDE DEF w
    <2> QED
      BY <2>1, <2>2, SumIsTotal, TotalAgrees
  <1>3. Sum(R) = Total(w, R)
    BY SumIsTotal DEF Amounted
  <1> HIDE DEF w
  <1> QED
    BY <1>1, <1>2, <1>3, TotalFacts DEF Amounted

\* No records have the sum 0.
LEMMA SumOfNone == Sum({}) = 0
  BY SumFacts, FS_EmptySet DEF Amounted

\* A part of finitely many records with amounts is such a set again.
LEMMA PartAmounted ==
    ASSUME NEW R, Amounted(R), NEW T, T \subseteq R
    PROVE  Amounted(T)
  BY FS_Subset DEF Amounted

\* An element more.
LEMMA SumOfOneMore ==
    ASSUME NEW R, Amounted(R), NEW r, r \notin R, r.amount \in Int
    PROVE  Amounted(R \cup {r}) /\ Sum(R \cup {r}) = Sum(R) + r.amount
  <1>1. Amounted(R \cup {r})
    BY FS_AddElement DEF Amounted
  <1>2. (R \cup {r}) \ {r} = R
    OBVIOUS
  <1>3. Sum(R \cup {r}) = r.amount + Sum(R)
    BY <1>1, <1>2, SumFacts
  <1> QED
    BY <1>1, <1>3, SumFacts

\* The sum of one record is its amount.
LEMMA SumOfOne ==
    ASSUME NEW r, r.amount \in Int
    PROVE  Sum({r}) = r.amount
  <1>1. Amounted({}) /\ {} \cup {r} = {r}
    BY FS_EmptySet DEF Amounted
  <1> QED
    BY <1>1, SumOfOneMore, SumOfNone

\* Disjoint sets of records.
LEMMA SumOfUnion ==
    ASSUME NEW R, Amounted(R), NEW T, Amounted(T), R \cap T = {}
    PROVE  Amounted(R \cup T) /\ Sum(R \cup T) = Sum(R) + Sum(T)
  <1> DEFINE F == {A \in SUBSET T : Sum(R \cup A) = Sum(R) + Sum(A)}
  <1>1. Amounted(R \cup T)
    BY FS_Union DEF Amounted
  <1>2. {} \in F
    <2>1. R \cup {} = R
      OBVIOUS
    <2> QED
      BY <2>1, SumOfNone, SumFacts
  <1>3. ASSUME NEW A \in F, NEW x \in T \ A PROVE A \cup {x} \in F
    <2>1. Amounted(A) /\ Amounted(R \cup A) /\ x.amount \in Int
      BY <1>1, PartAmounted DEF Amounted
    <2>2. x \notin R \cup A /\ R \cup (A \cup {x}) = (R \cup A) \cup {x}
      BY <1>3
    <2>3. Sum((R \cup A) \cup {x}) = Sum(R \cup A) + x.amount
      BY <2>1, <2>2, SumOfOneMore
    <2>4. Sum(A \cup {x}) = Sum(A) + x.amount
      BY <2>1, SumOfOneMore
    <2>5. Sum(R) \in Int /\ Sum(A) \in Int
      BY <2>1, SumFacts
    <2>6. Sum(R \cup A) = Sum(R) + Sum(A)
      OBVIOUS
    <2> DEFINE B == R \cup (A \cup {x})
    <2>7. Sum(B) = Sum(R \cup A) + x.amount
      BY <2>2, <2>3
    <2> HIDE DEF B
    <2>9. Sum(B) = Sum(R) + Sum(A \cup {x})
      BY <2>1, <2>4, <2>5, <2>6, <2>7
    <2>8. A \cup {x} \in SUBSET T
      OBVIOUS
    <2> QED
      BY <2>8, <2>9 DEF B
  <1>4. T \in F
    <2>1. F \in SUBSET SUBSET T /\ IsFiniteSet(T)
      BY DEF Amounted
    <2> HIDE DEF F
    <2> QED
      BY <1>2, <1>3, <2>1, SetInduction
  <1> QED
    BY <1>1, <1>4

\* A part and the rest.
LEMMA SumOfParts ==
    ASSUME NEW R, Amounted(R), NEW T, T \subseteq R
    PROVE  Sum(R) = Sum(T) + Sum(R \ T)
  <1>1. Amounted(T) /\ Amounted(R \ T)
    BY PartAmounted
  <1>2. T \cap (R \ T) = {} /\ T \cup (R \ T) = R
    OBVIOUS
  <1>3. Sum(T \cup (R \ T)) = Sum(T) + Sum(R \ T)
    BY <1>1, <1>2, SumOfUnion
  <1> QED
    BY <1>2, <1>3

\* Amounts that are not negative.
LEMMA SumIsNat ==
    ASSUME NEW R, IsFiniteSet(R), \A r \in R : r.amount \in Nat
    PROVE  Sum(R) \in Nat
  <1> DEFINE F == {A \in SUBSET R : Sum(A) \in Nat}
  <1>1. Amounted(R)
    BY DEF Amounted
  <1>2. ASSUME NEW A \in F, NEW x \in R \ A PROVE A \cup {x} \in F
    <2>1. Sum(A \cup {x}) = Sum(A) + x.amount
      BY <1>1, PartAmounted, SumOfOneMore DEF Amounted
    <2>2. Sum(A) \in Nat /\ x.amount \in Nat
      OBVIOUS
    <2>3. Sum(A \cup {x}) \in Nat
      BY <2>1, <2>2
    <2> QED
      BY <2>3
  <1>3. {} \in F /\ F \in SUBSET SUBSET R
    BY SumOfNone
  <1>4. R \in F
    <2> HIDE DEF F
    <2> QED
      BY <1>2, <1>3, SetInduction
  <1> QED
    BY <1>4

\* A part has no larger sum than the whole.
LEMMA SumOfPart ==
    ASSUME NEW R, IsFiniteSet(R), \A r \in R : r.amount \in Nat,
           NEW T, T \subseteq R
    PROVE  Sum(T) <= Sum(R)
  <1>1. Amounted(R) /\ Amounted(T)
    BY PartAmounted DEF Amounted
  <1>2. Sum(R) = Sum(T) + Sum(R \ T)
    BY <1>1, SumOfParts
  <1>3. Sum(R \ T) \in Nat
    BY FS_Difference, SumIsNat
  <1> QED
    BY <1>1, <1>2, <1>3, SumFacts

\* The records of I stand for disjoint sets of records: each has the amount
\* of its set.
LEMMA SumOfGroups ==
    ASSUME NEW I, IsFiniteSet(I), NEW G,
           \A i \in I : Amounted(G[i]) /\ i.amount = Sum(G[i]),
           \A i, j \in I : i # j => G[i] \cap G[j] = {}
    PROVE  /\ Amounted(I)
           /\ Amounted(UNION {G[i] : i \in I})
           /\ Sum(I) = Sum(UNION {G[i] : i \in I})
  <1> DEFINE U(A) == UNION {G[i] : i \in A}
             F == {A \in SUBSET I : /\ Amounted(A) /\ Amounted(U(A))
                                    /\ Sum(A) = Sum(U(A))}
  <1>1. {} \in F
    <2>1. U({}) = {} /\ Amounted({})
      BY FS_EmptySet DEF Amounted
    <2> QED
      BY <2>1
  <1>2. ASSUME NEW A \in F, NEW x \in I \ A PROVE A \cup {x} \in F
    <2>1. U(A \cup {x}) = U(A) \cup G[x]
      OBVIOUS
    <2>2. U(A) \cap G[x] = {}
      OBVIOUS
    <2>3. Amounted(A) /\ Amounted(U(A)) /\ Sum(A) = Sum(U(A))
      OBVIOUS
    <2>4. Amounted(G[x]) /\ x.amount = Sum(G[x]) /\ x.amount \in Int
      BY SumFacts
    <2> HIDE DEF U
    <2>5. /\ Amounted(U(A) \cup G[x])
          /\ Sum(U(A) \cup G[x]) = Sum(U(A)) + Sum(G[x])
      BY <2>2, <2>3, <2>4, SumOfUnion
    <2>6. Amounted(A \cup {x}) /\ Sum(A \cup {x}) = Sum(A) + x.amount
      BY <2>3, <2>4, SumOfOneMore
    <2> QED
      BY <2>1, <2>3, <2>4, <2>5, <2>6
  <1>3. I \in F
    <2>1. F \in SUBSET SUBSET I
      OBVIOUS
    <2> HIDE DEF F
    <2> QED
      BY <1>1, <1>2, <2>1, SetInduction
  <1> QED
    BY <1>3

\* Other records with the same amounts.
LEMMA SumOfImage ==
    ASSUME NEW I, IsFiniteSet(I), NEW f,
           \A i \in I : i.amount = f[i].amount /\ f[i].amount \in Int,
           \A i, j \in I : f[i] = f[j] => i = j,
           NEW J, J = {f[i] : i \in I}
    PROVE  Amounted(I) /\ Amounted(J) /\ Sum(I) = Sum(J)
  <1> DEFINE G == [i \in I |-> {f[i]}]
  <1>1. \A i \in I : Amounted(G[i]) /\ i.amount = Sum(G[i])
    BY SumOfOne, FS_Singleton DEF Amounted
  <1>2. \A i, j \in I : i # j => G[i] \cap G[j] = {}
    OBVIOUS
  <1> DEFINE U == UNION {G[i] : i \in I}
  <1>3. U = J
    OBVIOUS
  <1> HIDE DEF G
  <1>4. Amounted(I) /\ Amounted(U) /\ Sum(I) = Sum(U)
    BY <1>1, <1>2, SumOfGroups
  <1> HIDE DEF U
  <1> QED
    BY <1>3, <1>4

USE IdentityAssumption

(***************************************************************************)
(* What is chosen                                                          *)
(***************************************************************************)

\* A TXO that get_utxo returns is on chain, neither spent nor pending, not
\* reserved by a transfer under way, and none of those it was told to leave
\* out.
LEMMA PickedIsFree ==
    ASSUME NEW excluded, NEW u \in Pick(excluded)
    PROVE  /\ u \in (known \cap exists) \ (spent \cup excluded)
           /\ u \notin pending
           /\ ~Reserved(u)
  <1>1. \A S : LeastLoaded(S) \subseteq S
    BY DEF LeastLoaded
  <1>2. u \in Available(excluded, MaxAllocs - 1)
    BY <1>1 DEF Pick
  <1> QED
    BY <1>2 DEF Available, Unspent

\* What a transfer moves is on its inputs.
LEMMA InputsOfDraft ==
    ASSUME NEW order, NEW inputs, NEW fees, NEW own, NEW donation
    PROVE  RgbInputs(Draft(order, inputs, fees, own, donation)) \subseteq inputs
  BY DEF RgbInputs, Draft, MovedFrom

\* What a plan spends and whether something comes back do not depend on the
\* seat of the change.
LEMMA SeatApart ==
    ASSUME NEW p, NEW q,
           p.moved = q.moved, p.order = q.order, p.fees = q.fees
    PROVE  /\ RgbInputs(p) = RgbInputs(q)
           /\ Spends(p) = Spends(q)
           /\ SomethingBack(p) <=> SomethingBack(q)
  <1>1. RgbInputs(p) = RgbInputs(q)
    BY DEF RgbInputs
  <1>2. Spends(p) = Spends(q)
    BY <1>1 DEF Spends
  <1>3. \A a \in Assets : MovedOf(p, a) = MovedOf(q, a)
    BY DEF MovedOf
  <1>4. \A a \in Assets : Back(p, a) = Back(q, a)
    BY <1>3 DEF Back
  <1> QED
    BY <1>1, <1>2, <1>4 DEF SomethingBack

(***************************************************************************)
(* What is under way can be seen                                           *)
(***************************************************************************)

\* An allocation that a transfer under way moves is reserved by its coloring
\* until the broadcast, which marks the TXO spent.
LEMMA MovedIsSeen ==
    ASSUME Reservations, NEW t \in Firm, NEW u \in RgbInputs(plan[t])
    PROVE  u \in known \cap exists /\ (Reserved(u) \/ u \in spent)
  <1>1. t \in Outgoing /\ status[t] \in Active
    BY DEF Firm
  <1>2. u \in known \cap exists
    BY <1>1 DEF Reservations, InputsAreReal
  <1>3. CASE status[t] = "WaitingConfirmations"
    BY <1>1, <1>2, <1>3 DEF Reservations, InputsAreReal
  <1>4. CASE status[t] \in {"Initiated", "WaitingCounterparty"}
    <2>1. PICK c \in coloring : c.of = t /\ c.txo = u /\ ~Comes(c)
      BY <1>1, <1>4 DEF Reservations, Colored
    <2> QED
      BY <1>2, <1>4, <2>1 DEF Reserved, Rows, StatusOf
  <1> QED
    BY <1>1, <1>3, <1>4 DEF Active

\* A TXO on which something is still to come is known to be waited for, by a
\* coloring or by an open invoice.
LEMMA SeatIsSeen ==
    ASSUME Reservations, NEW u \in OpenSeats, u # Nowhere
    PROVE  Awaits(u) \/ PendingBlinded(u) # {}
  <1>1. CASE \E t \in Firm : u = plan[t].seat
    <2>1. PICK t \in Firm : u = plan[t].seat
      BY <1>1
    <2>2. t \in Outgoing /\ status[t] \in Active
      BY DEF Firm
    <2>3. status[t] # "None" /\ status[t] \in Pending
      BY <2>2 DEF Active, Pending
    <2>4. PICK c \in coloring : c.of = t /\ c.txo = u /\ Comes(c)
      BY <2>1, <2>2, <2>3 DEF Reservations, Colored
    <2> QED
      BY <2>3, <2>4 DEF Awaits, Rows, StatusOf
  <1>2. CASE \E b \in Blind : status[b] \in Pending /\ u = promised[b]
    <2>1. PICK b \in Blind : status[b] \in Pending /\ u = promised[b]
      BY <1>2
    <2>2. CASE status[b] = "WaitingCounterparty"
      BY <2>1, <2>2 DEF PendingBlinded
    <2>3. CASE status[b] # "WaitingCounterparty"
      <3>1. PICK c \in coloring : c.of = b /\ c.txo = u /\ Comes(c)
        BY <2>1, <2>3 DEF Reservations, ColoredInvoice
      <3> QED
        BY <2>1, <3>1 DEF Awaits, Rows, StatusOf
    <2> QED
      BY <2>2, <2>3
  <1> QED
    BY <1>1, <1>2 DEF OpenSeats

(***************************************************************************)
(* The two reservations                                                    *)
(***************************************************************************)

\* A step after which nothing new is under way keeps them.
LEMMA NothingNew ==
    ASSUME ReservationIsExclusive, SeatIsKept,
           plan' = plan, promised' = promised,
           Firm' \subseteq Firm,
           \A b \in Blind : status'[b] \in Pending => status[b] \in Pending
    PROVE  ReservationIsExclusive' /\ SeatIsKept'
  <1>1. OpenSeats' \subseteq OpenSeats
    BY DEF OpenSeats
  <1>2. \A t \in Firm' : RgbInputs(plan[t])' = RgbInputs(plan[t])
    BY DEF RgbInputs
  <1>3. ReservationIsExclusive'
    BY <1>2 DEF ReservationIsExclusive
  <1>4. SeatIsKept'
    BY <1>1, <1>2 DEF SeatIsKept
  <1> QED
    BY <1>3, <1>4

\* A new invoice keeps them: its TXO is moved by nobody.
LEMMA NewPromise ==
    ASSUME Reservations, NEW b \in Blind, NEW u \in Pick({}),
           plan' = plan, Firm' = Firm,
           promised' = [promised EXCEPT ![b] = u],
           \A c \in Blind \ {b} : status'[c] = status[c]
    PROVE  ReservationIsExclusive' /\ SeatIsKept'
  <1>1. \A t \in Firm' : RgbInputs(plan[t])' = RgbInputs(plan[t])
    BY DEF RgbInputs
  <1>2. OpenSeats' \subseteq OpenSeats \cup {u}
    BY DEF OpenSeats, Reservations, Domains
  <1>3. \A t \in Firm : u \notin RgbInputs(plan[t])
    BY MovedIsSeen, PickedIsFree
  <1>4. ReservationIsExclusive'
    BY <1>1 DEF ReservationIsExclusive, Reservations
  <1>5. SeatIsKept'
    BY <1>1, <1>2, <1>3 DEF SeatIsKept, Reservations
  <1> QED
    BY <1>4, <1>5

\* A transfer that begins keeps them: what it moves is reserved by and
\* promised to nobody, and the seat of its change is moved by nobody.
LEMMA NewTransfer ==
    ASSUME Reservations, NEW t \in Outgoing, ~Begun(t),
           NEW p, RgbInputs(p) \subseteq Usable,
           \/ p.seat \in {Nowhere, t}
           \/ p.seat \in Pick(Spends(p)),
           plan' = [plan EXCEPT ![t] = p], promised' = promised,
           strays' = strays,
           \A x \in Transfers \ {t} : status'[x] = status[x]
    PROVE  ReservationIsExclusive' /\ SeatIsKept'
  <1>1. /\ Firm' \subseteq Firm \cup {t}
        /\ \A t2 \in Firm' \ {t} : t2 \in Firm /\ plan'[t2] = plan[t2]
        /\ plan'[t] = p
    BY DEF Firm, Transfers, Reservations, Domains
  <1>2. \A t2 \in Firm : RgbInputs(plan[t2]) \cap RgbInputs(p) = {}
    BY MovedIsSeen DEF Usable, Unspent
  <1>3. \A u \in RgbInputs(p) : u \in known /\ u \in Txos
    BY DEF Usable, Unspent, Reservations, Domains
  <1>4. RgbInputs(p) \cap OpenSeats = {}
    <2> SUFFICES ASSUME NEW u \in RgbInputs(p), u \in OpenSeats PROVE FALSE
      OBVIOUS
    <2>1. u # Nowhere
      BY <1>3
    <2> QED
      BY <2>1, SeatIsSeen DEF Usable
  <1>5. t \notin known
    BY DEF Reservations, WasBegun
  <1>6. p.seat \notin RgbInputs(p)
    <2>1. CASE p.seat \in {Nowhere, t}
      BY <1>3, <1>5, <2>1
    <2>2. CASE p.seat \in Pick(Spends(p))
      BY <2>2, PickedIsFree DEF Spends
    <2> QED
      BY <2>1, <2>2
  <1>7. \A t2 \in Firm : p.seat \notin RgbInputs(plan[t2])
    <2> SUFFICES ASSUME NEW t2 \in Firm, p.seat \in RgbInputs(plan[t2])
                 PROVE  FALSE
      OBVIOUS
    <2>1. p.seat \in known /\ p.seat \in Txos /\ (Reserved(p.seat) \/ p.seat \in spent)
      BY MovedIsSeen DEF Reservations, Domains
    <2> QED
      BY <1>5, <2>1, PickedIsFree
  <1>8. OpenSeats' \subseteq OpenSeats \cup {p.seat}
    <2>1. \A b \in Blind : status'[b] = status[b]
      BY DEF Incoming, Transfers
    <2> QED
      BY <1>1, <2>1 DEF OpenSeats
  <1>9. \A t2 \in Firm' : RgbInputs(plan[t2])' = RgbInputs(plan'[t2])
    BY DEF RgbInputs
  <1>10. ReservationIsExclusive'
    BY <1>1, <1>2, <1>9 DEF ReservationIsExclusive, Reservations
  <1>11. SeatIsKept'
    <2>1. RgbInputs(p) \cap OpenSeats' = {}
      BY <1>4, <1>6, <1>8
    <2>2. \A t2 \in Firm : RgbInputs(plan[t2]) \cap OpenSeats' = {}
      BY <1>7, <1>8 DEF Reservations, SeatIsKept
    <2> QED
      BY <1>1, <1>9, <2>1, <2>2 DEF SeatIsKept
  <1> QED
    BY <1>10, <1>11

(***************************************************************************)
(* The steps                                                               *)
(***************************************************************************)

\* save_transfers leaves a coloring on every TXO the transfer moves and one on
\* the seat of its change.
LEMMA SavedRows ==
    ASSUME NEW t \in Outgoing, NEW p, NEW st, Save(t, p, st)
    PROVE  /\ \A u \in RgbInputs(p) :
                 \E c \in coloring' : c.of = t /\ c.txo = u /\ ~Comes(c)
           /\ SomethingBack(p) =>
                 \E c \in coloring' : c.of = t /\ c.txo = p.seat /\ Comes(c)
           /\ coloring \subseteq coloring'
  <1>1. ASSUME NEW u \in RgbInputs(p)
        PROVE  \E c \in coloring' : c.of = t /\ c.txo = u /\ ~Comes(c)
    <2>1. PICK m \in p.moved : u = m.txo
      BY <1>1 DEF RgbInputs
    <2> DEFINE c == [txo |-> m.txo, of |-> t, type |-> "Input",
                     asset |-> m.asset, amount |-> m.amount]
    <2>2. c \in InputRows(t, p)
      BY DEF InputRows
    <2>3. c \in coloring' /\ c.of = t /\ c.txo = u /\ ~Comes(c)
      BY <2>1, <2>2 DEF Save, Comes
    <2> QED
      BY <2>3
  <1>2. ASSUME SomethingBack(p)
        PROVE  \E c \in coloring' : c.of = t /\ c.txo = p.seat /\ Comes(c)
    <2>1. PICK a \in Assets : Back(p, a) > 0
      BY <1>2 DEF SomethingBack
    <2> DEFINE c == [txo |-> p.seat, of |-> t, type |-> "Change",
                     asset |-> a, amount |-> Back(p, a)]
    <2>2. c \in ChangeRows(t, p)
      BY <2>1 DEF ChangeRows
    <2>3. c \in coloring' /\ c.of = t /\ c.txo = p.seat /\ Comes(c)
      BY <2>2 DEF Save, Comes
    <2> QED
      BY <2>3
  <1> QED
    BY <1>1, <1>2 DEF Save

\* A step keeps the invariant if it adds rows and flags only, and if what goes
\* on to a status in which something is expected of it has it.
LEMMA GoingOn ==
    ASSUME Reservations,
           plan' = plan, promised' = promised,
           coloring \subseteq coloring', known \subseteq known',
           exists \subseteq exists', spent \subseteq spent',
           status' \in [Transfers -> Status],
           known' \subseteq Txos,
           \A t \in Outgoing \cap known' : t \in known \/ Begun(t),
           Firm' \subseteq Firm,
           \A t \in Outgoing :
              /\ status'[t] # "None" =>
                    \/ status[t] # "None"
                    \/ /\ Begun(t)
                       /\ \A u \in RgbInputs(plan[t]) :
                             \E c \in coloring' :
                                c.of = t /\ c.txo = u /\ ~Comes(c)
                       /\ SomethingBack(plan[t]) =>
                             \E c \in coloring' :
                                c.of = t /\ c.txo = plan[t].seat /\ Comes(c)
              /\ status'[t] = "WaitingConfirmations" =>
                    status[t] = "WaitingConfirmations" \/ RgbInputs(plan[t]) \subseteq spent',
           \A b \in Blind :
              /\ status'[b] # "None" => status[b] # "None"
              /\ status'[b] \in Pending => status[b] \in Pending
              /\ status'[b] \in Pending \ {"WaitingCounterparty"} =>
                    \/ status[b] \in Pending \ {"WaitingCounterparty"}
                    \/ \E c \in coloring' :
                          c.of = b /\ c.txo = promised[b] /\ Comes(c)
    PROVE  Reservations'
  <1>1. Domains'
    BY DEF Reservations, Domains
  <1>2. WasBegun'
    BY DEF Reservations, WasBegun, Begun
  <1>3. Colored'
    <2> SUFFICES ASSUME NEW t \in Outgoing, status'[t] # "None"
                 PROVE  /\ \A u \in RgbInputs(plan[t]) :
                              \E c \in coloring' :
                                 c.of = t /\ c.txo = u /\ ~Comes(c)
                        /\ plan[t].seat # Nowhere =>
                              \E c \in coloring' :
                                 c.of = t /\ c.txo = plan[t].seat /\ Comes(c)
      BY DEF Colored, RgbInputs, Comes
    <2>1. CASE status[t] # "None"
      BY <2>1 DEF Reservations, Colored
    <2>2. CASE status[t] = "None"
      BY <2>2 DEF Reservations, InputsAreReal
    <2> QED
      BY <2>1, <2>2
  <1>4. ColoredInvoice'
    BY DEF Reservations, ColoredInvoice, Comes
  <1>5. PromisedIsReal'
    BY DEF Reservations, PromisedIsReal
  <1>6. InputsAreReal'
    BY DEF Reservations, InputsAreReal, RgbInputs, SomethingBack, Back, MovedOf
  <1>7. ReservationIsExclusive' /\ SeatIsKept'
    BY NothingNew DEF Reservations
  <1> QED
    BY <1>1, <1>2, <1>3, <1>4, <1>5, <1>6, <1>7 DEF Reservations

\* The begin of a transfer, with or without its end.
LEMMA BeginStep ==
    ASSUME Reservations, AmountAssumption, NEW t \in Outgoing, SendBegin(t)
    PROVE  Reservations'
  <1>1. PICK order \in Orders, inputs \in SUBSET Usable :
           \E fees \in TopUps(inputs), own, donation \in BOOLEAN :
              LET draft == Draft(order, inputs, fees, own, donation)
              IN  \E seat \in Seats(t, draft) :
                     Begin(t, [draft EXCEPT !.seat = seat])
    BY DEF SendBegin
  <1>2. PICK fees \in TopUps(inputs), own \in BOOLEAN, donation \in BOOLEAN :
           LET draft == Draft(order, inputs, fees, own, donation)
           IN  \E seat \in Seats(t, draft) :
                  Begin(t, [draft EXCEPT !.seat = seat])
    BY <1>1
  <1> DEFINE draft == Draft(order, inputs, fees, own, donation)
  <1>3. PICK seat \in Seats(t, draft) : Begin(t, [draft EXCEPT !.seat = seat])
    BY <1>2
  <1> DEFINE p == [draft EXCEPT !.seat = seat]
  <1>4. /\ RgbInputs(draft) \subseteq inputs
        /\ p.seat = seat /\ p.order = order
        /\ p.moved = draft.moved /\ p.order = draft.order /\ p.fees = draft.fees
        /\ Begin(t, p)
    BY <1>3, InputsOfDraft DEF Draft
  <1> HIDE DEF draft, p
  <1>5. /\ RgbInputs(p) = RgbInputs(draft) /\ Spends(p) = Spends(draft)
        /\ SomethingBack(p) <=> SomethingBack(draft)
    BY <1>4, SeatApart
  <1>6. RgbInputs(p) \subseteq Usable
    BY <1>4, <1>5
  <1>7. /\ p.seat \in {Nowhere, t} \/ p.seat \in Pick(Spends(p))
        /\ p.seat # Nowhere => SomethingBack(p)
    BY <1>4, <1>5 DEF Seats
  <1>8. p # NoPlan
    BY <1>4 DEF NoPlan, AmountAssumption
  <1>9. ~Begun(t) /\ promised' = promised /\ strays' = strays
    BY DEF SendBegin, invoiceVars
  <1>10. status[t] = "None" /\ t \notin known
    BY <1>9 DEF Reservations, WasBegun
  <1>11. plan'[t] = p /\ \A t2 \in Outgoing \ {t} : plan'[t2] = plan[t2]
    BY <1>4 DEF Begin, Reservations, Domains
  <1>12. /\ coloring \subseteq coloring' /\ exists \subseteq exists'
         /\ spent \subseteq spent' /\ known \subseteq known'
         /\ known' \subseteq known \cup {t}
         /\ \E st \in Status : status' = [status EXCEPT ![t] = st]
    <2>1. CASE UNCHANGED <<status, coloring, txoVars, net>>
      BY <1>10, <2>1 DEF txoVars, Reservations, Domains, Transfers, Status
    <2>2. CASE /\ Save(t, p, "Initiated")
               /\ known' = known \cup SeatRow(t, p)
               /\ UNCHANGED <<exists, spent, pending, net>>
      BY <2>2 DEF Save, SeatRow, Status, Pending
    <2>3. CASE EndOf(t, p)
      BY <1>10, <2>3 DEF EndOf, UpdateOrSave, Save, BroadcastPsbt, SeatRow,
         OwnOutput, Status, Pending
    <2> QED
      BY <1>4, <2>1, <2>2, <2>3 DEF Begin
  <1>13. status' \in [Transfers -> Status]
         /\ \A x \in Transfers \ {t} : status'[x] = status[x]
    BY <1>12 DEF Reservations, Domains
  <1>14. ReservationIsExclusive' /\ SeatIsKept'
    BY <1>4, <1>6, <1>7, <1>9, <1>13, NewTransfer DEF Begin
  <1>15. Domains'
    BY <1>4, <1>9, <1>12, <1>13 DEF Begin, Reservations, Domains, Txos
  <1>16. WasBegun'
    BY <1>8, <1>11, <1>12, <1>13 DEF Reservations, WasBegun, Begun, Transfers
  <1>17. status'[t] # "None" =>
            /\ \A u \in RgbInputs(p) :
                  \E c \in coloring' : c.of = t /\ c.txo = u /\ ~Comes(c)
            /\ SomethingBack(p) =>
                  \E c \in coloring' : c.of = t /\ c.txo = p.seat /\ Comes(c)
    <2>1. CASE UNCHANGED <<status, coloring, txoVars, net>>
      BY <1>10, <2>1
    <2>2. CASE Save(t, p, "Initiated")
      BY <2>2, SavedRows
    <2>3. CASE EndOf(t, p)
      <3>1. PICK st : Save(t, p, st)
        BY <1>10, <2>3 DEF EndOf, UpdateOrSave
      <3> QED
        BY <3>1, SavedRows
    <2> QED
      BY <1>4, <2>1, <2>2, <2>3 DEF Begin
  <1>18. Colored'
    <2> SUFFICES ASSUME NEW t2 \in Outgoing, status'[t2] # "None"
                 PROVE  /\ \A u \in RgbInputs(plan'[t2]) :
                              \E c \in coloring' :
                                 c.of = t2 /\ c.txo = u /\ ~Comes(c)
                        /\ plan'[t2].seat # Nowhere =>
                              \E c \in coloring' :
                                 c.of = t2 /\ c.txo = plan'[t2].seat /\ Comes(c)
      BY DEF Colored, RgbInputs, Comes
    <2>1. CASE t2 = t
      BY <1>7, <1>11, <1>17, <2>1
    <2>2. CASE t2 # t
      <3>1. status[t2] # "None" /\ plan'[t2] = plan[t2]
        BY <1>11, <1>13, <2>2 DEF Transfers
      <3> QED
        BY <1>12, <3>1 DEF Reservations, Colored
    <2> QED
      BY <2>1, <2>2
  <1>19. ColoredInvoice' /\ PromisedIsReal'
    BY <1>9, <1>12, <1>13 DEF Reservations, ColoredInvoice, PromisedIsReal,
       Comes, Incoming, Transfers
  <1>20. status'[t] = "WaitingConfirmations" => RgbInputs(p) \subseteq spent'
    BY <1>4, <1>10, <1>13 DEF Begin, EndOf, BroadcastPsbt, UpdateOrSave, Save, Spends,
       Reservations, Domains, Transfers
  <1>21. InputsAreReal'
    BY <1>6, <1>7, <1>11, <1>12, <1>13, <1>20
       DEF Reservations, InputsAreReal, RgbInputs, SomethingBack, Back, MovedOf,
       Usable, Unspent, Transfers
  <1> QED
    BY <1>14, <1>15, <1>16, <1>18, <1>19, <1>21 DEF Reservations

\* Every step of an outgoing transfer.
LEMMA SendStepKeeps ==
    ASSUME Reservations, AmountAssumption, NEW t \in Outgoing, SendStep(t)
    PROVE  Reservations'
  <1> USE DEF txoVars, invoiceVars
  <1>1. /\ status \in [Transfers -> Status] /\ known \subseteq Txos
        /\ t \in Transfers /\ t \in Txos
        /\ \A b \in Blind : b \in Transfers /\ b # t
        /\ \A t2 \in Outgoing : t2 \in Transfers
    BY DEF Reservations, Domains, Transfers, Incoming, Txos
  <1>2. status[t] # "None" => Begun(t)
    BY DEF Reservations, WasBegun
  <1>3. CASE SendBegin(t)
    BY <1>3, BeginStep
  <1>4. CASE SendEnd(t)
    <2>1. EndOf(t, plan[t]) /\ Begun(t) /\ plan' = plan /\ promised' = promised
      BY <1>4 DEF SendEnd
    <2>2. /\ coloring \subseteq coloring' /\ known \subseteq known'
          /\ exists \subseteq exists' /\ spent \subseteq spent'
          /\ known' \subseteq known \cup {t}
      BY <2>1 DEF EndOf, UpdateOrSave, Save, BroadcastPsbt, SeatRow, OwnOutput
    <2>3. \E st \in {"WaitingCounterparty", "WaitingConfirmations"} :
             /\ status' = [status EXCEPT ![t] = st]
             /\ st = "WaitingConfirmations" => RgbInputs(plan[t]) \subseteq spent'
      BY <2>1 DEF EndOf, UpdateOrSave, Save, BroadcastPsbt, Spends
    <2>4. /\ status' \in [Transfers -> Status]
          /\ \A x \in Transfers \ {t} : status'[x] = status[x]
          /\ status'[t] = "WaitingConfirmations" => RgbInputs(plan[t]) \subseteq spent'
      BY <1>1, <2>3 DEF Status, Pending
    <2>5. Firm' \subseteq Firm
      <3>1. strays \subseteq strays'
            /\ (t \in strays' \/ status[t] \in {"Initiated", "WaitingCounterparty"})
        BY <1>4 DEF SendEnd
      <3> QED
        BY <1>1, <2>4, <3>1 DEF Firm, Active
    <2>6. status[t] = "None" =>
             /\ \A u \in RgbInputs(plan[t]) :
                   \E c \in coloring' : c.of = t /\ c.txo = u /\ ~Comes(c)
             /\ SomethingBack(plan[t]) =>
                   \E c \in coloring' :
                      c.of = t /\ c.txo = plan[t].seat /\ Comes(c)
      <3> SUFFICES ASSUME status[t] = "None"
                   PROVE  \E st : Save(t, plan[t], st)
        BY SavedRows
      <3> QED
        BY <2>1 DEF EndOf, UpdateOrSave
    <2> QED
      BY <1>1, <2>1, <2>2, <2>4, <2>5, <2>6, GoingOn
  <1>5. CASE Complete(t)
    <2>1. /\ coloring' = coloring /\ plan' = plan /\ promised' = promised
          /\ strays' = strays /\ status[t] = "WaitingCounterparty"
          /\ status' = [status EXCEPT ![t] = "WaitingConfirmations"]
      BY <1>5 DEF Complete
    <2>2. /\ known \subseteq known' /\ known' \subseteq known \cup {t}
          /\ exists \subseteq exists' /\ spent \subseteq spent'
          /\ RgbInputs(plan[t]) \subseteq spent'
      BY <1>5 DEF Complete, BroadcastPsbt, OwnOutput, Spends
    <2>3. /\ status' \in [Transfers -> Status]
          /\ \A x \in Transfers \ {t} : status'[x] = status[x]
          /\ status'[t] = "WaitingConfirmations"
      BY <1>1, <2>1 DEF Status, Pending
    <2>4. Firm' \subseteq Firm
      BY <1>1, <2>1, <2>3 DEF Firm, Active
    <2> QED
      BY <1>1, <1>2, <2>1, <2>2, <2>3, <2>4, GoingOn
  <1>6. CASE LoseBroadcast(t)
    <2>1. UNCHANGED <<status, coloring, txoVars, plan, promised, strays>>
      BY <1>6 DEF LoseBroadcast
    <2>2. Firm' = Firm
      BY <2>1 DEF Firm
    <2> QED
      BY <1>1, <2>1, <2>2, GoingOn
  <1>7. CASE SettleSent(t) \/ FailSent(t)
    <2>1. /\ UNCHANGED <<coloring, txoVars, plan, promised, strays>>
          /\ status[t] # "None"
          /\ \E st \in {"Settled", "Failed"} : status' = [status EXCEPT ![t] = st]
      BY <1>7 DEF SettleSent, FailSent
    <2>2. /\ status' \in [Transfers -> Status]
          /\ \A x \in Transfers \ {t} : status'[x] = status[x]
          /\ status'[t] \in {"Settled", "Failed"}
      BY <1>1, <2>1 DEF Status
    <2>3. Firm' \subseteq Firm
      BY <1>1, <2>1, <2>2 DEF Firm, Active
    <2> QED
      BY <1>1, <2>1, <2>2, <2>3, GoingOn
  <1> QED
    BY <1>3, <1>4, <1>5, <1>6, <1>7 DEF SendStep

\* A new blind invoice.
LEMMA BlindReceiveKeeps ==
    ASSUME Reservations, NEW b \in Blind, BlindReceive(b)
    PROVE  Reservations'
  <1>1. PICK u \in Pick({}) : promised' = [promised EXCEPT ![b] = u]
    BY DEF BlindReceive
  <1>2. /\ UNCHANGED <<coloring, known, exists, spent, plan, strays>>
        /\ status' = [status EXCEPT ![b] = "WaitingCounterparty"]
    BY DEF BlindReceive, txoVars
  <1>3. /\ status' \in [Transfers -> Status]
        /\ \A x \in Transfers \ {b} : status'[x] = status[x]
        /\ status'[b] = "WaitingCounterparty"
        /\ promised'[b] = u /\ \A c \in Blind \ {b} : promised'[c] = promised[c]
        /\ DOMAIN promised' = Blind
    BY <1>1, <1>2 DEF Reservations, Domains, Transfers, Incoming, Status, Pending
  <1>4. /\ \A t \in Outgoing : status'[t] = status[t]
        /\ \A c \in Blind \ {b} : status'[c] = status[c]
    BY <1>3 DEF Transfers, Incoming
  <1>5. Firm' = Firm
    BY <1>2, <1>4 DEF Firm
  <1>6. ReservationIsExclusive' /\ SeatIsKept'
    BY <1>1, <1>2, <1>4, <1>5, NewPromise
  <1>7. Domains'
    BY <1>2, <1>3 DEF Reservations, Domains
  <1>8. WasBegun' /\ Colored'
    BY <1>2, <1>4 DEF Reservations, WasBegun, Colored, Begun, RgbInputs, Comes
  <1>9. ColoredInvoice'
    BY <1>2, <1>3, <1>4 DEF Reservations, ColoredInvoice, Comes
  <1>10. PromisedIsReal'
    BY <1>2, <1>3, <1>4, PickedIsFree DEF Reservations, PromisedIsReal
  <1>11. InputsAreReal'
    BY <1>2, <1>4 DEF Reservations, InputsAreReal, RgbInputs, SomethingBack,
       Back, MovedOf
  <1> QED
    BY <1>6, <1>7, <1>8, <1>9, <1>10, <1>11 DEF Reservations

\* Every step of an incoming transfer that has its invoice.
LEMMA ReceiveStepKeeps ==
    ASSUME Reservations, NEW x \in Incoming,
           ReceiveStep(x) \/ (x \in Witness /\ WitnessReceive(x))
    PROVE  Reservations'
  <1> USE DEF txoVars, invoiceVars
  <1>1. /\ status \in [Transfers -> Status] /\ known \subseteq Txos
        /\ x \in Transfers /\ x \notin Outgoing
        /\ Outgoing \subseteq Transfers /\ Blind \subseteq Transfers
    BY DEF Reservations, Domains, Transfers, Incoming
  <1>2. /\ plan' = plan /\ promised' = promised /\ strays' = strays
        /\ coloring \subseteq coloring' /\ spent' = spent
    BY DEF ReceiveStep, Published, Accept, ReachSafeHeight, SeeBroadcast,
       SettleReceived, FailReceived, WitnessReceive
  <1>3. exists \subseteq exists' /\ known \subseteq known'
    BY DEF ReceiveStep, Published, Accept, ReachSafeHeight, SeeBroadcast,
       SettleReceived, FailReceived, WitnessReceive, Acknowledge, FoundTxo
  <1>4. status' = status \/ \E st \in Status : status' = [status EXCEPT ![x] = st]
    BY DEF ReceiveStep, Published, Accept, ReachSafeHeight, SeeBroadcast,
       SettleReceived, FailReceived, WitnessReceive, Acknowledge, Status, Pending
  <1>5. /\ status' \in [Transfers -> Status]
        /\ \A y \in Transfers \ {x} : status'[y] = status[y]
    BY <1>1, <1>4
  <1>6. \A t \in Outgoing : status'[t] = status[t]
    BY <1>1, <1>5
  <1>7. Firm' = Firm
    BY <1>2, <1>6 DEF Firm
  <1>8. known' \subseteq Txos /\ \A t \in Outgoing \cap known' : t \in known
    <2>1. \/ known' = known
          \/ x \in Witness /\ known' = known \cup {x}
          \/ known' = known \cup {Seat(x)} /\ status[x] = "WaitingCounterparty"
      <3>1. CASE Accept(x)
        BY <3>1 DEF Accept
      <3>2. CASE SettleReceived(x)
        BY <3>2 DEF SettleReceived, FoundTxo
      <3>3. CASE Published(x) \/ ReachSafeHeight(x) \/ SeeBroadcast(x)
                   \/ FailReceived(x) \/ (x \in Witness /\ WitnessReceive(x))
        BY <3>3 DEF Published, ReachSafeHeight, SeeBroadcast, FailReceived,
           WitnessReceive
      <3> QED
        BY <3>1, <3>2, <3>3 DEF ReceiveStep
    <2>2. CASE x \in Witness
      BY <1>1, <2>1, <2>2 DEF Seat, Txos
    <2>3. CASE x \in Blind
      BY <1>1, <2>1, <2>3 DEF Seat, Reservations, PromisedIsReal
    <2> QED
      BY <2>2, <2>3 DEF Incoming
  <1>9. ASSUME x \in Blind
        PROVE  /\ status'[x] # "None" => status[x] # "None"
               /\ status'[x] \in Pending => status[x] \in Pending
               /\ status'[x] \in Pending \ {"WaitingCounterparty"} =>
                     \/ status[x] \in Pending \ {"WaitingCounterparty"}
                     \/ \E c \in coloring' :
                           c.of = x /\ c.txo = promised[x] /\ Comes(c)
    <2>1. ReceiveStep(x)
      BY <1>9
    <2>2. CASE Accept(x)
      <3>1. PICK a \in Assets, n \in Gifts :
               coloring' = coloring \cup
                  {[txo |-> Seat(x), of |-> x, type |-> "Receive",
                    asset |-> a, amount |-> n]}
        BY <2>2 DEF Accept
      <3> DEFINE c == [txo |-> Seat(x), of |-> x, type |-> "Receive",
                       asset |-> a, amount |-> n]
      <3>2. c \in coloring' /\ c.of = x /\ c.txo = promised[x] /\ Comes(c)
        BY <1>9, <3>1 DEF Comes, Seat
      <3>3. status[x] = "WaitingCounterparty"
        BY <2>2 DEF Accept
      <3> QED
        BY <3>2, <3>3 DEF Pending
    <2>3. CASE ReachSafeHeight(x) \/ SeeBroadcast(x)
      BY <2>3 DEF ReachSafeHeight, SeeBroadcast, Pending
    <2>4. CASE Published(x)
      BY <2>4 DEF Published
    <2>5. CASE SettleReceived(x) \/ FailReceived(x)
      BY <1>1, <2>5 DEF SettleReceived, FailReceived, Pending
    <2> QED
      BY <2>1, <2>2, <2>3, <2>4, <2>5 DEF ReceiveStep
  <1>10. \A b \in Blind :
            /\ status'[b] # "None" => status[b] # "None"
            /\ status'[b] \in Pending => status[b] \in Pending
            /\ status'[b] \in Pending \ {"WaitingCounterparty"} =>
                  \/ status[b] \in Pending \ {"WaitingCounterparty"}
                  \/ \E c \in coloring' :
                        c.of = b /\ c.txo = promised[b] /\ Comes(c)
    BY <1>1, <1>5, <1>9
  <1> QED
    BY <1>2, <1>3, <1>5, <1>6, <1>7, <1>8, <1>10, GoingOn

\* A synchronisation.
LEMMA SyncKeeps ==
    ASSUME Reservations, NEW x \in Outgoing \cup Witness, SyncTxo(x)
    PROVE  Reservations'
  <1>1. /\ UNCHANGED <<status, coloring, spent, plan, promised, strays>>
        /\ known' = known \cup {x} /\ exists' = exists \cup {x}
    BY DEF SyncTxo, FoundTxo, invoiceVars
  <1>2. x \in Outgoing => Begun(x)
    BY DEF SyncTxo, Begun, NoPlan, Incoming
  <1>3. Firm' = Firm
    BY <1>1 DEF Firm
  <1>4. status \in [Transfers -> Status] /\ known' \subseteq Txos
    BY <1>1 DEF Reservations, Domains, Txos
  <1> QED
    BY <1>1, <1>2, <1>3, <1>4, GoingOn

\* A deletion takes the colorings of a failed transfer, and no TXO of another.
LEMMA DeleteKeeps ==
    ASSUME Reservations, NEW x \in Outgoing \cup Incoming, Delete(x)
    PROVE  Reservations'
  <1>1. /\ UNCHANGED <<exists, spent, plan, promised, strays>>
        /\ coloring' = {c \in coloring : c.of # x}
        /\ known' \subseteq known /\ known \cap exists \subseteq known'
        /\ status[x] = "Failed" /\ status' = [status EXCEPT ![x] = "None"]
    BY DEF Delete, invoiceVars
  <1>2. /\ status' \in [Transfers -> Status]
        /\ \A y \in Transfers \ {x} : status'[y] = status[y]
        /\ status'[x] = "None"
        /\ Outgoing \subseteq Transfers /\ Blind \subseteq Transfers
    BY <1>1 DEF Reservations, Domains, Transfers, Incoming, Status
  <1>3. Firm' \subseteq Firm
    BY <1>1, <1>2 DEF Firm, Active
  <1>4. ReservationIsExclusive' /\ SeatIsKept'
    BY <1>1, <1>2, <1>3, NothingNew DEF Reservations, Pending
  <1>5. Domains'
    BY <1>1, <1>2 DEF Reservations, Domains
  <1>6. WasBegun'
    BY <1>1, <1>2 DEF Reservations, WasBegun, Begun
  <1>7. Colored'
    BY <1>1, <1>2 DEF Reservations, Colored, RgbInputs, Comes
  <1>8. ColoredInvoice'
    BY <1>1, <1>2 DEF Reservations, ColoredInvoice, Comes, Pending
  <1>9. PromisedIsReal'
    BY <1>1, <1>2 DEF Reservations, PromisedIsReal
  <1>10. InputsAreReal'
    BY <1>1, <1>2 DEF Reservations, InputsAreReal, RgbInputs, SomethingBack,
       Back, MovedOf
  <1> QED
    BY <1>4, <1>5, <1>6, <1>7, <1>8, <1>9, <1>10 DEF Reservations

(***************************************************************************)
(* The theorems                                                            *)
(***************************************************************************)

\* Nothing is under way at the beginning.
LEMMA ReservationsInit == Init => Reservations
  <1> SUFFICES ASSUME Init PROVE Reservations
    OBVIOUS
  <1>1. /\ \A t \in Outgoing : status[t] = "None" /\ plan[t] = NoPlan
        /\ \A b \in Blind : status[b] = "None"
        /\ status \in [Transfers -> Status]
    BY DEF Init, Transfers, Incoming, Status
  <1>2. Firm = {}
    BY <1>1 DEF Firm, Active
  <1>3. Domains /\ WasBegun
    BY <1>1 DEF Init, Domains, WasBegun, Txos
  <1>4. Colored /\ ColoredInvoice /\ PromisedIsReal
    BY <1>1 DEF Colored, ColoredInvoice, PromisedIsReal, Pending
  <1>5. InputsAreReal
    BY <1>1 DEF InputsAreReal, RgbInputs, NoPlan
  <1> QED
    BY <1>2, <1>3, <1>4, <1>5 DEF Reservations, ReservationIsExclusive, SeatIsKept

\* Every step keeps the invariant.
LEMMA ReservationsNext ==
    ASSUME AmountAssumption, Reservations, [Next]_vars
    PROVE  Reservations'
  <1>1. CASE UNCHANGED vars
    <2>1. UNCHANGED <<status, coloring, known, exists, spent, plan, promised, strays>>
      BY <1>1 DEF vars, txoVars, invoiceVars
    <2>2. Firm' = Firm
      BY <2>1 DEF Firm
    <2> QED
      BY <2>1, <2>2, GoingOn DEF Reservations, Domains
  <1>2. ASSUME NEW t \in Outgoing, SendStep(t) PROVE Reservations'
    BY <1>2, SendStepKeeps
  <1>3. ASSUME NEW b \in Blind, BlindReceive(b) PROVE Reservations'
    BY <1>3, BlindReceiveKeeps
  <1>4. ASSUME NEW w \in Witness, WitnessReceive(w) PROVE Reservations'
    BY <1>4, ReceiveStepKeeps DEF Incoming
  <1>5. ASSUME NEW x \in Incoming, ReceiveStep(x) PROVE Reservations'
    BY <1>5, ReceiveStepKeeps
  <1>6. ASSUME NEW x \in Outgoing \cup Witness, SyncTxo(x) PROVE Reservations'
    BY <1>6, SyncKeeps
  <1>7. ASSUME NEW x \in Outgoing \cup Incoming, Delete(x) PROVE Reservations'
    BY <1>7, DeleteKeeps
  <1> QED
    BY <1>1, <1>2, <1>3, <1>4, <1>5, <1>6, <1>7 DEF Next

\* Everything under way can be seen in the colorings and flags that
\* get_input_unspents and get_utxo look at.
THEOREM ReservationsHold == Spec => []Reservations
  <1>1. Reservations /\ [Next]_vars => Reservations'
    BY ReservationsNext, AmountAssumption
  <1> QED
    BY <1>1, ReservationsInit, PTL DEF Spec

\* No two transfers under way move the same allocation (save_transfers,
\* get_input_unspents).
THEOREM NoDoubleSpend == Spec => []ReservationIsExclusive
  <1>1. Reservations => ReservationIsExclusive
    BY DEF Reservations
  <1> QED
    BY <1>1, ReservationsHold, PTL

\* A promised TXO, or one that is to take change, is not moved by another
\* transfer (get_utxo, get_input_unspents).
THEOREM SeatsAreKept == Spec => []SeatIsKept
  <1>1. Reservations => SeatIsKept
    BY DEF Reservations
  <1> QED
    BY <1>1, ReservationsHold, PTL

(***************************************************************************)
(* What a plan moves                                                       *)
(***************************************************************************)

\* There are finitely many TXOs.
LEMMA TxosFinite == ASSUME FinitenessAssumption PROVE IsFiniteSet(Txos)
  <1>1. IsFiniteSet(Utxos \cup Outgoing)
    BY FS_Union DEF FinitenessAssumption
  <1>2. IsFiniteSet((Utxos \cup Outgoing) \cup Witness)
    BY <1>1, FS_Union DEF FinitenessAssumption
  <1> QED
    BY <1>2 DEF Txos

\* Any rows have a sum that is a natural number.
LEMMA RowSums ==
    ASSUME IsFiniteSet(coloring), coloring \subseteq Coloring,
           NEW R, R \subseteq coloring
    PROVE  /\ Amounted(R) /\ IsFiniteSet(R)
           /\ \A r \in R : r.amount \in Nat
           /\ Sum(R) \in Nat
  <1>1. IsFiniteSet(R)
    BY FS_Subset
  <1>2. \A r \in R : r.amount \in Nat
    BY DEF Coloring
  <1> QED
    BY <1>1, <1>2, SumIsNat DEF Amounted

\* The allocations moved from some TXOs: one for every asset held on each.
LEMMA MovedFromWhat ==
    ASSUME NEW inputs
    PROVE  /\ \A m \in MovedFrom(inputs) :
                 /\ m.txo \in inputs /\ m.asset \in Assets
                 /\ Held(m.txo, m.asset) # {}
                 /\ m = [txo |-> m.txo, asset |-> m.asset,
                         amount |-> Sum(Held(m.txo, m.asset))]
           /\ \A u \in inputs, a \in Assets :
                 Held(u, a) # {} =>
                    [txo |-> u, asset |-> a, amount |-> Sum(Held(u, a))]
                        \in MovedFrom(inputs)
  BY DEF MovedFrom

\* Allocations of which there is one for each TXO and asset are finitely many.
LEMMA MovedIsFinite ==
    ASSUME FinitenessAssumption, NEW M,
           \A m \in M : m.txo \in Txos /\ m.asset \in Assets,
           \A m, n \in M : m.txo = n.txo /\ m.asset = n.asset => m = n
    PROVE  IsFiniteSet(M)
  <1> DEFINE f == [m \in M |-> <<m.txo, m.asset>>]
  <1>1. f \in Injection(M, Txos \X Assets)
    BY DEF Injection, IsInjective
  <1>2. IsFiniteSet(Txos \X Assets)
    BY TxosFinite, FS_Product DEF FinitenessAssumption
  <1> QED
    BY <1>1, <1>2, FS_Injection

\* What MovedFrom collects is finitely many allocations.
LEMMA MovedFromTypes ==
    ASSUME FinitenessAssumption, IsFiniteSet(coloring),
           coloring \subseteq Coloring, NEW inputs, inputs \subseteq Txos
    PROVE  /\ MovedFrom(inputs) \in SUBSET Moved
           /\ IsFiniteSet(MovedFrom(inputs))
  <1>1. \A u, a : Held(u, a) \subseteq coloring
    BY DEF Held, Rows
  <1>2. \A u, a : Sum(Held(u, a)) \in Nat
    BY <1>1, RowSums
  <1>3. ASSUME NEW m \in MovedFrom(inputs) PROVE m \in Moved
    BY <1>2, MovedFromWhat DEF Moved
  <1>4. \A m, n \in MovedFrom(inputs) :
           m.txo = n.txo /\ m.asset = n.asset => m = n
    BY MovedFromWhat
  <1>5. \A m \in MovedFrom(inputs) : m.txo \in Txos /\ m.asset \in Assets
    BY MovedFromWhat
  <1> QED
    BY <1>3, <1>4, <1>5, MovedIsFinite

\* What is moved of an asset is what the inputs hold of it.
LEMMA MovedSum ==
    ASSUME FinitenessAssumption, IsFiniteSet(coloring),
           coloring \subseteq Coloring, NEW inputs, inputs \subseteq Txos,
           NEW a \in Assets
    PROVE  Sum({m \in MovedFrom(inputs) : m.asset = a}) = Holds(inputs, a)
  <1> DEFINE I == {m \in MovedFrom(inputs) : m.asset = a}
             G == [m \in I |-> Held(m.txo, a)]
             U == UNION {G[m] : m \in I}
  <1>1. IsFiniteSet(I)
    BY MovedFromTypes, FS_Subset
  <1>2. \A u, b : Held(u, b) \subseteq coloring
    BY DEF Held, Rows
  <1>3. \A m \in I : Amounted(G[m]) /\ m.amount = Sum(G[m])
    <2> TAKE m \in I
    <2>1. m = [txo |-> m.txo, asset |-> m.asset,
               amount |-> Sum(Held(m.txo, m.asset))] /\ m.asset = a
      BY MovedFromWhat
    <2>2. m.amount = Sum(Held(m.txo, a))
      BY <2>1
    <2>3. Amounted(Held(m.txo, a))
      BY <1>2, RowSums
    <2>4. G[m] = Held(m.txo, a)
      OBVIOUS
    <2> QED
      BY <2>2, <2>3, <2>4
  <1>4. \A i, j \in I : i # j => G[i] \cap G[j] = {}
    <2>1. \A i, j \in I : i # j => i.txo # j.txo
      BY MovedFromWhat
    <2> QED
      BY <2>1 DEF Held, Rows
  <1>5. U = UNION {Held(u, a) : u \in inputs}
    <2>1. U \subseteq UNION {Held(u, a) : u \in inputs}
      <3>1. \A m \in I : G[m] = Held(m.txo, a) /\ m.txo \in inputs
        BY MovedFromWhat
      <3> HIDE DEF G, I
      <3> QED
        BY <3>1
    <2>2. ASSUME NEW u \in inputs, NEW c \in Held(u, a) PROVE c \in U
      <3> DEFINE m == [txo |-> u, asset |-> a, amount |-> Sum(Held(u, a))]
      <3>1. m \in I /\ m.txo = u
        BY <2>2, MovedFromWhat
      <3> HIDE DEF m
      <3>2. G[m] = Held(u, a)
        BY <3>1
      <3> HIDE DEF G
      <3>3. c \in G[m]
        BY <2>2, <3>2
      <3> QED
        BY <3>1, <3>3
    <2> QED
      BY <2>1, <2>2
  <1> HIDE DEF G, I
  <1>6. Sum(I) = Sum(U)
    BY <1>1, <1>3, <1>4, SumOfGroups
  <1>7. Sum(I) = Holds(inputs, a)
    BY <1>5, <1>6 DEF Holds
  <1> QED
    BY <1>7 DEF I

(***************************************************************************)
(* What send_begin plans                                                   *)
(***************************************************************************)

\* a plan that send_begin may have made for t
NewPlan(t, p) ==
    /\ p \in Plan /\ IsFiniteSet(p.moved)
    /\ \E inputs \in SUBSET Usable : p.moved = MovedFrom(inputs)
    /\ Spends(p) \subseteq Usable
    /\ p.seat \in {Nowhere, t} \/ p.seat \in Pick(Spends(p))
    /\ p.seat = t => p.own
    /\ SomethingBack(p) <=> p.seat # Nowhere
    /\ \A a \in Assets : Back(p, a) >= 0
    /\ p # NoPlan

\* The sums of a plan.
LEMMA BackIsInt ==
    ASSUME NEW p \in Plan, IsFiniteSet(p.moved), NEW a \in Assets
    PROVE  /\ Amounted(MovedOf(p, a)) /\ Sum(MovedOf(p, a)) \in Nat
           /\ p.order[a] \in Nat /\ Back(p, a) \in Int
           /\ Back(p, a) = Sum(MovedOf(p, a)) - p.order[a]
  <1>1. IsFiniteSet(MovedOf(p, a))
    BY FS_Subset DEF MovedOf
  <1>2. \A m \in MovedOf(p, a) : m.amount \in Nat
    BY DEF MovedOf, Plan, Moved
  <1>3. Sum(MovedOf(p, a)) \in Nat
    BY <1>1, <1>2, SumIsNat
  <1>4. p.order[a] \in Nat
    BY DEF Plan
  <1> QED
    BY <1>1, <1>2, <1>3, <1>4 DEF Amounted, Back

\* The inputs that are selected hold what is ordered.
LEMMA SelectionIsEnough ==
    ASSUME IsFiniteSet(coloring), coloring \subseteq Coloring,
           NEW order \in [Assets -> Nat], NEW inputs, Selects(inputs, order),
           NEW a \in Assets
    PROVE  Holds(inputs, a) >= order[a] /\ Holds(inputs, a) \in Nat
  <1>1. PICK S \in [Assets -> SUBSET inputs] : IsSelection(S[a], a, order[a])
    BY DEF Selects
  <1> DEFINE R(T) == UNION {Held(u, a) : u \in T}
  <1>2. \A T : R(T) \subseteq coloring
    BY DEF Held, Rows
  <1>3. R(S[a]) \subseteq R(inputs)
    <2>1. S[a] \subseteq inputs
      OBVIOUS
    <2> QED
      BY <2>1
  <1>4. \A T : Holds(T, a) = Sum(R(T))
    BY DEF Holds
  <1> HIDE DEF R
  <1>5. Sum(R(S[a])) <= Sum(R(inputs)) /\ Sum(R(inputs)) \in Nat
        /\ Sum(R(S[a])) \in Nat
    BY <1>2, <1>3, RowSums, SumOfPart
  <1>6. CASE order[a] = 0
    BY <1>4, <1>5, <1>6
  <1>7. CASE order[a] # 0
    BY <1>1, <1>4, <1>5, <1>7 DEF IsSelection
  <1> QED
    BY <1>6, <1>7

\* Whatever send_begin_impl selects, the plan it leaves is one of those.
LEMMA BegunPlan ==
    ASSUME FinitenessAssumption, AmountAssumption, Reservations,
           IsFiniteSet(coloring), coloring \subseteq Coloring,
           NEW t \in Outgoing, SendBegin(t)
    PROVE  \E p : NewPlan(t, p) /\ Begin(t, p)
  <1>1. PICK order \in Orders, inputs \in SUBSET Usable :
           /\ Selects(inputs, order)
           /\ \E fees \in TopUps(inputs), own, donation \in BOOLEAN :
                 LET draft == Draft(order, inputs, fees, own, donation)
                 IN  \E seat \in Seats(t, draft) :
                        Begin(t, [draft EXCEPT !.seat = seat])
    BY DEF SendBegin
  <1>2. PICK fees \in TopUps(inputs), own \in BOOLEAN, donation \in BOOLEAN :
           LET draft == Draft(order, inputs, fees, own, donation)
           IN  \E seat \in Seats(t, draft) :
                  Begin(t, [draft EXCEPT !.seat = seat])
    BY <1>1
  <1> DEFINE draft == Draft(order, inputs, fees, own, donation)
  <1>3. PICK seat \in Seats(t, draft) : Begin(t, [draft EXCEPT !.seat = seat])
    BY <1>2
  <1> DEFINE p == [draft EXCEPT !.seat = seat]
  <1>4. p = [order |-> order, moved |-> MovedFrom(inputs), fees |-> fees,
             own |-> own, donation |-> donation, seat |-> seat]
    BY DEF Draft
  <1>5. /\ p.seat = seat /\ p.order = order /\ p.own = own
        /\ p.moved = MovedFrom(inputs) /\ p.fees = fees
        /\ draft.moved = p.moved /\ draft.order = p.order /\ draft.fees = p.fees
        /\ draft.own = own
        /\ RgbInputs(draft) \subseteq inputs
        /\ Begin(t, p)
    BY <1>3, InputsOfDraft DEF Draft
  <1> HIDE DEF draft, p
  <1>6. /\ RgbInputs(p) = RgbInputs(draft) /\ Spends(p) = Spends(draft)
        /\ SomethingBack(p) <=> SomethingBack(draft)
    BY <1>5, SeatApart
  <1>7. Usable \subseteq known /\ known \subseteq Txos /\ inputs \subseteq Txos
    BY DEF Usable, Unspent, Reservations, Domains
  <1>8. fees \subseteq Usable
    BY DEF TopUps
  <1>9. Spends(p) \subseteq Usable
    BY <1>5, <1>6, <1>8 DEF Spends
  <1>10. p.seat \in {Nowhere, t} \/ p.seat \in Pick(Spends(p))
    BY <1>5, <1>6 DEF Seats
  <1>11. Nowhere \notin Txos /\ t \in Txos /\ t \notin known
    BY DEF Txos, SendBegin, Reservations, WasBegun
  <1>12. p.seat \in Pick(Spends(p)) => p.seat \in known
    BY PickedIsFree
  <1>13. p.seat = t => p.own
    BY <1>5, <1>6, <1>11, <1>12 DEF Seats
  <1>14. SomethingBack(p) <=> p.seat # Nowhere
    BY <1>5, <1>6, <1>7, <1>11, <1>12 DEF Seats
  <1>15. MovedFrom(inputs) \in SUBSET Moved /\ IsFiniteSet(MovedFrom(inputs))
    BY <1>7, MovedFromTypes
  <1>16. seat \in Txos \cup {Nowhere}
    BY <1>5, <1>7, <1>10, <1>11, <1>12
  <1>17. order \in [Assets -> Nat]
    BY DEF AmountAssumption
  <1>18. p \in Plan
    BY <1>4, <1>7, <1>8, <1>15, <1>16, <1>17 DEF Plan
  <1>19. ASSUME NEW a \in Assets PROVE Back(p, a) >= 0
    <2>1. Sum(MovedOf(p, a)) = Holds(inputs, a)
      BY <1>5, <1>7, MovedSum DEF MovedOf
    <2>2. Holds(inputs, a) >= order[a] /\ Holds(inputs, a) \in Nat
          /\ order[a] \in Nat
      BY <1>1, <1>17, SelectionIsEnough
    <2> QED
      BY <1>5, <2>1, <2>2 DEF Back
  <1>20. p # NoPlan
    BY <1>5 DEF NoPlan, AmountAssumption
  <1> QED
    BY <1>5, <1>9, <1>10, <1>13, <1>14, <1>15, <1>18, <1>19, <1>20 DEF NewPlan

(***************************************************************************)
(* What a step of an outgoing transfer does                                *)
(***************************************************************************)

\* the rows: nothing, or those of the plan
RowsStep(t, p) ==
    \/ coloring' = coloring /\ (status'[t] = "None" <=> status[t] = "None")
    \/ /\ status[t] = "None" /\ status'[t] \in Active
       /\ coloring' = coloring \cup InputRows(t, p) \cup ChangeRows(t, p)
       /\ SeatRow(t, p) \subseteq known'

\* the flags: nothing, or a broadcast
FlagsStep(t, p) ==
    \/ /\ exists' = exists /\ spent' = spent
       /\ status'[t] \in Out => status[t] = "WaitingConfirmations"
                                \/ status'[t] = status[t]
    \/ /\ spent' = spent \cup Spends(p)
       /\ exists' = exists \cup OwnOutput(t, p)
       /\ OwnOutput(t, p) \subseteq known'
       /\ status'[t] = "WaitingConfirmations"

PlanStep(t) ==
    \/ plan' = plan /\ Begun(t)
    \/ /\ ~Begun(t) /\ NewPlan(t, plan'[t])
       /\ plan' = [plan EXCEPT ![t] = plan'[t]]

StatusStep(t) ==
    /\ status' \in [Transfers -> Status] /\ status'[t] \in Going
    /\ \A x \in Transfers \ {t} : status'[x] = status[x]
    /\ status'[t] # status[t] =>
          \/ status[t] \in Active
          \/ t \in strays'
          \/ ~Begun(t)
    /\ status[t] \in Out => status'[t] \in Out \/ t \in strays'

SendShape(t) ==
    /\ UNCHANGED <<promised, asked, pending>>
    /\ PlanStep(t)
    /\ StatusStep(t)
    /\ RowsStep(t, plan'[t])
    /\ FlagsStep(t, plan'[t])
    /\ known \subseteq known' /\ known' \subseteq known \cup {t}
    /\ strays \subseteq strays' /\ strays' \subseteq strays \cup {t}
    /\ net' \in {net, net \cup {t}}
    /\ faults' \in 0..MaxFaults

\* the end of a transfer whose plan is p
LEMMA EndShape ==
    ASSUME NEW t \in Outgoing, NEW p, p.seat = t => p.own,
           status \in [Transfers -> Status], EndOf(t, p)
    PROVE  /\ status' \in [Transfers -> Status]
           /\ status'[t] \in {"WaitingCounterparty", "WaitingConfirmations"}
           /\ \A x \in Transfers \ {t} : status'[x] = status[x]
           /\ RowsStep(t, p) /\ FlagsStep(t, p)
           /\ known \subseteq known' /\ known' \subseteq known \cup {t}
           /\ net' \in {net, net \cup {t}} /\ pending' = pending
  <1>1. t \in Transfers
    BY DEF Transfers
  <1>2. ASSUME NEW st \in {"WaitingCounterparty", "WaitingConfirmations"},
               UpdateOrSave(t, p, st)
        PROVE  /\ status' = [status EXCEPT ![t] = st]
               /\ \/ coloring' = coloring /\ status[t] # "None"
                  \/ /\ status[t] = "None"
                     /\ coloring' = coloring \cup InputRows(t, p)
                                             \cup ChangeRows(t, p)
    BY <1>2 DEF UpdateOrSave, Save
  <1>3. CASE p.donation
    <2>1. BroadcastPsbt(t, p) /\ UpdateOrSave(t, p, "WaitingConfirmations")
      BY <1>3 DEF EndOf
    <2>2. SeatRow(t, p) \subseteq OwnOutput(t, p)
      BY DEF SeatRow, OwnOutput
    <2>3. status' = [status EXCEPT ![t] = "WaitingConfirmations"]
      BY <1>2, <2>1
    <2>4. status' \in [Transfers -> Status] /\ status'[t] = "WaitingConfirmations"
          /\ \A x \in Transfers \ {t} : status'[x] = status[x]
      BY <1>1, <2>3 DEF Status, Pending
    <2>5. RowsStep(t, p)
      BY <1>2, <2>1, <2>2, <2>4 DEF RowsStep, BroadcastPsbt, Active
    <2>6. FlagsStep(t, p)
      BY <2>1, <2>4 DEF FlagsStep, BroadcastPsbt
    <2>7. /\ known \subseteq known' /\ known' \subseteq known \cup {t}
          /\ net' \in {net, net \cup {t}} /\ pending' = pending
      BY <2>1 DEF BroadcastPsbt, OwnOutput
    <2> QED
      BY <2>4, <2>5, <2>6, <2>7
  <1>4. CASE ~p.donation
    <2>1. /\ UpdateOrSave(t, p, "WaitingCounterparty")
          /\ known' = known \cup SeatRow(t, p)
          /\ UNCHANGED <<exists, spent, pending, net>>
      BY <1>4 DEF EndOf
    <2>2. status' = [status EXCEPT ![t] = "WaitingCounterparty"]
      BY <1>2, <2>1
    <2>3. status' \in [Transfers -> Status] /\ status'[t] = "WaitingCounterparty"
          /\ \A x \in Transfers \ {t} : status'[x] = status[x]
      BY <1>1, <2>2 DEF Status, Pending
    <2>4. RowsStep(t, p)
      BY <1>2, <2>1, <2>3 DEF RowsStep, Active
    <2>5. FlagsStep(t, p)
      BY <2>1, <2>3 DEF FlagsStep, Out
    <2>6. known \subseteq known' /\ known' \subseteq known \cup {t}
      BY <2>1 DEF SeatRow
    <2> QED
      BY <2>1, <2>3, <2>4, <2>5, <2>6
  <1> QED
    BY <1>3, <1>4

\* Every operation on an outgoing transfer (send_begin, send_end, the broadcast,
\* the settlement, the failure) does no more than that.
LEMMA SendShapeHolds ==
    ASSUME FinitenessAssumption, AmountAssumption, BoundAssumption,
           Reservations, Books, NEW t \in Outgoing, SendStep(t)
    PROVE  SendShape(t)
  <1> USE DEF txoVars, invoiceVars
  <1>1. /\ status \in [Transfers -> Status] /\ t \in Transfers
        /\ IsFiniteSet(coloring) /\ coloring \subseteq Coloring
        /\ faults \in 0..MaxFaults
        /\ status[t] \in Going
    BY DEF Books, TypeOK, Transfers, FlagsAreRight
  <1>2. status[t] # "None" => Begun(t)
    BY DEF Reservations, WasBegun
  <1>3. CASE SendBegin(t)
    <2>1. PICK p : NewPlan(t, p) /\ Begin(t, p)
      BY <1>1, <1>3, BegunPlan
    <2>2. UNCHANGED <<invoiceVars, strays, faults>> /\ ~Begun(t)
      BY <1>3 DEF SendBegin
    <2>3. plan' = [plan EXCEPT ![t] = p] /\ plan'[t] = p
      BY <2>1 DEF Begin, Reservations, Domains
    <2>4. PlanStep(t)
      BY <2>1, <2>2, <2>3 DEF PlanStep
    <2>5. status[t] = "None"
      BY <1>2, <2>2
    <2>6. CASE UNCHANGED <<status, coloring, txoVars, net>>
      BY <1>1, <2>2, <2>3, <2>4, <2>6
         DEF SendShape, StatusStep, RowsStep, FlagsStep
    <2>7. CASE /\ Save(t, p, "Initiated")
               /\ known' = known \cup SeatRow(t, p)
               /\ UNCHANGED <<exists, spent, pending, net>>
      <3>1. status' = [status EXCEPT ![t] = "Initiated"]
            /\ coloring' = coloring \cup InputRows(t, p) \cup ChangeRows(t, p)
        BY <2>7 DEF Save
      <3>2. status' \in [Transfers -> Status] /\ status'[t] = "Initiated"
            /\ \A x \in Transfers \ {t} : status'[x] = status[x]
        BY <1>1, <3>1 DEF Status, Pending
      <3>3. known \subseteq known' /\ known' \subseteq known \cup {t}
        BY <2>7 DEF SeatRow
      <3>4. StatusStep(t)
        BY <2>2, <2>5, <3>2 DEF StatusStep, Going, Active, Out
      <3>5. RowsStep(t, p)
        BY <2>5, <2>7, <3>1, <3>2 DEF RowsStep, Active
      <3>6. FlagsStep(t, p)
        BY <2>7, <3>2 DEF FlagsStep, Out
      <3> QED
        BY <1>1, <2>2, <2>3, <2>4, <2>7, <3>3, <3>4, <3>5, <3>6 DEF SendShape
    <2>8. CASE EndOf(t, p)
      <3>1. p.seat = t => p.own
        BY <2>1 DEF NewPlan
      <3>2. /\ status' \in [Transfers -> Status]
            /\ status'[t] \in {"WaitingCounterparty", "WaitingConfirmations"}
            /\ \A x \in Transfers \ {t} : status'[x] = status[x]
            /\ RowsStep(t, p) /\ FlagsStep(t, p)
            /\ known \subseteq known' /\ known' \subseteq known \cup {t}
            /\ net' \in {net, net \cup {t}} /\ pending' = pending
        BY <1>1, <2>8, <3>1, EndShape
      <3>3. StatusStep(t)
        BY <2>2, <2>5, <3>2 DEF StatusStep, Going, Active, Out
      <3> QED
        BY <1>1, <2>2, <2>3, <2>4, <3>2, <3>3 DEF SendShape
    <2> QED
      BY <2>1, <2>6, <2>7, <2>8 DEF Begin
  <1>4. CASE SendEnd(t)
    <2>1. /\ Begun(t) /\ EndOf(t, plan[t])
          /\ UNCHANGED <<plan, invoiceVars, faults>>
          /\ \/ /\ status[t] \in {"Initiated", "WaitingCounterparty"}
                /\ strays' = strays
             \/ strays' = strays \cup {t}
      BY <1>4 DEF SendEnd
    <2>2. plan[t].seat = t => plan[t].own
      BY DEF Books, PlansAreRight
    <2>3. /\ status' \in [Transfers -> Status]
          /\ status'[t] \in {"WaitingCounterparty", "WaitingConfirmations"}
          /\ \A x \in Transfers \ {t} : status'[x] = status[x]
          /\ RowsStep(t, plan[t]) /\ FlagsStep(t, plan[t])
          /\ known \subseteq known' /\ known' \subseteq known \cup {t}
          /\ net' \in {net, net \cup {t}} /\ pending' = pending
      BY <1>1, <2>1, <2>2, EndShape
    <2>4. StatusStep(t)
      BY <2>1, <2>3 DEF StatusStep, Going, Active, Out
    <2> QED
      BY <1>1, <2>1, <2>3, <2>4 DEF SendShape, PlanStep
  <1>5. CASE Complete(t)
    <2>1. /\ UNCHANGED <<coloring, plan, invoiceVars, strays, faults>>
          /\ BroadcastPsbt(t, plan[t])
          /\ status[t] = "WaitingCounterparty"
          /\ status' = [status EXCEPT ![t] = "WaitingConfirmations"]
      BY <1>5 DEF Complete
    <2>2. status' \in [Transfers -> Status] /\ status'[t] = "WaitingConfirmations"
          /\ \A x \in Transfers \ {t} : status'[x] = status[x]
      BY <1>1, <2>1 DEF Status, Pending
    <2>3. StatusStep(t) /\ RowsStep(t, plan'[t]) /\ PlanStep(t)
      BY <1>2, <2>1, <2>2 DEF StatusStep, RowsStep, PlanStep, Going, Active, Out
    <2>4. /\ FlagsStep(t, plan'[t]) /\ pending' = pending
          /\ known \subseteq known' /\ known' \subseteq known \cup {t}
          /\ net' = net \cup {t}
      BY <2>1, <2>2 DEF FlagsStep, BroadcastPsbt, OwnOutput
    <2> QED
      BY <1>1, <2>1, <2>3, <2>4 DEF SendShape
  <1>6. CASE LoseBroadcast(t)
    <2>1. /\ UNCHANGED <<status, coloring, txoVars, plan, invoiceVars, strays>>
          /\ net' = net \cup {t} /\ status[t] # "None"
          /\ faults < MaxFaults /\ faults' = faults + 1
      BY <1>6 DEF LoseBroadcast
    <2>2. faults' \in 0..MaxFaults
      BY <1>1, <2>1 DEF BoundAssumption
    <2> QED
      BY <1>1, <1>2, <2>1, <2>2
         DEF SendShape, StatusStep, RowsStep, FlagsStep, PlanStep
  <1>7. CASE SettleSent(t) \/ FailSent(t)
    <2>1. /\ UNCHANGED <<coloring, txoVars, plan, invoiceVars, net, strays, faults>>
          /\ \/ status[t] = "WaitingConfirmations"
                /\ status' = [status EXCEPT ![t] = "Settled"]
             \/ status[t] \in {"Initiated", "WaitingCounterparty"}
                /\ status' = [status EXCEPT ![t] = "Failed"]
      BY <1>7 DEF SettleSent, FailSent
    <2>2. /\ status' \in [Transfers -> Status]
          /\ \/ status[t] = "WaitingConfirmations" /\ status'[t] = "Settled"
             \/ status[t] \in {"Initiated", "WaitingCounterparty"}
                /\ status'[t] = "Failed"
          /\ \A x \in Transfers \ {t} : status'[x] = status[x]
      BY <1>1, <2>1 DEF Status, Pending
    <2> QED
      BY <1>1, <1>2, <2>1, <2>2 DEF SendShape, StatusStep, RowsStep, FlagsStep,
         PlanStep, Going, Active, Out
  <1> QED
    BY <1>3, <1>4, <1>5, <1>6, <1>7 DEF SendStep

(***************************************************************************)
(* The rows and flags after a step of an outgoing transfer                 *)
(***************************************************************************)

\* The plan of t, new or old, is right before the step.
LEMMA PlanAfter ==
    ASSUME Reservations, Books, NEW t \in Outgoing, SendShape(t),
           NEW p, p = plan'[t]
    PROVE  /\ p \in Plan /\ IsFiniteSet(p.moved)
           /\ Spends(p) \subseteq exists
           /\ RgbInputs(p) \cap pending = {}
           /\ p.seat \notin {Nowhere, t} => p.seat \in exists \ pending
           /\ p.seat = t => p.own
           /\ SomethingBack(p) <=> p.seat # Nowhere
           /\ \A a \in Assets : Back(p, a) >= 0
  <1>1. CASE plan' = plan
    <2>1. p = plan[t] /\ plan[t] \in Plan /\ IsFiniteSet(plan[t].moved)
      BY <1>1 DEF Books, TypeOK
    <2>2. SomethingBack(p) <=> p.seat # Nowhere
      BY <2>1 DEF Reservations, InputsAreReal, Books, PlansAreRight
    <2> QED
      BY <2>1, <2>2 DEF Books, PlansAreRight
  <1>2. CASE NewPlan(t, p)
    <2>1. \A u \in Usable : u \in exists \ pending
      BY DEF Usable
    <2>2. RgbInputs(p) \subseteq Spends(p)
      BY DEF Spends
    <2>3. p.seat \notin {Nowhere, t} => p.seat \in exists \ pending
      BY <1>2, PickedIsFree DEF NewPlan
    <2> QED
      BY <1>2, <2>1, <2>2, <2>3 DEF NewPlan
  <1> QED
    BY <1>1, <1>2 DEF SendShape, PlanStep

\* the rows of a plan are as they should be
PlanRows(t, p) ==
    /\ InputRows(t, p) \cup ChangeRows(t, p) \subseteq Coloring
    /\ IsFiniteSet(InputRows(t, p)) /\ IsFiniteSet(ChangeRows(t, p))
    /\ \A c \in InputRows(t, p) :
          /\ c.of = t /\ c.type = "Input" /\ c.txo \in RgbInputs(p)
          /\ [txo |-> c.txo, asset |-> c.asset, amount |-> c.amount] \in p.moved
    /\ \A c \in ChangeRows(t, p) :
          /\ c.of = t /\ c.type = "Change" /\ c.txo = p.seat
          /\ c.amount = Back(p, c.asset) /\ Back(p, c.asset) > 0
          /\ c.txo # Nowhere

\* The rows of a plan are colorings, finitely many, of its transfer: inputs on
\* what it moves, change on its seat.
LEMMA RowsOfPlan ==
    ASSUME FinitenessAssumption, NEW t \in Outgoing, NEW p \in Plan,
           IsFiniteSet(p.moved), SomethingBack(p) => p.seat # Nowhere
    PROVE  PlanRows(t, p)
  <1>1. ASSUME NEW c \in InputRows(t, p)
        PROVE  /\ c.of = t /\ c.type = "Input" /\ c.txo \in RgbInputs(p)
               /\ [txo |-> c.txo, asset |-> c.asset, amount |-> c.amount]
                     \in p.moved
               /\ c \in Coloring
    <2>1. PICK m \in p.moved :
             c = [txo |-> m.txo, of |-> t, type |-> "Input", asset |-> m.asset,
                  amount |-> m.amount]
      BY DEF InputRows
    <2>2. m \in Moved
      BY DEF Plan
    <2>3. m = [txo |-> m.txo, asset |-> m.asset, amount |-> m.amount]
          /\ m.txo \in Txos /\ m.asset \in Assets /\ m.amount \in Nat
      BY <2>2 DEF Moved
    <2>4. c \in Coloring
      BY <2>1, <2>3 DEF Coloring, ColoringType, Transfers
    <2>5. /\ c.of = t /\ c.type = "Input" /\ c.txo = m.txo
          /\ c.asset = m.asset /\ c.amount = m.amount
      BY <2>1
    <2> QED
      BY <2>3, <2>4, <2>5 DEF RgbInputs
  <1>2. ASSUME NEW c \in ChangeRows(t, p)
        PROVE  /\ c.of = t /\ c.type = "Change" /\ c.txo = p.seat
               /\ c.amount = Back(p, c.asset) /\ Back(p, c.asset) > 0
               /\ c.txo # Nowhere
               /\ c \in Coloring /\ c.asset \in Assets
    <2>1. PICK a \in Assets :
             /\ Back(p, a) > 0
             /\ c = [txo |-> p.seat, of |-> t, type |-> "Change", asset |-> a,
                     amount |-> Back(p, a)]
      BY DEF ChangeRows
    <2>2. Back(p, a) \in Nat
      BY <2>1, BackIsInt
    <2>3. p.seat \in Txos
      BY <2>1 DEF SomethingBack, Plan
    <2>4. c \in Coloring
      BY <2>1, <2>2, <2>3 DEF Coloring, ColoringType, Transfers
    <2>5. p.seat # Nowhere
      BY <2>1 DEF SomethingBack
    <2> QED
      BY <2>1, <2>4, <2>5
  <1>3. IsFiniteSet(InputRows(t, p))
    <2> DEFINE f == [c \in InputRows(t, p) |->
                       [txo |-> c.txo, asset |-> c.asset, amount |-> c.amount]]
    <2>1. \A c \in InputRows(t, p) :
             c = [txo |-> c.txo, of |-> t, type |-> "Input",
                  asset |-> c.asset, amount |-> c.amount]
      BY DEF InputRows
    <2>2. \A c, d \in InputRows(t, p) : f[c] = f[d] => c = d
      <3> TAKE c, d \in InputRows(t, p)
      <3>1. HAVE f[c] = f[d]
      <3>2. c.txo = d.txo /\ c.asset = d.asset /\ c.amount = d.amount
        BY <3>1
      <3> QED
        BY <2>1, <3>2
    <2>3. \A c \in InputRows(t, p) : f[c] \in p.moved
      BY <1>1
    <2>4. f \in Injection(InputRows(t, p), p.moved)
      <3>1. f \in [InputRows(t, p) -> p.moved]
        BY <2>3
      <3> HIDE DEF f
      <3> QED
        BY <2>2, <3>1 DEF Injection, IsInjective
    <2> QED
      BY <2>4, FS_Injection
  <1>4. IsFiniteSet(ChangeRows(t, p))
    <2> DEFINE f == [c \in ChangeRows(t, p) |-> c.asset]
    <2>1. \A c \in ChangeRows(t, p) :
             c = [txo |-> p.seat, of |-> t, type |-> "Change",
                  asset |-> c.asset, amount |-> Back(p, c.asset)]
      BY DEF ChangeRows
    <2>2. f \in Injection(ChangeRows(t, p), Assets)
      BY <1>2, <2>1 DEF Injection, IsInjective
    <2> QED
      BY <2>2, FS_Injection DEF FinitenessAssumption
  <1> QED
    BY <1>1, <1>2, <1>3, <1>4 DEF PlanRows

\* An outgoing step leaves the tables well formed: the rows it saves have their
\* TXO and their transfer (save_transfers).
LEMMA SendTypes ==
    ASSUME FinitenessAssumption, Reservations, Books,
           NEW t \in Outgoing, SendShape(t)
    PROVE  /\ TypeOK' /\ IsFiniteSet(coloring')
           /\ \A t2 \in Outgoing : IsFiniteSet(plan'[t2].moved)
  <1> DEFINE p == plan'[t]
  <1>1. /\ p \in Plan /\ IsFiniteSet(p.moved)
        /\ Spends(p) \subseteq exists
        /\ p.seat \notin {Nowhere, t} => p.seat \in exists
        /\ SomethingBack(p) <=> p.seat # Nowhere
    BY PlanAfter
  <1> HIDE DEF p
  <1>2. TypeOK /\ t \in Txos /\ t \in Transfers
    BY DEF Books, Txos, Transfers
  <1>3. plan' \in [Outgoing -> Plan]
    BY <1>1, <1>2 DEF TypeOK, SendShape, PlanStep, p
  <1>4. \A t2 \in Outgoing : IsFiniteSet(plan'[t2].moved)
    <2>1. \A t2 \in Outgoing \ {t} : plan'[t2] = plan[t2]
      BY <1>2 DEF TypeOK, SendShape, PlanStep
    <2> QED
      BY <1>1, <2>1 DEF Books, p
  <1>5. RgbInputs(p) \subseteq exists
    BY <1>1 DEF Spends
  <1>6. exists \subseteq known /\ known \subseteq known'
    BY <1>2 DEF TypeOK, SendShape
  <1>7. /\ known' \subseteq Txos /\ exists' \subseteq known'
        /\ spent' \subseteq known' /\ pending' \subseteq known'
    <2>1. known' \subseteq Txos
      BY <1>2 DEF TypeOK, SendShape
    <2>2. pending' \subseteq known' /\ spent \subseteq known' /\ exists \subseteq known'
      BY <1>2, <1>6 DEF TypeOK, SendShape
    <2>3. FlagsStep(t, p)
      BY DEF SendShape, p
    <2> QED
      BY <1>1, <2>1, <2>2, <2>3 DEF FlagsStep
  <1>8. /\ coloring' \subseteq Coloring /\ IsFiniteSet(coloring')
        /\ \A c \in coloring' : c.txo \in known' /\ status'[c.of] # "None"
    <2>1. RowsStep(t, p) /\ StatusStep(t)
      BY DEF SendShape, p
    <2>2. /\ coloring \subseteq Coloring /\ IsFiniteSet(coloring)
          /\ \A c \in coloring : c.txo \in known' /\ c.of \in Transfers
                                 /\ status[c.of] # "None"
      BY <1>2, <1>6 DEF TypeOK, Books, Coloring
    <2>3. CASE coloring' = coloring /\ (status'[t] = "None" <=> status[t] = "None")
      BY <2>1, <2>2, <2>3 DEF StatusStep
    <2>4. CASE /\ status[t] = "None" /\ status'[t] \in Active
               /\ coloring' = coloring \cup InputRows(t, p) \cup ChangeRows(t, p)
               /\ SeatRow(t, p) \subseteq known'
      <3>1. /\ InputRows(t, p) \cup ChangeRows(t, p) \subseteq Coloring
            /\ IsFiniteSet(InputRows(t, p)) /\ IsFiniteSet(ChangeRows(t, p))
            /\ \A c \in InputRows(t, p) : c.of = t /\ c.txo \in RgbInputs(p)
            /\ \A c \in ChangeRows(t, p) :
                  c.of = t /\ c.txo = p.seat /\ c.txo # Nowhere
        <4>1. PlanRows(t, p)
          BY <1>1, RowsOfPlan
        <4> QED
          BY <4>1 DEF PlanRows
      <3>2. IsFiniteSet(coloring \cup InputRows(t, p))
        BY <2>2, <3>1, FS_Union
      <3>3. IsFiniteSet(coloring')
        BY <2>4, <3>1, <3>2, FS_Union
      <3>4. \A c \in ChangeRows(t, p) : c.txo \in known'
        BY <1>1, <1>6, <2>4, <3>1 DEF SeatRow
      <3>5. \A c \in InputRows(t, p) : c.txo \in known'
        BY <1>5, <1>6, <3>1
      <3>6. \A c \in coloring : status'[c.of] # "None"
        BY <2>1, <2>2, <2>4 DEF StatusStep, Active
      <3> QED
        BY <2>2, <2>4, <3>1, <3>3, <3>4, <3>5, <3>6 DEF Active
    <2> QED
      BY <2>1, <2>3, <2>4 DEF RowsStep
  <1>9. /\ status' \in [Transfers -> Status]
        /\ promised' \in [Blind -> Txos \cup {Nowhere}]
        /\ asked' \in [Witness -> Requests \cup {NotAsked}]
        /\ net' \subseteq Outgoing \cup Incoming
        /\ strays' \subseteq Outgoing
        /\ faults' \in 0..MaxFaults
    BY <1>2 DEF TypeOK, SendShape, StatusStep
  <1> QED
    BY <1>3, <1>4, <1>7, <1>8, <1>9 DEF TypeOK

\* An outgoing step saves all the rows of its plan or none (save_transfers).
LEMMA SendRows ==
    ASSUME FinitenessAssumption, Reservations, Books,
           NEW t \in Outgoing, SendShape(t)
    PROVE  RowsAreExact'
  <1> DEFINE p == plan'[t]
  <1>1. /\ p \in Plan /\ IsFiniteSet(p.moved)
        /\ SomethingBack(p) <=> p.seat # Nowhere
    BY PlanAfter
  <1>2. PlanRows(t, p)
    BY <1>1, RowsOfPlan
  <1> HIDE DEF p
  <1>3. /\ RowsAreExact /\ StatusStep(t) /\ RowsStep(t, p)
        /\ promised' = promised
        /\ t \in Transfers /\ Issuance \in Transfers \ {t}
        /\ Incoming \subseteq Transfers \ {t}
    BY DEF Books, SendShape, p, Transfers
  <1>4. \A x : x # t => RowsOf(x)' = RowsOf(x)
    <2>1. \A c \in InputRows(t, p) \cup ChangeRows(t, p) : c.of = t
      BY <1>2 DEF PlanRows
    <2> QED
      BY <1>3, <2>1 DEF RowsStep, RowsOf
  <1>5. \A t2 \in Outgoing \ {t} : plan'[t2] = plan[t2]
    BY DEF Books, TypeOK, SendShape, PlanStep
  <1>6. ASSUME NEW t2 \in Outgoing
        PROVE  RowsOf(t2)' =
                  IF status'[t2] = "None" THEN {}
                  ELSE InputRows(t2, plan'[t2]) \cup ChangeRows(t2, plan'[t2])
    <2>1. CASE t2 # t
      <3>1. /\ RowsOf(t2)' = RowsOf(t2) /\ status'[t2] = status[t2]
            /\ plan'[t2] = plan[t2]
        BY <1>3, <1>4, <1>5, <2>1 DEF StatusStep, Transfers
      <3> QED
        BY <1>3, <3>1 DEF RowsAreExact
    <2>2. CASE t2 = t
      <3>1. CASE coloring' = coloring /\ (status'[t] = "None" <=> status[t] = "None")
        <4>1. status[t] # "None" => p = plan[t]
          BY DEF SendShape, PlanStep, Reservations, WasBegun, p
        <4>2. RowsOf(t)' = RowsOf(t)
          BY <3>1 DEF RowsOf
        <4> QED
          BY <1>3, <2>2, <3>1, <4>1, <4>2 DEF RowsAreExact, p
      <3>2. CASE /\ status[t] = "None" /\ status'[t] \in Active
                 /\ coloring' = coloring \cup InputRows(t, p) \cup ChangeRows(t, p)
        <4>1. RowsOf(t) = {}
          BY <1>3, <3>2 DEF RowsAreExact
        <4>2. RowsOf(t)' = InputRows(t, p) \cup ChangeRows(t, p)
          <5>1. \A c \in InputRows(t, p) \cup ChangeRows(t, p) : c.of = t
            BY <1>2 DEF PlanRows
          <5> QED
            BY <3>2, <4>1, <5>1 DEF RowsOf
        <4> QED
          BY <2>2, <3>2, <4>2 DEF p, Active
      <3> QED
        BY <1>3, <3>1, <3>2 DEF RowsStep
    <2> QED
      BY <2>1, <2>2
  <1>7. \A x \in Incoming : \A c \in RowsOf(x)' : c.type = "Receive" /\ c.txo = Seat(x)'
    <2>1. \A x \in Incoming : RowsOf(x)' = RowsOf(x) /\ Seat(x)' = Seat(x)
      BY <1>3, <1>4 DEF Seat
    <2> QED
      BY <1>3, <2>1 DEF RowsAreExact
  <1>8. RowsOf(Issuance)' = Issued /\ status'[Issuance] = "Settled"
    BY <1>3, <1>4 DEF RowsAreExact, StatusStep
  <1> QED
    BY <1>6, <1>7, <1>8 DEF RowsAreExact, Issued

\* An outgoing step marks what it spends, and its change is on a TXO that is there
\* (broadcast_psbt, save_transfers).
LEMMA SendFlags ==
    ASSUME FinitenessAssumption, Reservations, Books,
           NEW t \in Outgoing, SendShape(t)
    PROVE  FlagsAreRight'
  <1> DEFINE p == plan'[t]
  <1>1. /\ p \in Plan /\ IsFiniteSet(p.moved)
        /\ Spends(p) \subseteq exists
        /\ RgbInputs(p) \cap pending = {} /\ RgbInputs(p) \subseteq exists
        /\ p.seat \notin {Nowhere, t} => p.seat \in exists \ pending
        /\ SomethingBack(p) <=> p.seat # Nowhere
    BY PlanAfter DEF Spends
  <1>2. PlanRows(t, p)
    BY <1>1, RowsOfPlan
  <1> HIDE DEF p
  <1>3. /\ FlagsAreRight /\ StatusStep(t) /\ RowsStep(t, p) /\ FlagsStep(t, p)
        /\ pending' = pending /\ t \in Transfers
    BY DEF Books, SendShape, p, Transfers
  <1>4. exists \subseteq exists' /\ spent \subseteq spent'
    BY <1>3 DEF FlagsStep
  <1>5. Utxos \subseteq exists' /\ spent' \subseteq exists' /\ pending' \subseteq Witness
    BY <1>1, <1>3, <1>4 DEF FlagsAreRight, FlagsStep
  <1>6. \A c \in coloring' :
           c.txo \notin exists' \/ c.txo \in pending' => c.txo = c.of
    <2>1. \A c \in coloring :
             c.txo \notin exists' \/ c.txo \in pending' => c.txo = c.of
      BY <1>3, <1>4 DEF FlagsAreRight
    <2>2. \A c \in InputRows(t, p) : c.txo \in exists' \ pending'
      BY <1>1, <1>2, <1>3, <1>4 DEF PlanRows
    <2>3. \A c \in ChangeRows(t, p) : c.txo \in exists' \ pending' \/ c.txo = c.of
      BY <1>1, <1>2, <1>3, <1>4 DEF PlanRows
    <2> QED
      BY <1>3, <2>1, <2>2, <2>3 DEF RowsStep
  <1>7. ASSUME NEW t2 \in Outgoing
        PROVE  /\ status'[t2] \in Going
               /\ status'[t2] \in Out =>
                     /\ Spends(plan'[t2]) \subseteq spent'
                     /\ plan'[t2].own => t2 \in exists'
    <2>1. CASE t2 # t
      <3>1. status'[t2] = status[t2] /\ plan'[t2] = plan[t2]
        BY <1>3, <2>1 DEF Books, TypeOK, SendShape, PlanStep, StatusStep, Transfers
      <3> QED
        BY <1>3, <1>4, <3>1 DEF FlagsAreRight
    <2>2. CASE t2 = t
      <3>1. status'[t] \in Going
        BY <1>3 DEF StatusStep
      <3>2. CASE status[t] \in Out
        <4>1. plan[t] = p
          BY <3>2 DEF SendShape, PlanStep, Reservations, WasBegun, p, Out
        <4> QED
          BY <1>3, <1>4, <2>2, <3>1, <3>2, <4>1 DEF FlagsAreRight, p
      <3>3. CASE status[t] \notin Out /\ status'[t] \in Out
        <4>1. spent' = spent \cup Spends(p) /\ exists' = exists \cup OwnOutput(t, p)
          BY <1>3, <3>3 DEF FlagsStep, Out
        <4> QED
          BY <2>2, <3>1, <4>1 DEF OwnOutput, p
      <3> QED
        BY <2>2, <3>1, <3>2, <3>3
    <2> QED
      BY <2>1, <2>2
  <1> QED
    BY <1>5, <1>6, <1>7 DEF FlagsAreRight

\* The plans stay right: the one that is made was right when it was made, and the
\* TXOs it relies on stay on chain.
LEMMA SendPlans ==
    ASSUME Reservations, Books, NEW t \in Outgoing, SendShape(t)
    PROVE  PlansAreRight'
  <1> DEFINE p == plan'[t]
  <1>1. /\ Spends(p) \subseteq exists
        /\ RgbInputs(p) \cap pending = {}
        /\ p.seat \notin {Nowhere, t} => p.seat \in exists \ pending
        /\ p.seat = t => p.own
        /\ SomethingBack(p) <=> p.seat # Nowhere
        /\ \A a \in Assets : Back(p, a) >= 0
    BY PlanAfter
  <1> HIDE DEF p
  <1>2. exists \subseteq exists' /\ pending' = pending
    BY DEF SendShape, FlagsStep
  <1>3. \A t2 \in Outgoing \ {t} : plan'[t2] = plan[t2]
    BY DEF Books, TypeOK, SendShape, PlanStep
  <1>4. ASSUME NEW t2 \in Outgoing \ {t}
        PROVE  LET q == plan'[t2]
               IN  /\ Spends(q) \subseteq exists'
                   /\ RgbInputs(q) \cap pending' = {}
                   /\ q.seat \notin {Nowhere, t2} => q.seat \in exists' \ pending'
                   /\ q.seat = t2 => q.own
                   /\ SomethingBack(q) => q.seat # Nowhere
                   /\ \A a \in Assets : Back(q, a) >= 0
    BY <1>2, <1>3 DEF Books, PlansAreRight
  <1> QED
    BY <1>1, <1>2, <1>4 DEF PlansAreRight, p

\* An outgoing step does not touch the invoices.
LEMMA SendInvoices ==
    ASSUME Books, NEW t \in Outgoing, SendShape(t)
    PROVE  InvoicesAreRight'
  <1>1. /\ UNCHANGED <<promised, asked, pending>>
        /\ exists \subseteq exists'
        /\ \A x \in Incoming : status'[x] = status[x]
        /\ \A w \in Witness : w \in known' <=> w \in known
        /\ \A w \in Witness : w \in net' <=> w \in net
    BY DEF SendShape, FlagsStep, StatusStep, Transfers, Incoming
  <1>2. InvoicesAreRight
    BY DEF Books
  <1> QED
    BY <1>1, <1>2 DEF InvoicesAreRight, Incoming

(***************************************************************************)
(* The rows and flags after the other steps                                *)
(***************************************************************************)

\* The plans stay right when TXOs are found and a TXO becomes pending only if
\* it was not there.
LEMMA PlansKept ==
    ASSUME Books, plan' = plan, exists \subseteq exists',
           \A u \in pending' : u \in pending \/ u \notin exists
    PROVE  PlansAreRight'
  <1>1. ASSUME NEW t \in Outgoing
        PROVE  LET q == plan'[t]
               IN  /\ Spends(q) \subseteq exists'
                   /\ RgbInputs(q) \cap pending' = {}
                   /\ q.seat \notin {Nowhere, t} => q.seat \in exists' \ pending'
                   /\ q.seat = t => q.own
                   /\ SomethingBack(q) => q.seat # Nowhere
                   /\ \A a \in Assets : Back(q, a) >= 0
    BY DEF Books, PlansAreRight, Spends
  <1> QED
    BY <1>1 DEF PlansAreRight

\* The rows stay right when none is written.
LEMMA RowsKept ==
    ASSUME Books, coloring' = coloring, plan' = plan,
           \A t \in Outgoing : status'[t] = status[t],
           status'[Issuance] = status[Issuance],
           \A x \in Incoming : status[x] # "None" => Seat(x)' = Seat(x)
    PROVE  RowsAreExact'
  <1>1. \A x : RowsOf(x)' = RowsOf(x)
    BY DEF RowsOf
  <1>2. RowsAreExact
    BY DEF Books
  <1>3. \A x \in Incoming : \A c \in RowsOf(x) : status[x] # "None"
    BY DEF Books, TypeOK, RowsOf
  <1> QED
    BY <1>1, <1>2, <1>3 DEF RowsAreExact, Issued

\* The typing of what a step leaves alone or only extends.
LEMMA TypesKept ==
    ASSUME Books, UNCHANGED <<coloring, plan, spent, strays, faults>>,
           status' \in [Transfers -> Status],
           \A x \in Transfers : status[x] # "None" => status'[x] # "None",
           known \subseteq known', known' \subseteq Txos, exists' \subseteq known',
           pending' \subseteq known',
           promised' \in [Blind -> Txos \cup {Nowhere}],
           asked' \in [Witness -> Requests \cup {NotAsked}],
           net' \subseteq Outgoing \cup Incoming
    PROVE  TypeOK' /\ IsFiniteSet(coloring)'
           /\ (\A t \in Outgoing : IsFiniteSet(plan[t].moved))'
  <1>1. TypeOK /\ IsFiniteSet(coloring)
        /\ (\A t \in Outgoing : IsFiniteSet(plan[t].moved))
    BY DEF Books
  <1>2. \A c \in coloring : c.of \in Transfers
    BY <1>1 DEF TypeOK, Coloring
  <1> QED
    BY <1>1, <1>2 DEF TypeOK

\* A step that is about an incoming transfer and writes no row.
LEMMA InvoiceFlagsKept ==
    ASSUME Books, UNCHANGED <<coloring, plan, spent>>,
           \A t \in Outgoing : status'[t] = status[t],
           exists \subseteq exists', pending' \subseteq Witness,
           \A c \in coloring : c.txo \in pending' => c.txo \in pending \/ c.txo = c.of
    PROVE  FlagsAreRight'
  <1>1. FlagsAreRight
    BY DEF Books
  <1> QED
    BY <1>1 DEF FlagsAreRight, Spends, RgbInputs

\* Published, wait_safe_height, wait_confirmations before the TX is deep, and
\* a failure: only the status and the network change.
QuietReceive(x) ==
    Published(x) \/ ReachSafeHeight(x) \/ SeeBroadcast(x) \/ FailReceived(x)

QuietShape(x) ==
    /\ UNCHANGED <<coloring, known, exists, spent, pending, plan, promised,
                   asked, strays, faults>>
    /\ net \subseteq net' /\ net' \subseteq net \cup {x}
    /\ status' \in [Transfers -> Status]
    /\ \A y \in Transfers \ {x} : status'[y] = status[y]
    /\ status[x] # "None"
    /\ \/ status'[x] = status[x]
       \/ status'[x] = "Failed"
       \/ /\ status[x] \in {"WaitingSafeHeight", "WaitingBroadcast"}
          /\ status'[x] \in {"WaitingBroadcast", "WaitingConfirmations"}

\* The receiving operations that write no row do no more than that.
LEMMA QuietShapeHolds ==
    ASSUME Books, NEW x \in Incoming, QuietReceive(x)
    PROVE  QuietShape(x)
  <1>1. status \in [Transfers -> Status] /\ x \in Transfers
    BY DEF Books, TypeOK, Transfers
  <1>2. UNCHANGED <<coloring, known, exists, spent, pending, plan, promised,
                    asked, strays, faults>>
    BY DEF QuietReceive, Published, ReachSafeHeight, SeeBroadcast, FailReceived,
       txoVars, invoiceVars
  <1>3. net \subseteq net' /\ net' \subseteq net \cup {x}
    BY DEF QuietReceive, Published, ReachSafeHeight, SeeBroadcast, FailReceived,
       Acknowledge
  <1>4. /\ status[x] # "None"
        /\ \/ status' = status
           \/ status' = [status EXCEPT ![x] = "Failed"]
           \/ /\ status[x] \in {"WaitingSafeHeight", "WaitingBroadcast"}
              /\ \E st \in {"WaitingBroadcast", "WaitingConfirmations"} :
                    status' = [status EXCEPT ![x] = st]
    BY DEF QuietReceive, Published, ReachSafeHeight, SeeBroadcast, FailReceived,
       Acknowledge
  <1>5. /\ status' \in [Transfers -> Status]
        /\ \A y \in Transfers \ {x} : status'[y] = status[y]
        /\ \/ status'[x] = status[x]
           \/ status'[x] = "Failed"
           \/ /\ status[x] \in {"WaitingSafeHeight", "WaitingBroadcast"}
              /\ status'[x] \in {"WaitingBroadcast", "WaitingConfirmations"}
    BY <1>1, <1>4 DEF Status, Pending
  <1> QED
    BY <1>2, <1>3, <1>4, <1>5 DEF QuietShape

\* They keep the books.
LEMMA QuietBooks ==
    ASSUME Books, NEW x \in Incoming, QuietReceive(x)
    PROVE  Books'
  <1>1. QuietShape(x) /\ TypeOK
    BY QuietShapeHolds DEF Books
  <1>2. /\ x \in Transfers /\ Issuance \in Transfers \ {x}
        /\ \A t \in Outgoing : t \in Transfers \ {x}
        /\ \A y \in Incoming : y \in Transfers
    BY DEF Transfers, Incoming
  <1>3. /\ \A t \in Outgoing : status'[t] = status[t]
        /\ status'[Issuance] = status[Issuance]
    BY <1>1, <1>2 DEF QuietShape
  <1>4. /\ TypeOK' /\ IsFiniteSet(coloring)'
        /\ (\A t \in Outgoing : IsFiniteSet(plan[t].moved))'
    <2>1. net' \subseteq Outgoing \cup Incoming
      BY <1>1 DEF QuietShape, TypeOK
    <2>2. \A y \in Transfers : status[y] # "None" => status'[y] # "None"
      BY <1>1 DEF QuietShape
    <2> QED
      BY <1>1, <2>1, <2>2, TypesKept DEF QuietShape, TypeOK
  <1>5. RowsAreExact'
    BY <1>1, <1>3, RowsKept DEF QuietShape, Seat
  <1>6. FlagsAreRight'
    BY <1>1, <1>3, InvoiceFlagsKept DEF QuietShape, Books, FlagsAreRight
  <1>7. PlansAreRight'
    BY <1>1, PlansKept DEF QuietShape
  <1>8. InvoicesAreRight'
    <2>1. InvoicesAreRight
      BY DEF Books
    <2>2. /\ UNCHANGED <<known, exists, pending, promised, asked>>
          /\ \A y \in Blind \cup Witness :
                /\ status'[y] = "None" <=> status[y] = "None"
                /\ status'[y] = "WaitingCounterparty" =>
                      status[y] = "WaitingCounterparty"
                /\ status'[y] \in {"WaitingSafeHeight", "WaitingBroadcast",
                                   "WaitingConfirmations", "Settled"} =>
                      /\ status[y] \in {"WaitingSafeHeight", "WaitingBroadcast",
                                        "WaitingConfirmations", "Settled"}
                      /\ status'[y] = "Settled" => status[y] = "Settled"
          /\ \A y \in Blind \cup Witness :
                status[y] = "None" => (y \in net' <=> y \in net)
      BY <1>1, <1>2 DEF QuietShape, Incoming
    <2> QED
      BY <2>1, <2>2 DEF InvoicesAreRight
  <1> QED
    BY <1>4, <1>5, <1>6, <1>7, <1>8 DEF Books

\* An accepted consignment writes one row on the TXO of its invoice, which is there
\* or comes to be known and pending (validate_received_consignment).
LEMMA AcceptBooks ==
    ASSUME AmountAssumption, Reservations, Books, NEW x \in Incoming, Accept(x)
    PROVE  Books'
  <1>1. PICK a \in Assets, n \in Gifts :
           coloring' = coloring \cup
              {[txo |-> Seat(x), of |-> x, type |-> "Receive", asset |-> a,
                amount |-> n]}
    BY DEF Accept
  <1> DEFINE r == [txo |-> Seat(x), of |-> x, type |-> "Receive", asset |-> a,
                   amount |-> n]
  <1>2. /\ r.txo = Seat(x) /\ r.of = x /\ r.type = "Receive" /\ r.asset = a
        /\ r.amount = n /\ coloring' = coloring \cup {r}
    BY <1>1
  <1>3. /\ status[x] = "WaitingCounterparty"
        /\ known' = known \cup {Seat(x)}
        /\ pending' = IF x \in Witness \ known THEN pending \cup {x} ELSE pending
        /\ UNCHANGED <<exists, spent, plan, promised, asked, strays, faults>>
    BY DEF Accept, invoiceVars
  <1>4. /\ status \in [Transfers -> Status] /\ x \in Transfers
        /\ Issuance \in Transfers \ {x} /\ x \notin Outgoing
        /\ \A t \in Outgoing : t \in Transfers \ {x}
        /\ \A y \in Incoming : y \in Transfers
        /\ TypeOK
    BY DEF Books, TypeOK, Transfers
  <1>5. /\ status' \in [Transfers -> Status]
        /\ \A y \in Transfers \ {x} : status'[y] = status[y]
        /\ status'[x] \in {"WaitingSafeHeight", "WaitingBroadcast",
                           "WaitingConfirmations"}
        /\ net' \in {net, net \cup {x}}
    BY <1>3, <1>4 DEF Accept, Acknowledge, Status, Pending
  <1>6. x \in Blind => promised[x] \in (known \cap exists) \ pending
    BY <1>3 DEF Reservations, PromisedIsReal, Books, InvoicesAreRight
  <1>7. Seat(x) \in Txos /\ (Seat(x) \in exists \ pending \/ Seat(x) = x)
    BY <1>4, <1>6 DEF Seat, Incoming, Txos, TypeOK
  <1>8. r \in Coloring
    BY <1>4, <1>7 DEF Coloring, ColoringType, AmountAssumption
  <1> HIDE DEF r
  <1>9. /\ TypeOK' /\ IsFiniteSet(coloring)'
        /\ (\A t \in Outgoing : IsFiniteSet(plan[t].moved))'
    <2>1. IsFiniteSet(coloring')
      BY <1>2, FS_AddElement DEF Books
    <2>2. coloring' \subseteq Coloring
      BY <1>2, <1>4, <1>8 DEF TypeOK
    <2>3. /\ known' \subseteq Txos /\ exists' \subseteq known'
          /\ spent' \subseteq known' /\ pending' \subseteq known'
      BY <1>3, <1>4, <1>7 DEF TypeOK, Seat
    <2>4. net' \subseteq Outgoing \cup Incoming
      BY <1>4, <1>5 DEF TypeOK
    <2>5. \A c \in coloring' : c.txo \in known' /\ status'[c.of] # "None"
      <3>1. \A c \in coloring : c.of \in Transfers /\ c.txo \in known
                                 /\ status[c.of] # "None"
        BY <1>4 DEF TypeOK, Coloring
      <3> QED
        BY <1>2, <1>3, <1>5, <3>1
    <2>6. /\ plan' \in [Outgoing -> Plan]
          /\ promised' \in [Blind -> Txos \cup {Nowhere}]
          /\ asked' \in [Witness -> Requests \cup {NotAsked}]
          /\ strays' \subseteq Outgoing /\ faults' \in 0..MaxFaults
      BY <1>3, <1>4 DEF TypeOK
    <2>7. TypeOK'
      BY <1>5, <2>2, <2>3, <2>4, <2>5, <2>6 DEF TypeOK
    <2> QED
      BY <1>3, <2>1, <2>7 DEF Books
  <1>10. RowsAreExact'
    <2>1. RowsAreExact
      BY DEF Books
    <2>2. \A y : y # x => RowsOf(y)' = RowsOf(y)
      BY <1>2 DEF RowsOf
    <2>3. RowsOf(x)' = RowsOf(x) \cup {r}
      BY <1>2 DEF RowsOf
    <2>4. \A y \in Incoming : Seat(y)' = Seat(y)
      BY <1>3 DEF Seat
    <2>5. \A y \in Incoming : \A c \in RowsOf(y)' :
             c.type = "Receive" /\ c.txo = Seat(y)'
      BY <1>2, <2>1, <2>2, <2>3, <2>4 DEF RowsAreExact
    <2>6. ASSUME NEW t \in Outgoing
          PROVE  RowsOf(t)' = IF status'[t] = "None" THEN {}
                     ELSE InputRows(t, plan'[t]) \cup ChangeRows(t, plan'[t])
      BY <1>3, <1>4, <1>5, <2>1, <2>2 DEF RowsAreExact
    <2>7. RowsOf(Issuance)' = Issued /\ status'[Issuance] = "Settled"
      BY <1>4, <1>5, <2>1, <2>2 DEF RowsAreExact
    <2> QED
      BY <2>5, <2>6, <2>7 DEF RowsAreExact, Issued
  <1>11. FlagsAreRight'
    <2>1. FlagsAreRight
      BY DEF Books
    <2>2. pending' \subseteq Witness
      BY <1>3, <2>1 DEF FlagsAreRight
    <2>3. r.txo \notin exists \/ r.txo \in pending' => r.txo = r.of
      BY <1>2, <1>3, <1>7
    <2>4. \A c \in coloring : c.txo \in pending' => c.txo \in pending \/ c.txo = c.of
      <3>1. \A c \in coloring : c.txo \in known
        BY <1>4 DEF TypeOK
      <3> QED
        BY <1>3, <3>1
    <2>5. \A c \in coloring' :
             c.txo \notin exists' \/ c.txo \in pending' => c.txo = c.of
      BY <1>2, <1>3, <2>1, <2>3, <2>4 DEF FlagsAreRight
    <2>6. \A t \in Outgoing : status'[t] = status[t]
      BY <1>4, <1>5
    <2> QED
      BY <1>3, <2>1, <2>2, <2>5, <2>6 DEF FlagsAreRight, Spends, RgbInputs
  <1>12. PlansAreRight'
    <2>1. \A u \in pending' : u \in pending \/ u \notin exists
      BY <1>3, <1>4 DEF TypeOK
    <2> QED
      BY <1>3, <2>1, PlansKept
  <1>13. InvoicesAreRight'
    <2>1. InvoicesAreRight
      BY DEF Books
    <2>2. ASSUME NEW b \in Blind
          PROVE  /\ promised'[b] = Nowhere => status'[b] = "None"
                 /\ status'[b] # "None" => promised'[b] \in exists' \ pending'
      <3>1. promised'[b] = promised[b] /\ exists' = exists
            /\ (status'[b] = "None" <=> status[b] = "None")
        BY <1>3, <1>4, <1>5 DEF Incoming
      <3>2. promised[b] \in exists => promised[b] \in known
        BY <1>4 DEF TypeOK
      <3> QED
        BY <1>3, <2>1, <3>1, <3>2 DEF InvoicesAreRight
    <2>3. ASSUME NEW w \in Witness
          PROVE  /\ asked'[w] = NotAsked =>
                       status'[w] = "None" /\ w \notin known' /\ w \notin net'
                 /\ status'[w] = "WaitingCounterparty" =>
                       w \in pending' \/ w \notin known'
                 /\ status'[w] \in {"WaitingSafeHeight", "WaitingBroadcast",
                                    "WaitingConfirmations", "Settled"} => w \in known'
                 /\ status'[w] = "Settled" => w \notin pending'
      <3>1. CASE w = x
        <4>1. Seat(x) = x
          BY <3>1 DEF Seat
        <4> QED
          BY <1>3, <1>5, <2>1, <3>1, <4>1 DEF InvoicesAreRight
      <3>2. CASE w # x
        <4>1. status'[w] = status[w] /\ w \in Transfers
          BY <1>4, <1>5, <3>2 DEF Incoming
        <4>2. w # Seat(x) \/ w \in known
          BY <1>4, <1>7, <3>2 DEF TypeOK
        <4> QED
          BY <1>3, <1>5, <2>1, <3>2, <4>1, <4>2 DEF InvoicesAreRight
      <3> QED
        BY <3>1, <3>2
    <2> QED
      BY <2>2, <2>3 DEF InvoicesAreRight
  <1> QED
    BY <1>9, <1>10, <1>11, <1>12, <1>13 DEF Books

\* A settled invoice is no longer pending, and its output may be found
\* (wait_confirmations).
LEMMA SettleBooks ==
    ASSUME Books, NEW x \in Incoming, SettleReceived(x)
    PROVE  Books'
  <1>1. /\ status[x] \in {"WaitingBroadcast", "WaitingConfirmations"}
        /\ status' = [status EXCEPT ![x] = "Settled"]
        /\ pending' = pending \ {x}
        /\ UNCHANGED <<coloring, spent, plan, promised, asked, net, strays, faults>>
        /\ \/ x \in Witness /\ exists' = exists \cup {x} /\ known' = known \cup {x}
           \/ UNCHANGED <<known, exists>>
    BY DEF SettleReceived, FoundTxo, invoiceVars
  <1>2. /\ status \in [Transfers -> Status] /\ x \in Transfers
        /\ Issuance \in Transfers \ {x}
        /\ \A t \in Outgoing : t \in Transfers \ {x}
        /\ \A y \in Incoming : y \in Transfers
        /\ TypeOK
    BY DEF Books, TypeOK, Transfers
  <1>3. /\ status' \in [Transfers -> Status] /\ status'[x] = "Settled"
        /\ \A y \in Transfers \ {x} : status'[y] = status[y]
    BY <1>1, <1>2 DEF Status
  <1>4. /\ \A t \in Outgoing : status'[t] = status[t]
        /\ status'[Issuance] = status[Issuance]
    BY <1>2, <1>3
  <1>5. /\ known \subseteq known' /\ known' \subseteq Txos
        /\ exists \subseteq exists' /\ exists' \subseteq known'
        /\ pending' \subseteq known'
    BY <1>1, <1>2 DEF TypeOK, Txos
  <1>6. /\ TypeOK' /\ IsFiniteSet(coloring)'
        /\ (\A t \in Outgoing : IsFiniteSet(plan[t].moved))'
    <2>1. \A y \in Transfers : status[y] # "None" => status'[y] # "None"
      BY <1>3
    <2> QED
      BY <1>1, <1>2, <1>3, <1>5, <2>1, TypesKept DEF TypeOK
  <1>7. RowsAreExact'
    BY <1>1, <1>4, RowsKept DEF Seat
  <1>8. FlagsAreRight'
    <2>1. pending' \subseteq Witness
      BY <1>1 DEF Books, FlagsAreRight
    <2> QED
      BY <1>1, <1>4, <1>5, <2>1, InvoiceFlagsKept
  <1>9. PlansAreRight'
    BY <1>1, <1>5, PlansKept
  <1>10. InvoicesAreRight'
    <2>1. InvoicesAreRight
      BY DEF Books
    <2>2. ASSUME NEW b \in Blind
          PROVE  /\ promised'[b] = Nowhere => status'[b] = "None"
                 /\ status'[b] # "None" => promised'[b] \in exists' \ pending'
      <3>1. promised'[b] = promised[b]
            /\ (status'[b] = "None" <=> status[b] = "None")
        BY <1>1, <1>2, <1>3 DEF Incoming
      <3> QED
        BY <1>1, <1>5, <2>1, <3>1 DEF InvoicesAreRight
    <2>3. ASSUME NEW w \in Witness
          PROVE  /\ asked'[w] = NotAsked =>
                       status'[w] = "None" /\ w \notin known' /\ w \notin net'
                 /\ status'[w] = "WaitingCounterparty" =>
                       w \in pending' \/ w \notin known'
                 /\ status'[w] \in {"WaitingSafeHeight", "WaitingBroadcast",
                                    "WaitingConfirmations", "Settled"} => w \in known'
                 /\ status'[w] = "Settled" => w \notin pending'
      <3>1. CASE w = x
        BY <1>1, <1>3, <1>5, <2>1, <3>1 DEF InvoicesAreRight
      <3>2. CASE w # x
        <4>1. status'[w] = status[w]
          BY <1>2, <1>3, <3>2 DEF Incoming
        <4> QED
          BY <1>1, <1>5, <2>1, <3>2, <4>1 DEF InvoicesAreRight
      <3> QED
        BY <3>1, <3>2
    <2> QED
      BY <2>2, <2>3 DEF InvoicesAreRight
  <1> QED
    BY <1>6, <1>7, <1>8, <1>9, <1>10 DEF Books

\* A blind invoice promises a TXO that is there and not pending (blind_receive).
LEMMA BlindBooks ==
    ASSUME Reservations, Books, NEW b \in Blind, BlindReceive(b)
    PROVE  Books'
  <1>1. PICK u \in Pick({}) : promised' = [promised EXCEPT ![b] = u]
    BY DEF BlindReceive
  <1>2. /\ promised[b] = Nowhere
        /\ UNCHANGED <<coloring, known, exists, spent, pending, plan, asked, net,
                       strays, faults>>
        /\ status' = [status EXCEPT ![b] = "WaitingCounterparty"]
    BY DEF BlindReceive, txoVars
  <1>3. /\ status \in [Transfers -> Status] /\ b \in Transfers /\ b \in Incoming
        /\ Issuance \in Transfers \ {b}
        /\ \A t \in Outgoing : t \in Transfers \ {b}
        /\ \A y \in Incoming : y \in Transfers
        /\ b \notin Witness
        /\ TypeOK
    BY DEF Books, TypeOK, Transfers, Incoming
  <1>4. u \in (known \cap exists) \ pending /\ u \in Txos
    BY <1>3, PickedIsFree DEF TypeOK
  <1>5. /\ status' \in [Transfers -> Status]
        /\ status'[b] = "WaitingCounterparty"
        /\ \A y \in Transfers \ {b} : status'[y] = status[y]
        /\ promised' \in [Blind -> Txos \cup {Nowhere}]
        /\ promised'[b] = u /\ \A c \in Blind \ {b} : promised'[c] = promised[c]
    BY <1>1, <1>2, <1>3, <1>4 DEF Status, Pending, TypeOK
  <1>6. /\ \A t \in Outgoing : status'[t] = status[t]
        /\ status'[Issuance] = status[Issuance]
    BY <1>3, <1>5
  <1>7. status[b] = "None"
    BY <1>2 DEF Books, InvoicesAreRight
  <1>8. /\ TypeOK' /\ IsFiniteSet(coloring)'
        /\ (\A t \in Outgoing : IsFiniteSet(plan[t].moved))'
    <2>1. \A y \in Transfers : status[y] # "None" => status'[y] # "None"
      BY <1>5
    <2> QED
      BY <1>2, <1>3, <1>5, <2>1, TypesKept DEF TypeOK
  <1>9. RowsAreExact'
    <2>1. \A x \in Incoming : status[x] # "None" => Seat(x)' = Seat(x)
      BY <1>5, <1>7 DEF Seat
    <2> QED
      BY <1>2, <1>6, <2>1, RowsKept
  <1>10. FlagsAreRight'
    BY <1>2, <1>6, InvoiceFlagsKept DEF Books, FlagsAreRight
  <1>11. PlansAreRight'
    BY <1>2, PlansKept
  <1>12. InvoicesAreRight'
    <2>1. InvoicesAreRight
      BY DEF Books
    <2>2. \A w \in Witness : status'[w] = status[w]
      BY <1>3, <1>5 DEF Incoming
    <2>3. ASSUME NEW c \in Blind
          PROVE  /\ promised'[c] = Nowhere => status'[c] = "None"
                 /\ status'[c] # "None" => promised'[c] \in exists' \ pending'
      <3>1. CASE c = b
        <4>1. Nowhere \notin Txos
          OBVIOUS
        <4> QED
          BY <1>2, <1>4, <1>5, <3>1, <4>1
      <3>2. CASE c # b
        <4>1. status'[c] = status[c] /\ promised'[c] = promised[c]
          BY <1>3, <1>5, <3>2 DEF Incoming
        <4> QED
          BY <1>2, <2>1, <4>1 DEF InvoicesAreRight
      <3> QED
        BY <3>1, <3>2
    <2> QED
      BY <1>2, <2>1, <2>2, <2>3 DEF InvoicesAreRight
  <1> QED
    BY <1>8, <1>9, <1>10, <1>11, <1>12 DEF Books

\* A witness invoice touches no TXO (witness_receive).
LEMMA WitnessBooks ==
    ASSUME AmountAssumption, Books, NEW w \in Witness, WitnessReceive(w)
    PROVE  Books'
  <1>1. PICK n \in Requests : asked' = [asked EXCEPT ![w] = n]
    BY DEF WitnessReceive
  <1>2. /\ asked[w] = NotAsked
        /\ UNCHANGED <<coloring, known, exists, spent, pending, plan, promised,
                       net, strays, faults>>
        /\ status' = [status EXCEPT ![w] = "WaitingCounterparty"]
    BY DEF WitnessReceive, txoVars
  <1>3. /\ status \in [Transfers -> Status] /\ w \in Transfers /\ w \in Incoming
        /\ Issuance \in Transfers \ {w}
        /\ \A t \in Outgoing : t \in Transfers \ {w}
        /\ \A y \in Incoming : y \in Transfers
        /\ w \notin Blind
        /\ TypeOK
    BY DEF Books, TypeOK, Transfers, Incoming
  <1>4. /\ status' \in [Transfers -> Status]
        /\ status'[w] = "WaitingCounterparty"
        /\ \A y \in Transfers \ {w} : status'[y] = status[y]
        /\ asked' \in [Witness -> Requests \cup {NotAsked}]
        /\ \A v \in Witness \ {w} : asked'[v] = asked[v]
    BY <1>1, <1>2, <1>3 DEF Status, Pending, TypeOK
  <1>5. /\ \A t \in Outgoing : status'[t] = status[t]
        /\ status'[Issuance] = status[Issuance]
    BY <1>3, <1>4
  <1>6. InvoicesAreRight
    BY DEF Books
  <1>7. w \notin known /\ asked'[w] \in Nat
    <2>1. asked'[w] = n
      BY <1>1, <1>3 DEF TypeOK
    <2> QED
      BY <1>2, <1>6, <2>1 DEF InvoicesAreRight, AmountAssumption
  <1>8. /\ TypeOK' /\ IsFiniteSet(coloring)'
        /\ (\A t \in Outgoing : IsFiniteSet(plan[t].moved))'
    <2>1. \A y \in Transfers : status[y] # "None" => status'[y] # "None"
      BY <1>4
    <2> QED
      BY <1>2, <1>3, <1>4, <2>1, TypesKept DEF TypeOK
  <1>9. RowsAreExact'
    BY <1>2, <1>5, RowsKept DEF Seat
  <1>10. FlagsAreRight'
    BY <1>2, <1>5, InvoiceFlagsKept DEF Books, FlagsAreRight
  <1>11. PlansAreRight'
    BY <1>2, PlansKept
  <1>12. InvoicesAreRight'
    <2>1. \A b \in Blind : status'[b] = status[b]
      BY <1>3, <1>4 DEF Incoming
    <2>2. ASSUME NEW v \in Witness
          PROVE  /\ asked'[v] = NotAsked =>
                       status'[v] = "None" /\ v \notin known' /\ v \notin net'
                 /\ status'[v] = "WaitingCounterparty" =>
                       v \in pending' \/ v \notin known'
                 /\ status'[v] \in {"WaitingSafeHeight", "WaitingBroadcast",
                                    "WaitingConfirmations", "Settled"} => v \in known'
                 /\ status'[v] = "Settled" => v \notin pending'
      <3>1. CASE v = w
        BY <1>2, <1>4, <1>7, <3>1 DEF NotAsked
      <3>2. CASE v # w
        <4>1. status'[v] = status[v] /\ asked'[v] = asked[v]
          BY <1>3, <1>4, <3>2 DEF Incoming
        <4> QED
          BY <1>2, <1>6, <4>1 DEF InvoicesAreRight
      <3> QED
        BY <3>1, <3>2
    <2> QED
      BY <1>2, <1>6, <2>1, <2>2 DEF InvoicesAreRight
  <1> QED
    BY <1>8, <1>9, <1>10, <1>11, <1>12 DEF Books

\* A synchronisation finds the output of a published TX
\* (update_db_colored_txos_from_bdk).
LEMMA SyncBooks ==
    ASSUME Books, NEW x \in Outgoing \cup Witness, SyncTxo(x)
    PROVE  Books'
  <1>1. /\ x \in net /\ x \notin exists
        /\ exists' = exists \cup {x} /\ known' = known \cup {x}
        /\ pending' = IF x \in Witness \ known THEN pending \cup {x} ELSE pending
        /\ UNCHANGED <<status, coloring, spent, plan, promised, asked, net,
                       strays, faults>>
    BY DEF SyncTxo, FoundTxo, invoiceVars
  <1>2. TypeOK /\ x \in Txos
    BY DEF Books, Txos
  <1>3. /\ known' \subseteq Txos /\ exists' \subseteq known'
        /\ pending' \subseteq known'
    BY <1>1, <1>2 DEF TypeOK
  <1>4. /\ TypeOK' /\ IsFiniteSet(coloring)'
        /\ (\A t \in Outgoing : IsFiniteSet(plan[t].moved))'
    BY <1>1, <1>2, <1>3, TypesKept DEF TypeOK
  <1>5. RowsAreExact'
    BY <1>1, RowsKept DEF Seat
  <1>6. FlagsAreRight'
    <2>1. pending' \subseteq Witness
      BY <1>1 DEF Books, FlagsAreRight
    <2>2. \A c \in coloring : c.txo \in pending' => c.txo \in pending \/ c.txo = c.of
      BY <1>1, <1>2 DEF TypeOK
    <2> QED
      BY <1>1, <2>1, <2>2, InvoiceFlagsKept
  <1>7. PlansAreRight'
    <2>1. \A u \in pending' : u \in pending \/ u \notin exists
      BY <1>1, <1>2 DEF TypeOK
    <2> QED
      BY <1>1, <2>1, PlansKept
  <1>8. InvoicesAreRight'
    <2>1. InvoicesAreRight
      BY DEF Books
    <2>2. ASSUME NEW b \in Blind
          PROVE  /\ promised'[b] = Nowhere => status'[b] = "None"
                 /\ status'[b] # "None" => promised'[b] \in exists' \ pending'
      BY <1>1, <2>1 DEF InvoicesAreRight
    <2>3. ASSUME NEW w \in Witness
          PROVE  /\ asked'[w] = NotAsked =>
                       status'[w] = "None" /\ w \notin known' /\ w \notin net'
                 /\ status'[w] = "WaitingCounterparty" =>
                       w \in pending' \/ w \notin known'
                 /\ status'[w] \in {"WaitingSafeHeight", "WaitingBroadcast",
                                    "WaitingConfirmations", "Settled"} => w \in known'
                 /\ status'[w] = "Settled" => w \notin pending'
      BY <1>1, <2>1 DEF InvoicesAreRight
    <2> QED
      BY <2>2, <2>3 DEF InvoicesAreRight
  <1> QED
    BY <1>4, <1>5, <1>6, <1>7, <1>8 DEF Books

\* A deletion takes the rows of one failed transfer, and of the TXOs only
\* those that nobody else has a row on.
LEMMA DeleteBooks ==
    ASSUME Books, NEW x \in Outgoing \cup Incoming, Delete(x)
    PROVE  Books'
  <1> DEFINE gone == {c.txo : c \in coloring \ coloring'} \ exists
  <1>1. /\ status[x] = "Failed" /\ status' = [status EXCEPT ![x] = "None"]
        /\ coloring' = {c \in coloring : c.of # x}
        /\ known' = known \ gone /\ pending' = pending \ gone
        /\ UNCHANGED <<exists, spent, plan, promised, asked, net, strays, faults>>
    BY DEF Delete, invoiceVars
  <1>2. /\ TypeOK /\ RowsAreExact /\ FlagsAreRight
        /\ x \in Transfers /\ Issuance \in Transfers \ {x}
        /\ Outgoing \subseteq Transfers /\ Incoming \subseteq Transfers
    BY DEF Books, Transfers
  <1>3. /\ status' \in [Transfers -> Status] /\ status'[x] = "None"
        /\ \A y \in Transfers \ {x} : status'[y] = status[y]
    BY <1>1, <1>2 DEF TypeOK, Status
  <1>4. gone \subseteq {x}
    BY <1>1, <1>2 DEF FlagsAreRight
  <1>5. gone \cap exists = {}
    OBVIOUS
  <1> HIDE DEF gone
  <1>6. \A c \in coloring' : c.txo \notin gone
    <2>1. \A c \in coloring : c.txo \in gone => c.txo = c.of
      BY <1>2, <1>5 DEF FlagsAreRight
    <2> QED
      BY <1>1, <1>4, <2>1
  <1>7. TypeOK'
    <2>1. \A c \in coloring' : c \in Coloring /\ c.txo \in known'
                               /\ status'[c.of] # "None"
      BY <1>1, <1>2, <1>3, <1>6 DEF TypeOK, Coloring
    <2>2. /\ known' \subseteq Txos /\ exists' \subseteq known'
          /\ spent' \subseteq known' /\ pending' \subseteq known'
      BY <1>1, <1>2, <1>5 DEF TypeOK, FlagsAreRight
    <2>3. /\ plan' \in [Outgoing -> Plan]
          /\ promised' \in [Blind -> Txos \cup {Nowhere}]
          /\ asked' \in [Witness -> Requests \cup {NotAsked}]
          /\ net' \subseteq Outgoing \cup Incoming
          /\ strays' \subseteq Outgoing /\ faults' \in 0..MaxFaults
      BY <1>1, <1>2 DEF TypeOK
    <2> QED
      BY <1>3, <2>1, <2>2, <2>3 DEF TypeOK
  <1>8. IsFiniteSet(coloring') /\ \A t \in Outgoing : IsFiniteSet(plan'[t].moved)
    BY <1>1, FS_Subset DEF Books
  <1>9. RowsAreExact'
    <2>1. \A y : y # x => RowsOf(y)' = RowsOf(y)
      BY <1>1 DEF RowsOf
    <2>2. RowsOf(x)' = {}
      BY <1>1 DEF RowsOf
    <2>3. ASSUME NEW t \in Outgoing
          PROVE  RowsOf(t)' = IF status'[t] = "None" THEN {}
                     ELSE InputRows(t, plan'[t]) \cup ChangeRows(t, plan'[t])
      BY <1>1, <1>2, <1>3, <2>1, <2>2 DEF RowsAreExact
    <2>4. \A y \in Incoming : \A c \in RowsOf(y)' :
             c.type = "Receive" /\ c.txo = Seat(y)'
      BY <1>1, <1>2, <2>1, <2>2 DEF RowsAreExact, Seat
    <2>5. RowsOf(Issuance)' = Issued /\ status'[Issuance] = "Settled"
      BY <1>2, <1>3, <2>1 DEF RowsAreExact
    <2> QED
      BY <2>3, <2>4, <2>5 DEF RowsAreExact, Issued
  <1>10. FlagsAreRight'
    <2>1. \A t \in Outgoing : status'[t] \in Going
                              /\ (status'[t] \in Out => status[t] = status'[t])
      BY <1>2, <1>3 DEF FlagsAreRight, Going, Out
    <2>2. \A c \in coloring' :
             c.txo \notin exists' \/ c.txo \in pending' => c.txo = c.of
      BY <1>1, <1>2 DEF FlagsAreRight
    <2>3. /\ Utxos \subseteq exists' /\ spent' \subseteq exists'
          /\ pending' \subseteq Witness
      BY <1>1, <1>2 DEF FlagsAreRight
    <2>4. ASSUME NEW t \in Outgoing, status'[t] \in Out
          PROVE  Spends(plan'[t]) \subseteq spent' /\ (plan'[t].own => t \in exists')
      BY <1>1, <1>2, <2>1, <2>4 DEF FlagsAreRight
    <2> QED
      BY <2>1, <2>2, <2>3, <2>4 DEF FlagsAreRight
  <1>11. PlansAreRight'
    BY <1>1, PlansKept
  <1>12. InvoicesAreRight'
    <2>1. InvoicesAreRight
      BY DEF Books
    <2>2. ASSUME NEW b \in Blind
          PROVE  /\ promised'[b] = Nowhere => status'[b] = "None"
                 /\ status'[b] # "None" => promised'[b] \in exists' \ pending'
      BY <1>1, <1>2, <1>3, <2>1 DEF InvoicesAreRight, Incoming
    <2>3. ASSUME NEW w \in Witness
          PROVE  /\ asked'[w] = NotAsked =>
                       status'[w] = "None" /\ w \notin known' /\ w \notin net'
                 /\ status'[w] = "WaitingCounterparty" =>
                       w \in pending' \/ w \notin known'
                 /\ status'[w] \in {"WaitingSafeHeight", "WaitingBroadcast",
                                    "WaitingConfirmations", "Settled"} => w \in known'
                 /\ status'[w] = "Settled" => w \notin pending'
      <3>1. CASE w = x
        BY <1>1, <1>3, <2>1, <3>1 DEF InvoicesAreRight
      <3>2. CASE w # x
        <4>1. status'[w] = status[w] /\ w \notin gone
          BY <1>2, <1>3, <1>4, <3>2 DEF Incoming
        <4> QED
          BY <1>1, <2>1, <4>1 DEF InvoicesAreRight
      <3> QED
        BY <3>1, <3>2
    <2> QED
      BY <2>2, <2>3 DEF InvoicesAreRight
  <1> QED
    BY <1>7, <1>8, <1>9, <1>10, <1>11, <1>12 DEF Books

\* The books are right after issuance.
LEMMA BooksInit ==
    ASSUME FinitenessAssumption, AmountAssumption, BoundAssumption, Init
    PROVE  Books
  <1>1. /\ status \in [Transfers -> Status]
        /\ \A x \in Outgoing \cup Incoming : status[x] = "None"
        /\ status[Issuance] = "Settled"
    BY DEF Init, Transfers, Status
  <1>2. /\ coloring = Issued /\ known = Utxos /\ exists = Utxos /\ spent = {}
        /\ pending = {} /\ \A t \in Outgoing : plan[t] = NoPlan
        /\ \A b \in Blind : promised[b] = Nowhere
        /\ \A w \in Witness : asked[w] = NotAsked
        /\ net = {} /\ strays = {} /\ faults = 0
    BY DEF Init
  <1>3. ASSUME NEW c \in Issued
        PROVE  c \in Coloring /\ c.of = Issuance /\ c.txo \in Utxos
    <2>1. PICK h \in Holding :
             c = [txo |-> h.txo, of |-> Issuance, type |-> "Issue",
                  asset |-> h.asset, amount |-> h.amount]
      BY DEF Issued
    <2>2. h.txo \in Utxos /\ h.asset \in Assets /\ h.amount \in Nat
      BY DEF AmountAssumption
    <2> QED
      BY <2>1, <2>2 DEF Coloring, ColoringType, Transfers, Txos
  <1>4. IsFiniteSet(Issued)
    <2> DEFINE f == [c \in Issued |-> [txo |-> c.txo, asset |-> c.asset,
                                       amount |-> c.amount]]
    <2>1. ASSUME NEW c \in Issued
          PROVE  /\ f[c] \in Holding
                 /\ c = [txo |-> f[c].txo, of |-> Issuance, type |-> "Issue",
                         asset |-> f[c].asset, amount |-> f[c].amount]
      <3>1. PICK h \in Holding :
               c = [txo |-> h.txo, of |-> Issuance, type |-> "Issue",
                    asset |-> h.asset, amount |-> h.amount]
        BY DEF Issued
      <3>2. h = [txo |-> h.txo, asset |-> h.asset, amount |-> h.amount]
        BY DEF AmountAssumption
      <3>3. f[c] = h
        BY <3>1, <3>2
      <3> QED
        BY <3>1, <3>3
    <2>2. f \in [Issued -> Holding]
      BY <2>1
    <2> HIDE DEF f
    <2>3. \A c, d \in Issued : f[c] = f[d] => c = d
      BY <2>1
    <2>4. f \in Injection(Issued, Holding)
      BY <2>2, <2>3 DEF Injection, IsInjective
    <2> QED
      BY <2>4, FS_Injection DEF FinitenessAssumption
  <1>5. NoPlan \in Plan
    BY DEF NoPlan, Plan
  <1>6. TypeOK
    <2>1. /\ plan \in [Outgoing -> Plan]
          /\ promised \in [Blind -> Txos \cup {Nowhere}]
          /\ asked \in [Witness -> Requests \cup {NotAsked}]
      BY <1>5 DEF Init
    <2>2. faults \in 0..MaxFaults
      BY <1>2 DEF BoundAssumption
    <2>3. Utxos \subseteq Txos
      BY DEF Txos
    <2> QED
      BY <1>1, <1>2, <1>3, <2>1, <2>2, <2>3 DEF TypeOK
  <1>7. NoPlan.moved = {} /\ NoPlan.fees = {} /\ NoPlan.seat = Nowhere
        /\ NoPlan.own = FALSE /\ \A a \in Assets : NoPlan.order[a] = 0
    BY DEF NoPlan
  <1>8. IsFiniteSet(coloring) /\ \A t \in Outgoing : IsFiniteSet(plan[t].moved)
    BY <1>2, <1>4, <1>7, FS_EmptySet
  <1>9. RowsAreExact
    <2>1. RowsOf(Issuance) = Issued /\ \A x \in Outgoing \cup Incoming : RowsOf(x) = {}
      BY <1>2, <1>3 DEF RowsOf
    <2> QED
      BY <1>1, <2>1 DEF RowsAreExact
  <1>10. FlagsAreRight
    BY <1>1, <1>2, <1>3 DEF FlagsAreRight, Going, Out
  <1>11. \A a \in Assets : Back(NoPlan, a) = 0
    <2> TAKE a \in Assets
    <2>1. MovedOf(NoPlan, a) = {}
      BY <1>7 DEF MovedOf
    <2>2. Sum(MovedOf(NoPlan, a)) = 0
      BY <2>1, SumOfNone
    <2> QED
      BY <1>7, <2>2 DEF Back
  <1>12. PlansAreRight
    <2>1. RgbInputs(NoPlan) = {} /\ Spends(NoPlan) = {} /\ ~SomethingBack(NoPlan)
      BY <1>7, <1>11 DEF RgbInputs, Spends, SomethingBack
    <2>2. \A t \in Outgoing : t \in Txos /\ t # Nowhere
      BY DEF Txos
    <2> QED
      BY <1>2, <1>7, <1>11, <2>1, <2>2 DEF PlansAreRight
  <1>13. InvoicesAreRight
    <2>1. Witness \cap Utxos = {}
      OBVIOUS
    <2> QED
      BY <1>1, <1>2, <2>1 DEF InvoicesAreRight, Incoming
  <1> QED
    BY <1>6, <1>8, <1>9, <1>10, <1>12, <1>13 DEF Books

\* An outgoing step keeps the books.
LEMMA SendBooks ==
    ASSUME FinitenessAssumption, AmountAssumption, BoundAssumption,
           Reservations, Books, NEW t \in Outgoing, SendStep(t)
    PROVE  Books'
  <1>1. SendShape(t)
    BY SendShapeHolds
  <1> QED
    BY <1>1, SendTypes, SendRows, SendFlags, SendPlans, SendInvoices DEF Books

\* So does every step.
LEMMA BooksNext ==
    ASSUME FinitenessAssumption, AmountAssumption, BoundAssumption,
           Reservations, Books, [Next]_vars
    PROVE  Books'
  <1>1. CASE UNCHANGED vars
    BY <1>1 DEF vars, txoVars, invoiceVars, Books, TypeOK, RowsAreExact, RowsOf,
       Seat, Issued, FlagsAreRight, Spends, RgbInputs, PlansAreRight,
       SomethingBack, Back, MovedOf, InvoicesAreRight
  <1>2. ASSUME NEW t \in Outgoing, SendStep(t) PROVE Books'
    BY <1>2, SendBooks
  <1>3. ASSUME NEW b \in Blind, BlindReceive(b) PROVE Books'
    BY <1>3, BlindBooks
  <1>4. ASSUME NEW w \in Witness, WitnessReceive(w) PROVE Books'
    BY <1>4, WitnessBooks
  <1>5. ASSUME NEW x \in Incoming, ReceiveStep(x) PROVE Books'
    BY <1>5, AcceptBooks, SettleBooks, QuietBooks DEF ReceiveStep, QuietReceive
  <1>6. ASSUME NEW x \in Outgoing \cup Witness, SyncTxo(x) PROVE Books'
    BY <1>6, SyncBooks
  <1>7. ASSUME NEW x \in Outgoing \cup Incoming, Delete(x) PROVE Books'
    BY <1>7, DeleteBooks
  <1> QED
    BY <1>1, <1>2, <1>3, <1>4, <1>5, <1>6, <1>7 DEF Next

\* The rows, flags, plans and invoices of the wallet fit together, whatever it does
\* (save_transfers, validate_received_consignment, broadcast_psbt,
\* delete_batch_transfer).
THEOREM BooksHold == Spec => [](Reservations /\ Books)
  <1>1. Init => Reservations /\ Books
    BY ReservationsInit, BooksInit, FinitenessAssumption, AmountAssumption,
       BoundAssumption
  <1>2. Reservations /\ Books /\ [Next]_vars => (Reservations /\ Books)'
    BY ReservationsNext, BooksNext, FinitenessAssumption, AmountAssumption,
       BoundAssumption
  <1> QED
    BY <1>1, <1>2, PTL DEF Spec

\* The tables stay well formed, the foreign keys of the colorings included, also
\* after deletions (delete_batch_transfer).
THEOREM TypeCorrect == Spec => []TypeOK
  <1>1. Books => TypeOK
    BY DEF Books
  <1> QED
    BY <1>1, BooksHold, PTL

(***************************************************************************)
(* The spendable balance                                                   *)
(***************************************************************************)

\* What is settled of an asset, without what get_asset_balance counts as
\* unspendable, is what the usable TXOs hold of it.
LEMMA SpendableRows ==
    ASSUME Reservations, Books, NEW a \in Assets,
           \A w \in Witness : status[w] = "Settled" => w \in exists
    PROVE  {c \in Of(a) : IsSettled(c)}
              \ {c \in Of(a) : IsSettled(c) /\ c.txo \in known /\ Blocked(c.txo)}
           = UNION {Held(u, a) : u \in Usable}
  <1>1. /\ TypeOK /\ RowsAreExact /\ FlagsAreRight /\ InvoicesAreRight
      BY DEF Books
  <1>2. ASSUME NEW c \in coloring
        PROVE  /\ c.of \in Outgoing \cup Incoming \cup {Issuance}
               /\ c.txo \in known /\ c.txo \in Txos /\ status[c.of] # "None"
               /\ c.type \in ColoringType
    BY <1>1 DEF TypeOK, Coloring, Transfers
  <1>3. ASSUME NEW c \in coloring, ~Comes(c)
        PROVE  c.of \in Outgoing /\ c.txo \in RgbInputs(plan[c.of])
    <2>1. c.of \notin Incoming
      BY <1>1, <1>3 DEF RowsAreExact, RowsOf, Comes
    <2>2. c.of # Issuance
      BY <1>1, <1>3 DEF RowsAreExact, RowsOf, Comes, Issued
    <2>3. c.of \in Outgoing
      BY <1>2, <2>1, <2>2
    <2>4. c \in InputRows(c.of, plan[c.of]) \cup ChangeRows(c.of, plan[c.of])
      BY <1>1, <2>3 DEF RowsAreExact, RowsOf
    <2>5. c \in InputRows(c.of, plan[c.of])
      BY <1>3, <2>4 DEF ChangeRows, Comes
    <2> QED
      BY <2>3, <2>5 DEF InputRows, RgbInputs
  <1>4. ASSUME NEW c \in coloring, ~Comes(c), c.txo \notin spent
        PROVE  status[c.of] \in {"Initiated", "WaitingCounterparty", "Failed"}
    <2>1. c.of \in Outgoing /\ c.txo \in Spends(plan[c.of])
      BY <1>3, <1>4 DEF Spends
    <2>2. status[c.of] \in Going /\ status[c.of] \notin Out
      BY <1>1, <1>4, <2>1 DEF FlagsAreRight
    <2> QED
      BY <1>2, <2>2 DEF Going, Active, Out
  <1>5. ASSUME NEW c \in Of(a), IsSettled(c), ~(c.txo \in known /\ Blocked(c.txo))
        PROVE  c.txo \in Usable /\ c \in Held(c.txo, a)
    <2>1. c \in coloring /\ c.asset = a /\ c \in Rows(c.txo) /\ ~Blocked(c.txo)
      BY <1>2, <1>5 DEF Of, Rows
    <2>2. c.txo \notin spent
      BY <1>5, <2>1 DEF IsSettled, Blocked
    <2>3. Comes(c) /\ status[c.of] = "Settled"
      BY <1>5, <2>2 DEF IsSettled, StatusOf
    <2>4. c.txo \in exists
      <3>1. CASE c.of # c.txo
        BY <1>1, <2>1, <3>1 DEF FlagsAreRight
      <3>2. CASE c.of = c.txo /\ c.of \in Outgoing
        <4>1. c \in InputRows(c.of, plan[c.of]) \cup ChangeRows(c.of, plan[c.of])
          BY <1>1, <1>2, <2>1, <3>2 DEF RowsAreExact, RowsOf
        <4>2. c.txo = plan[c.of].seat
          BY <2>3, <4>1 DEF InputRows, ChangeRows, Comes
        <4>3. plan[c.of].own
          BY <3>2, <4>2 DEF Books, PlansAreRight
        <4> QED
          BY <1>1, <2>3, <3>2, <4>3 DEF FlagsAreRight, Out
      <3>3. CASE c.of = c.txo /\ c.of \in Witness
        BY <2>3, <3>3
      <3>4. CASE c.of = c.txo /\ c.txo \in Utxos
        BY <1>1, <3>4 DEF FlagsAreRight
      <3> QED
        BY <1>2, <2>1, <3>1, <3>2, <3>3, <3>4 DEF Txos
    <2>5. c.txo \notin pending
      <3> SUFFICES ASSUME c.txo \in pending PROVE FALSE
        OBVIOUS
      <3>1. c.txo = c.of /\ c.of \in Witness
        BY <1>1, <2>1 DEF FlagsAreRight
      <3> QED
        BY <1>1, <2>3, <3>1 DEF InvoicesAreRight
    <2>6. ~Reserved(c.txo) /\ ~Awaits(c.txo) /\ PendingBlinded(c.txo) = {}
      BY <2>1, <2>2 DEF Blocked, Reserved, StatusOf
    <2>7. c.txo \in Usable
      BY <1>2, <2>1, <2>2, <2>4, <2>5, <2>6 DEF Usable, Unspent
    <2> QED
      BY <2>1, <2>3, <2>7 DEF Held, StatusOf
  <1>6. ASSUME NEW u \in Usable, NEW c \in Held(u, a)
        PROVE  /\ c \in Of(a) /\ IsSettled(c)
               /\ ~Blocked(c.txo)
    <2>1. /\ c \in coloring /\ c.asset = a /\ c.txo = u /\ status[c.of] = "Settled"
          /\ u \notin spent /\ u \in known
          /\ ~Reserved(u) /\ ~Awaits(u) /\ PendingBlinded(u) = {}
      BY DEF Held, Rows, StatusOf, Usable, Unspent
    <2>2. Comes(c)
      BY <1>4, <2>1
    <2>3. ASSUME NEW d \in Rows(u), ~Comes(d) PROVE status[d.of] = "Failed"
      <3>1. d \in coloring /\ d.txo = u
        BY DEF Rows
      <3>2. status[d.of] \in {"Initiated", "WaitingCounterparty", "Failed"}
        BY <1>4, <2>1, <2>3, <3>1
      <3> QED
        BY <2>1, <2>3, <3>2 DEF Reserved, StatusOf
    <2>4. ~Blocked(u)
      BY <2>1, <2>3 DEF Blocked, StatusOf
    <2> QED
      BY <2>1, <2>2, <2>4 DEF Of, IsSettled, StatusOf
  <1> QED
    BY <1>5, <1>6

\* So the two computations agree.
LEMMA SpendableRight ==
    ASSUME Reservations, Books
    PROVE  SpendableIsUsable
  <1> SUFFICES ASSUME \A w \in Witness : status[w] = "Settled" => w \in exists,
                      NEW a \in Assets
               PROVE  Spendable(a) = Holds(Usable, a)
    BY DEF SpendableIsUsable
  <1> DEFINE S == {c \in Of(a) : IsSettled(c)}
             B == {c \in Of(a) : IsSettled(c) /\ c.txo \in known /\ Blocked(c.txo)}
  <1>1. S \ B = UNION {Held(u, a) : u \in Usable}
    BY SpendableRows
  <1>2. S \subseteq coloring /\ B \subseteq S
    BY DEF Of
  <1>3. Settled(a) = Sum(S) /\ Unspendable(a) = Sum(B)
    BY DEF Settled, Unspendable
  <1>4. IsFiniteSet(coloring) /\ coloring \subseteq Coloring
    BY DEF Books, TypeOK
  <1> HIDE DEF S, B
  <1>5. Sum(S \ B) = Holds(Usable, a)
    BY <1>1 DEF Holds
  <1>6. Amounted(S)
    BY <1>2, <1>4, RowSums
  <1>7. Sum(S) = Sum(B) + Sum(S \ B)
    BY <1>2, <1>6, SumOfParts
  <1>8. Sum(B) \in Int /\ Sum(S \ B) \in Int
    BY <1>2, <1>6, PartAmounted, SumFacts
  <1> QED
    BY <1>3, <1>5, <1>7, <1>8 DEF Spendable

\* The spendable balance is what select_rgb_inputs finds to spend.
THEOREM SpendableCorrect == Spec => []SpendableIsUsable
  <1>1. Reservations /\ Books => SpendableIsUsable
    BY SpendableRight
  <1> QED
    BY <1>1, BooksHold, PTL

(***************************************************************************)
(* What the transfers move                                                 *)
(***************************************************************************)

\* the TXOs that transfers under way or settled move
Used == UNION {RgbInputs(plan[t]) : t \in Moving}
\* and the ones of the transfers that are out
Gone == UNION {RgbInputs(plan[t]) : t \in {x \in Outgoing : status[x] \in Out}}

\* They are on chain, and no query offers them.
LEMMA UsedIsTaken ==
    ASSUME Reservations, Books, NEW t \in Moving, NEW u \in RgbInputs(plan[t])
    PROVE  /\ u \in (known \cap exists) \ pending
           /\ Reserved(u) \/ u \in spent
           /\ u \notin Usable
           /\ \A excluded : u \notin Pick(excluded)
  <1>1. t \in Outgoing /\ status[t] \in Active \cup {"Settled"}
    BY DEF Moving
  <1>2. u \in (known \cap exists) \ pending
    BY <1>1 DEF Reservations, InputsAreReal, Books, PlansAreRight
  <1>3. Reserved(u) \/ u \in spent
    <2>1. CASE status[t] \in Out
      BY <1>1, <2>1 DEF Books, FlagsAreRight, Spends
    <2>2. CASE status[t] \in {"Initiated", "WaitingCounterparty"}
      <3>1. PICK c \in coloring : c.of = t /\ c.txo = u /\ ~Comes(c)
        BY <1>1, <2>2 DEF Reservations, Colored
      <3> QED
        BY <2>2, <3>1 DEF Reserved, Rows, StatusOf
    <2> QED
      BY <1>1, <2>1, <2>2 DEF Active, Out
  <1> QED
    BY <1>2, <1>3, PickedIsFree DEF Usable, Unspent

\* A coloring that gives away is of an outgoing transfer, on what it moves.
LEMMA InputRow ==
    ASSUME Books, NEW c \in coloring, ~Comes(c)
    PROVE  /\ c.of \in Outgoing /\ status[c.of] # "None"
           /\ c \in InputRows(c.of, plan[c.of])
           /\ c.txo \in RgbInputs(plan[c.of])
           /\ [txo |-> c.txo, asset |-> c.asset, amount |-> c.amount]
                 \in plan[c.of].moved
  <1>1. RowsAreExact /\ TypeOK /\ c.of \in Outgoing \cup Incoming \cup {Issuance}
    BY DEF Books, TypeOK, Coloring, Transfers
  <1>2. c.of \notin Incoming
    BY <1>1 DEF RowsAreExact, RowsOf, Comes
  <1>3. c.of # Issuance
    BY <1>1 DEF RowsAreExact, RowsOf, Comes, Issued
  <1>4. c.of \in Outgoing /\ status[c.of] # "None"
    BY <1>1, <1>2, <1>3 DEF TypeOK
  <1>5. c \in InputRows(c.of, plan[c.of]) \cup ChangeRows(c.of, plan[c.of])
    BY <1>1, <1>4 DEF RowsAreExact, RowsOf
  <1>6. c \in InputRows(c.of, plan[c.of])
    BY <1>5 DEF ChangeRows, Comes
  <1>7. PICK m \in plan[c.of].moved :
           c = [txo |-> m.txo, of |-> c.of, type |-> "Input", asset |-> m.asset,
                amount |-> m.amount]
    BY <1>6 DEF InputRows
  <1>8. m \in Moved
    BY <1>1, <1>4 DEF TypeOK, Plan
  <1>9. m = [txo |-> c.txo, asset |-> c.asset, amount |-> c.amount]
        /\ c.txo = m.txo
    <2>1. c.txo = m.txo /\ c.asset = m.asset /\ c.amount = m.amount
      BY <1>7
    <2> QED
      BY <1>8, <2>1 DEF Moved
  <1> QED
    BY <1>4, <1>6, <1>9 DEF RgbInputs

\* On a TXO that is not spent nothing settled gives away.
LEMMA HeldCame ==
    ASSUME Books, NEW u, u \notin spent, NEW a
    PROVE  Held(u, a) = Came(u, a)
  <1>1. ASSUME NEW c \in Held(u, a) PROVE Comes(c)
    <2> SUFFICES ASSUME ~Comes(c) PROVE FALSE
      OBVIOUS
    <2>1. c \in coloring /\ c.txo = u /\ status[c.of] = "Settled"
      BY DEF Held, Rows, StatusOf
    <2>2. c.of \in Outgoing /\ u \in Spends(plan[c.of])
      BY <2>1, InputRow DEF Spends
    <2> QED
      BY <2>1, <2>2 DEF Books, FlagsAreRight, Out
  <1> QED
    BY <1>1 DEF Held, Came

\* What came to some TXOs is the same if it is so on each.
LEMMA CameToSame ==
    ASSUME NEW S, \A u \in S, a \in Assets : Came(u, a)' = Came(u, a)
    PROVE  CameTo(S)' = CameTo(S)
  BY DEF CameTo

\* The moves stay whole if nothing new is under way, nothing comes to the TXOs
\* that are used and what is there stays as it is.
LEMMA MovesKept ==
    ASSUME MovesAreWhole,
           Moving' \subseteq Moving,
           \A t \in Moving : plan'[t] = plan[t],
           \A u \in Used :
              /\ ~Awaits(u)' /\ (PendingBlinded(u) = {})'
              /\ \A a \in Assets : Came(u, a)' = Came(u, a),
           spent' \subseteq Gone'
    PROVE  MovesAreWhole'
  <1>1. \A t \in Moving' : t \in Moving /\ RgbInputs(plan'[t]) = RgbInputs(plan[t])
    OBVIOUS
  <1>2. \A t1, t2 \in Moving' :
           t1 # t2 => RgbInputs(plan'[t1]) \cap RgbInputs(plan'[t2]) = {}
    BY <1>1 DEF MovesAreWhole
  <1>3. ASSUME NEW t \in Moving'
        PROVE  /\ \A u \in RgbInputs(plan'[t]) :
                     ~Awaits(u)' /\ (PendingBlinded(u) = {})'
               /\ plan'[t].moved = CameTo(RgbInputs(plan[t]))'
    <2>1. RgbInputs(plan[t]) \subseteq Used
      BY <1>1, <1>3 DEF Used
    <2>2. PICK S : S = RgbInputs(plan[t])
      OBVIOUS
    <2>3. plan'[t].moved = CameTo(S) /\ RgbInputs(plan[t])' = S
      BY <1>1, <2>2 DEF MovesAreWhole
    <2>4. CameTo(S)' = CameTo(S)
      BY <2>1, <2>2, CameToSame
    <2>5. plan'[t].moved = CameTo(S)'
      BY <2>3, <2>4
    <2>6. plan'[t].moved = CameTo(RgbInputs(plan[t]))'
      BY <2>3, <2>5 DEF CameTo
    <2>7. S \subseteq Used
      BY <2>1, <2>2
    <2> QED
      BY <2>3, <2>6, <2>7
  <1> QED
    BY <1>2, <1>3 DEF MovesAreWhole, Gone

\* A step about one transfer that is not under way: what it brings comes to
\* TXOs that no transfer moves.
LEMMA MovesOfOthers ==
    ASSUME Books, MovesAreWhole, NEW x, plan' = plan, spent' = spent,
           \A y \in Transfers \ {x} : status'[y] = status[y],
           x \in Outgoing => {status[x], status'[x]} \subseteq {"None", "Failed"},
           \A y : y # x => RowsOf(y)' = RowsOf(y),
           \/ status'[x] = status[x] /\ RowsOf(x)' = RowsOf(x)
           \/ {status[x], status'[x]} \subseteq {"None", "Failed"}
           \/ \A c \in RowsOf(x) \cup RowsOf(x)' : Comes(c) => c.txo \notin Used,
           \A b \in Blind :
              promised'[b] \in Used /\ status'[b] = "WaitingCounterparty" =>
                 promised[b] = promised'[b] /\ status[b] = "WaitingCounterparty"
    PROVE  MovesAreWhole'
  <1>1. \A t \in Outgoing : t # x => status'[t] = status[t]
    BY DEF Transfers
  <1>2. Moving' = Moving /\ \A t \in Moving : t # x
    BY <1>1 DEF Moving, Active
  <1>3. \A t \in Outgoing : status'[t] \in Out <=> status[t] \in Out
    BY <1>1 DEF Out
  <1>4. /\ \A c \in coloring : c.of \in Transfers /\ c \in RowsOf(c.of)
        /\ \A c \in coloring' : c \in RowsOf(c.of)'
        /\ \A y : RowsOf(y) \subseteq coloring /\ RowsOf(y)' \subseteq coloring'
        /\ \A y : \A c \in RowsOf(y) \cup RowsOf(y)' : c.of = y
    BY DEF Books, TypeOK, Coloring, RowsOf
  <1>5. \A u \in Used : ~Awaits(u) /\ PendingBlinded(u) = {}
    BY DEF Used, MovesAreWhole
  <1>6. ASSUME NEW c, c.of # x
        PROVE  /\ c \in coloring' <=> c \in coloring
               /\ c \in coloring => status'[c.of] = status[c.of]
    BY <1>4, <1>6
  <1>7. ASSUME NEW u \in Used PROVE ~Awaits(u)'
    <2> SUFFICES ASSUME NEW c \in coloring', c.txo = u, Comes(c),
                        status'[c.of] \in Pending
                 PROVE  FALSE
      BY DEF Awaits, Rows, StatusOf, Comes
    <2>1. CASE c.of # x
      BY <1>5, <1>6, <2>1 DEF Awaits, Rows, StatusOf
    <2>2. CASE c.of = x
      <3>1. c \in RowsOf(x)' /\ status'[x] \in Pending
        BY <1>4, <2>2
      <3>2. status'[x] \notin {"None", "Failed"}
        BY <3>1 DEF Pending
      <3>3. status'[x] = status[x] /\ RowsOf(x)' = RowsOf(x)
        BY <3>1, <3>2
      <3> QED
        BY <1>4, <1>5, <2>2, <3>1, <3>3 DEF Awaits, Rows, StatusOf
    <2> QED
      BY <2>1, <2>2
  <1>8. ASSUME NEW u \in Used PROVE (PendingBlinded(u) = {})'
    BY <1>5 DEF PendingBlinded
  <1>9. ASSUME NEW u \in Used, NEW a PROVE Came(u, a)' = Came(u, a)
    <2> DEFINE Here(c) == /\ c \in coloring /\ c.txo = u /\ c.asset = a
                          /\ Comes(c) /\ status[c.of] = "Settled"
               There(c) == /\ c \in coloring' /\ c.txo = u /\ c.asset = a
                           /\ Comes(c) /\ status'[c.of] = "Settled"
    <2>1. ASSUME NEW c PROVE Here(c) <=> There(c)
      <3>1. CASE c.of # x
        BY <1>6, <3>1
      <3>2. CASE c.of = x
        <4>1. CASE status'[x] = status[x] /\ RowsOf(x)' = RowsOf(x)
          BY <1>4, <3>2, <4>1
        <4>2. CASE {status[x], status'[x]} \subseteq {"None", "Failed"}
          BY <3>2, <4>2
        <4>3. CASE \A d \in RowsOf(x) \cup RowsOf(x)' : Comes(d) => d.txo \notin Used
          BY <1>4, <3>2, <4>3
        <4> QED
          BY <4>1, <4>2, <4>3
      <3> QED
        BY <3>1, <3>2
    <2>2. \A c : c \in Came(u, a) <=> Here(c)
      BY DEF Came, Rows, StatusOf
    <2>3. \A c : c \in Came(u, a)' <=> There(c)
      BY DEF Came, Rows, StatusOf, Comes
    <2> QED
      BY <2>1, <2>2, <2>3
  <1>10. spent' \subseteq Gone'
    <2>1. spent \subseteq Gone
      BY DEF MovesAreWhole, Gone
    <2>2. Gone' = Gone
      BY <1>3 DEF Gone
    <2> QED
      BY <2>1, <2>2
  <1> QED
    BY <1>2, <1>7, <1>8, <1>9, <1>10, MovesKept

\* what is under way, what can be used and what is seated are apart
LEMMA UsedIsApart ==
    ASSUME Reservations, Books
    PROVE  /\ Used \subseteq (known \cap exists) \ pending
           /\ Used \cap Usable = {}
           /\ \A excluded : Used \cap Pick(excluded) = {}
  BY UsedIsTaken DEF Used

\* A receiving step that writes no row keeps the moves: what it settles or fails
\* was awaited, so it is on no TXO that is moved.
LEMMA QuietMoves ==
    ASSUME Reservations, Books, MovesAreWhole, NEW x \in Incoming,
           QuietReceive(x)
    PROVE  MovesAreWhole'
  <1>1. QuietShape(x) /\ x \notin Outgoing
    BY QuietShapeHolds
  <1>2. \A y : RowsOf(y)' = RowsOf(y)
    BY <1>1 DEF QuietShape, RowsOf
  <1>3. \A b \in Blind : status'[b] = "WaitingCounterparty" =>
                            status[b] = "WaitingCounterparty"
    <2>1. \A b \in Blind : b \in Transfers
      BY DEF Transfers, Incoming
    <2> QED
      BY <1>1, <2>1 DEF QuietShape
  <1>4. \/ status'[x] = status[x]
        \/ {status[x], status'[x]} \subseteq {"None", "Failed"}
        \/ \A c \in RowsOf(x) : Comes(c) => c.txo \notin Used
    <2> SUFFICES ASSUME status[x] \in Pending
                 PROVE  \A c \in RowsOf(x) : Comes(c) => c.txo \notin Used
      BY <1>1 DEF QuietShape, QuietReceive, Published, ReachSafeHeight,
         SeeBroadcast, FailReceived, Pending
    <2>1. \A u \in Used : ~Awaits(u)
      BY DEF Used, MovesAreWhole
    <2> QED
      BY <2>1 DEF RowsOf, Awaits, Rows, StatusOf
  <1> QED
    BY <1>1, <1>2, <1>3, <1>4, MovesOfOthers DEF QuietShape

\* What an invoice brings comes to a TXO that no transfer moves, since the invoice
\* protects it or it was not there.
LEMMA AcceptMoves ==
    ASSUME Reservations, Books, MovesAreWhole, NEW x \in Incoming, Accept(x)
    PROVE  MovesAreWhole'
  <1>1. PICK r : /\ coloring' = coloring \cup {r}
                 /\ r.txo = Seat(x) /\ r.of = x
    <2>1. PICK a \in Assets, n \in Gifts :
             coloring' = coloring \cup
                {[txo |-> Seat(x), of |-> x, type |-> "Receive", asset |-> a,
                  amount |-> n]}
      BY DEF Accept
    <2> DEFINE q == [txo |-> Seat(x), of |-> x, type |-> "Receive", asset |-> a,
                     amount |-> n]
    <2>2. q.txo = Seat(x) /\ q.of = x /\ coloring' = coloring \cup {q}
      BY <2>1
    <2> HIDE DEF q
    <2> QED
      BY <2>2
  <1>2. /\ status[x] = "WaitingCounterparty"
        /\ UNCHANGED <<plan, spent, promised>>
        /\ status \in [Transfers -> Status] /\ x \in Transfers /\ x \notin Outgoing
    BY DEF Accept, invoiceVars, Books, TypeOK, Transfers
  <1>3. /\ \A y \in Transfers \ {x} : status'[y] = status[y]
        /\ status'[x] \in {"WaitingSafeHeight", "WaitingBroadcast",
                           "WaitingConfirmations"}
    BY <1>2 DEF Accept, Acknowledge
  <1>4. \A u \in Used : ~Awaits(u) /\ PendingBlinded(u) = {}
    BY DEF Used, MovesAreWhole
  <1>5. Seat(x) \notin Used
    <2>1. CASE x \in Blind
      BY <1>2, <1>4, <2>1 DEF Seat, PendingBlinded
    <2>2. CASE x \notin Blind
      <3>1. x \in Witness /\ Seat(x) = x /\ (x \in pending \/ x \notin known)
        BY <1>2, <2>2 DEF Seat, Incoming, Books, InvoicesAreRight
      <3> QED
        BY <3>1, UsedIsApart
    <2> QED
      BY <2>1, <2>2
  <1>6. \A y : y # x => RowsOf(y)' = RowsOf(y)
    BY <1>1 DEF RowsOf
  <1>7. \A c \in RowsOf(x) \cup RowsOf(x)' : Comes(c) => c.txo \notin Used
    <2>1. \A c \in RowsOf(x) \cup RowsOf(x)' : c \in RowsOf(x) \/ c = r
      BY <1>1 DEF RowsOf
    <2>2. \A c \in RowsOf(x) : Comes(c) => c.txo \notin Used
      BY <1>2, <1>4 DEF RowsOf, Awaits, Rows, StatusOf, Pending
    <2> QED
      BY <1>1, <1>5, <2>1, <2>2
  <1>8. \A b \in Blind : status'[b] = "WaitingCounterparty" =>
                            status[b] = "WaitingCounterparty"
    <2>1. \A b \in Blind : b \in Transfers
      BY DEF Transfers, Incoming
    <2> QED
      BY <1>2, <1>3, <2>1
  <1> QED
    BY <1>2, <1>3, <1>6, <1>7, <1>8, MovesOfOthers

\* What settles was awaited, so it is on no TXO that is moved.
LEMMA SettleMoves ==
    ASSUME Reservations, Books, MovesAreWhole, NEW x \in Incoming,
           SettleReceived(x)
    PROVE  MovesAreWhole'
  <1>1. /\ status[x] \in {"WaitingBroadcast", "WaitingConfirmations"}
        /\ status' = [status EXCEPT ![x] = "Settled"]
        /\ UNCHANGED <<coloring, spent, plan, promised>>
        /\ status \in [Transfers -> Status] /\ x \in Transfers /\ x \notin Outgoing
    BY DEF SettleReceived, invoiceVars, Books, TypeOK, Transfers
  <1>2. /\ \A y \in Transfers \ {x} : status'[y] = status[y]
        /\ \A b \in Blind : status'[b] = "WaitingCounterparty" =>
                            status[b] = "WaitingCounterparty"
    BY <1>1 DEF Transfers, Incoming
  <1>3. \A y : RowsOf(y)' = RowsOf(y)
    BY <1>1 DEF RowsOf
  <1>4. \A c \in RowsOf(x) : Comes(c) => c.txo \notin Used
    <2>1. \A u \in Used : ~Awaits(u)
      BY DEF Used, MovesAreWhole
    <2> QED
      BY <1>1, <2>1 DEF RowsOf, Awaits, Rows, StatusOf, Pending
  <1> QED
    BY <1>1, <1>2, <1>3, <1>4, MovesOfOthers

\* An invoice promises no TXO that is moved (get_utxo).
LEMMA InvoiceMoves ==
    ASSUME Reservations, Books, MovesAreWhole,
           NEW x \in Incoming, (x \in Blind /\ BlindReceive(x))
                               \/ (x \in Witness /\ WitnessReceive(x))
    PROVE  MovesAreWhole'
  <1>1. /\ UNCHANGED <<coloring, spent, plan>>
        /\ status' = [status EXCEPT ![x] = "WaitingCounterparty"]
        /\ status \in [Transfers -> Status] /\ x \in Transfers /\ x \notin Outgoing
    BY DEF BlindReceive, WitnessReceive, txoVars, Books, TypeOK, Transfers
  <1>2. \A y \in Transfers \ {x} : status'[y] = status[y]
    BY <1>1
  <1>3. \A y : RowsOf(y)' = RowsOf(y)
    BY <1>1 DEF RowsOf
  <1>4. RowsOf(x) = {}
    <2>1. status[x] = "None"
      BY DEF BlindReceive, WitnessReceive, Books, InvoicesAreRight
    <2> QED
      BY <2>1 DEF Books, TypeOK, RowsOf
  <1>5. \A b \in Blind :
           promised'[b] \in Used /\ status'[b] = "WaitingCounterparty" =>
              promised[b] = promised'[b] /\ status[b] = "WaitingCounterparty"
    <2>1. \A b \in Blind : b \in Transfers /\ (b \notin Witness)
      BY DEF Transfers, Incoming
    <2>2. CASE x \in Blind /\ BlindReceive(x)
      <3>1. PICK u \in Pick({}) : promised' = [promised EXCEPT ![x] = u]
        BY <2>2 DEF BlindReceive
      <3>2. u \notin Used
        BY UsedIsApart
      <3> QED
        BY <1>2, <2>1, <3>1, <3>2 DEF Books, TypeOK
    <2>3. CASE x \in Witness /\ WitnessReceive(x)
      BY <1>2, <2>1, <2>3 DEF WitnessReceive
    <2> QED
      BY <2>2, <2>3
  <1> QED
    BY <1>1, <1>2, <1>3, <1>4, <1>5, MovesOfOthers

\* A deletion takes rows that no longer count.
LEMMA DeleteMoves ==
    ASSUME Books, MovesAreWhole, NEW x \in Outgoing \cup Incoming, Delete(x)
    PROVE  MovesAreWhole'
  <1>1. /\ UNCHANGED <<spent, plan, promised>>
        /\ status[x] = "Failed" /\ status' = [status EXCEPT ![x] = "None"]
        /\ coloring' = {c \in coloring : c.of # x}
        /\ status \in [Transfers -> Status] /\ x \in Transfers
    BY DEF Delete, invoiceVars, Books, TypeOK, Transfers
  <1>2. /\ \A y \in Transfers \ {x} : status'[y] = status[y]
        /\ status'[x] = "None"
        /\ \A b \in Blind : status'[b] = "WaitingCounterparty" =>
                            status[b] = "WaitingCounterparty"
    BY <1>1 DEF Transfers, Incoming
  <1>3. \A y : y # x => RowsOf(y)' = RowsOf(y)
    BY <1>1 DEF RowsOf
  <1> QED
    BY <1>1, <1>2, <1>3, MovesOfOthers

\* What is moved from TXOs that are not spent is what came to those of them
\* that hold something.
LEMMA MovedCame ==
    ASSUME Books, NEW inputs, inputs \cap spent = {}
    PROVE  LET M == MovedFrom(inputs)
           IN  M = CameTo({m.txo : m \in M})
  <1> DEFINE M == MovedFrom(inputs)
             S == {m.txo : m \in M}
  <1>1. \A u \in inputs, a \in Assets : Held(u, a) = Came(u, a)
    BY HeldCame
  <1>2. \A m : m \in M <=>
           \E u \in inputs, a \in Assets :
              /\ Came(u, a) # {}
              /\ m = [txo |-> u, asset |-> a, amount |-> Sum(Came(u, a))]
    BY <1>1 DEF MovedFrom
  <1>3. \A m : m \in CameTo(S) <=>
           \E u \in S, a \in Assets :
              /\ Came(u, a) # {}
              /\ m = [txo |-> u, asset |-> a, amount |-> Sum(Came(u, a))]
    BY DEF CameTo
  <1>4. S \subseteq inputs
    BY <1>2
  <1>5. ASSUME NEW u \in inputs, NEW a \in Assets, Came(u, a) # {}
        PROVE  u \in S
    <2> DEFINE m == [txo |-> u, asset |-> a, amount |-> Sum(Came(u, a))]
    <2>1. m \in M /\ m.txo = u
      BY <1>2, <1>5
    <2> HIDE DEF m, M
    <2> QED
      BY <2>1
  <1> HIDE DEF M, S
  <1>6. M = CameTo(S)
    BY <1>2, <1>3, <1>4, <1>5
  <1> QED
    BY <1>6 DEF M, S

\* The transfer of a step is under way or settled before it, or not after it.
LEMMA SendMovesOn ==
    ASSUME Reservations, Books, MovesAreWhole, NEW t \in Outgoing, SendShape(t),
           strays' = {}, RgbInputs(plan'[t]) = Spends(plan'[t]),
           t \in Moving \/ t \notin Moving'
    PROVE  MovesAreWhole'
  <1>1. /\ StatusStep(t) /\ RowsStep(t, plan'[t]) /\ FlagsStep(t, plan'[t])
        /\ PlanStep(t) /\ t \in Transfers /\ Outgoing \subseteq Transfers
        /\ promised' = promised
    BY DEF SendShape, Transfers
  <1>2. \A y \in Transfers : y # t => status'[y] = status[y]
    BY <1>1 DEF StatusStep
  <1>3. Moving' \subseteq Moving
    BY <1>1, <1>2 DEF Moving
  <1>4. \A t2 \in Moving : plan'[t2] = plan[t2]
    <2>1. status[t] # "None" => plan' = plan
      BY <1>1 DEF PlanStep, Reservations, WasBegun
    <2> QED
      BY <1>1, <2>1 DEF Moving, PlanStep, Active, Books, TypeOK
  <1>5. coloring' = coloring /\ (status'[t] = "None" <=> status[t] = "None")
    BY <1>1 DEF RowsStep, Moving, Active
  <1>6. status[t] # "None" =>
           /\ status'[t] # status[t] => status[t] \in Active
           /\ status[t] \in Out => status'[t] \in Out
    BY <1>1 DEF StatusStep, Reservations, WasBegun
  <1>7. \A c \in coloring : c.of \in Transfers /\ status[c.of] # "None"
    BY DEF Books, TypeOK, Coloring
  <1>8. \A u \in Used : ~Awaits(u) /\ PendingBlinded(u) = {}
    BY DEF Used, MovesAreWhole
  <1>9. ASSUME NEW u \in Used, NEW c \in coloring, c.txo = u, Comes(c)
        PROVE  status'[c.of] = status[c.of]
    <2>1. status[c.of] \notin Pending
      BY <1>8, <1>9 DEF Awaits, Rows, StatusOf
    <2>2. status[c.of] \notin Active
      BY <2>1 DEF Active, Pending
    <2> QED
      BY <1>2, <1>6, <1>7, <2>2
  <1>10. ASSUME NEW u \in Used PROVE ~Awaits(u)'
    BY <1>5, <1>8, <1>9 DEF Awaits, Rows, StatusOf, Comes
  <1>11. ASSUME NEW u \in Used PROVE (PendingBlinded(u) = {})'
    <2>1. \A b \in Blind : b \in Transfers /\ b # t
      BY DEF Transfers, Incoming
    <2> QED
      BY <1>1, <1>2, <1>8, <2>1 DEF PendingBlinded
  <1>12. ASSUME NEW u \in Used, NEW a PROVE Came(u, a)' = Came(u, a)
    BY <1>5, <1>9 DEF Came, Rows, StatusOf, Comes
  <1>13. spent' \subseteq Gone'
    <2>1. spent \subseteq Gone
      BY DEF MovesAreWhole, Gone
    <2>2. Gone \subseteq Gone'
      <3>1. ASSUME NEW t2 \in Outgoing, status[t2] \in Out
            PROVE  status'[t2] \in Out /\ plan'[t2] = plan[t2]
        <4>1. t2 \in Moving
          BY <3>1 DEF Moving, Out, Active
        <4>2. status'[t2] \in Out
          BY <1>1, <1>2, <1>6, <3>1 DEF Out
        <4> QED
          BY <1>4, <4>1, <4>2
      <3> QED
        BY <3>1 DEF Gone
    <2>3. status'[t] = "WaitingConfirmations" => RgbInputs(plan'[t]) \subseteq Gone'
      BY DEF Gone, Out
    <2>4. CASE spent' = spent
      BY <2>1, <2>2, <2>4
    <2>5. CASE spent' = spent \cup RgbInputs(plan'[t])
               /\ status'[t] = "WaitingConfirmations"
      BY <2>1, <2>2, <2>3, <2>5
    <2> QED
      BY <1>1, <2>4, <2>5 DEF FlagsStep
  <1> QED
    BY <1>3, <1>4, <1>10, <1>11, <1>12, <1>13, MovesKept

\* The transfer of a step begins.
LEMMA SendMovesBegin ==
    ASSUME FinitenessAssumption, Reservations, Books, MovesAreWhole,
           NEW t \in Outgoing, SendShape(t),
           strays' = {}, RgbInputs(plan'[t]) = Spends(plan'[t]),
           t \notin Moving, t \in Moving'
    PROVE  MovesAreWhole'
  <1>1. PICK p : p = plan'[t]
    OBVIOUS
  <1>2. /\ StatusStep(t) /\ RowsStep(t, p) /\ FlagsStep(t, p)
        /\ PlanStep(t) /\ t \in Transfers /\ Outgoing \subseteq Transfers
        /\ promised' = promised
    BY <1>1 DEF SendShape, Transfers
  <1>3. \A y \in Transfers : y # t => status'[y] = status[y]
    BY <1>2 DEF StatusStep
  <1>4. ~Begun(t) /\ status[t] = "None" /\ status'[t] \in Active \cup {"Settled"}
    <2>1. status[t] \notin Active /\ status'[t] # status[t]
          /\ status'[t] \in Active \cup {"Settled"}
      BY DEF Moving
    <2>2. ~Begun(t)
      BY <1>2, <2>1 DEF StatusStep
    <2> QED
      BY <2>1, <2>2 DEF Reservations, WasBegun
  <1>5. NewPlan(t, p) /\ \A t2 \in Outgoing \ {t} : plan'[t2] = plan[t2]
    BY <1>1, <1>2, <1>4 DEF PlanStep, Books, TypeOK
  <1>6. /\ status'[t] \in Active
        /\ coloring' = coloring \cup InputRows(t, p) \cup ChangeRows(t, p)
    BY <1>2, <1>4 DEF RowsStep, Active
  <1>7. /\ \A c \in InputRows(t, p) : c.of = t /\ ~Comes(c)
        /\ \A c \in ChangeRows(t, p) : c.of = t /\ c.txo = p.seat
    <2>1. PlanRows(t, p)
      BY <1>5, RowsOfPlan DEF NewPlan
    <2> QED
      BY <2>1 DEF PlanRows, Comes
  <1>8. \A c \in coloring : c.of \in Transfers /\ c.of # t
    BY <1>4 DEF Books, TypeOK, Coloring
  <1>9. RgbInputs(p) \subseteq Usable /\ RgbInputs(p) = Spends(p)
    BY <1>1, <1>5 DEF NewPlan
  <1>10. RgbInputs(p) \cap Used = {} /\ \A u \in RgbInputs(p) : u \in known
    BY <1>9, UsedIsApart DEF Usable, Unspent
  <1>11. p.seat \notin Used \cup RgbInputs(p)
    <2>1. t \notin known /\ Nowhere \notin known
      BY <1>4 DEF Reservations, WasBegun, Books, TypeOK
    <2>2. p.seat \in {Nowhere, t} => p.seat \notin known
      BY <2>1
    <2>3. p.seat \in Pick(Spends(p)) => p.seat \notin Used \cup RgbInputs(p)
      BY <1>9, UsedIsApart, PickedIsFree
    <2> QED
      BY <1>5, <1>10, <2>2, <2>3, UsedIsApart DEF NewPlan
  <1>12. \A u \in Used \cup RgbInputs(p) : ~Awaits(u) /\ PendingBlinded(u) = {}
    BY <1>9 DEF Used, MovesAreWhole, Usable
  <1>13. ASSUME NEW u \in Used \cup RgbInputs(p), NEW c \in coloring',
                c.txo = u, Comes(c)
         PROVE  c \in coloring /\ status'[c.of] = status[c.of]
    BY <1>3, <1>6, <1>7, <1>8, <1>11, <1>13
  <1>14. ASSUME NEW u \in Used \cup RgbInputs(p) PROVE ~Awaits(u)'
    <2> SUFFICES ASSUME NEW c \in coloring', c.txo = u, Comes(c),
                        status'[c.of] \in Pending
                 PROVE  FALSE
      BY DEF Awaits, Rows, StatusOf, Comes
    <2>1. c \in coloring /\ status'[c.of] = status[c.of]
      BY <1>13
    <2> QED
      BY <1>12, <2>1 DEF Awaits, Rows, StatusOf
  <1>15. ASSUME NEW u \in Used \cup RgbInputs(p)
         PROVE  (PendingBlinded(u) = {})'
    <2>1. \A b \in Blind : b \in Transfers /\ b # t
      BY DEF Transfers, Incoming
    <2> QED
      BY <1>2, <1>3, <1>12, <2>1 DEF PendingBlinded
  <1>16. ASSUME NEW u \in Used \cup RgbInputs(p), NEW a
         PROVE  Came(u, a)' = Came(u, a)
    <2>1. \A c \in coloring : c \in coloring' /\ status'[c.of] = status[c.of]
      BY <1>3, <1>6, <1>8
    <2>2. \A c : c \in Came(u, a)' <=>
             /\ c \in coloring' /\ c.txo = u /\ c.asset = a
             /\ Comes(c) /\ status'[c.of] = "Settled"
      BY DEF Came, Rows, StatusOf, Comes
    <2>3. \A c : c \in Came(u, a) <=>
             /\ c \in coloring /\ c.txo = u /\ c.asset = a
             /\ Comes(c) /\ status[c.of] = "Settled"
      BY DEF Came, Rows, StatusOf
    <2>4. \A c : c \in Came(u, a)' <=> c \in Came(u, a)
      BY <1>13, <2>1, <2>2, <2>3
    <2> QED
      BY <2>4
  <1>17. p.moved = CameTo(RgbInputs(p))
    <2>1. PICK inputs \in SUBSET Usable : p.moved = MovedFrom(inputs)
      BY <1>5 DEF NewPlan
    <2>2. inputs \cap spent = {}
      BY DEF Usable, Unspent
    <2> QED
      BY <2>1, <2>2, MovedCame DEF RgbInputs
  <1>18. \A t2 \in Moving' \ {t} :
            /\ t2 \in Moving /\ plan'[t2] = plan[t2]
            /\ RgbInputs(plan[t2]) \subseteq Used
    BY <1>2, <1>3, <1>5 DEF Moving, Used
  <1>19. \A t1, t2 \in Moving' :
            t1 # t2 => RgbInputs(plan'[t1]) \cap RgbInputs(plan'[t2]) = {}
    <2>1. \A t2 \in Moving' \ {t} :
             RgbInputs(plan'[t]) \cap RgbInputs(plan'[t2]) = {}
      BY <1>1, <1>10, <1>18
    <2>2. \A t1, t2 \in Moving' \ {t} :
             t1 # t2 => RgbInputs(plan'[t1]) \cap RgbInputs(plan'[t2]) = {}
      BY <1>18 DEF MovesAreWhole
    <2> QED
      BY <2>1, <2>2
  <1>20. ASSUME NEW t2 \in Moving'
         PROVE  /\ \A u \in RgbInputs(plan'[t2]) :
                      ~Awaits(u)' /\ (PendingBlinded(u) = {})'
                /\ plan'[t2].moved = CameTo(RgbInputs(plan[t2]))'
    <2>1. PICK S : S = RgbInputs(plan'[t2])
      OBVIOUS
    <2>2. S \subseteq Used \cup RgbInputs(p) /\ plan'[t2].moved = CameTo(S)
      <3>1. CASE t2 = t
        BY <1>1, <1>17, <2>1, <3>1
      <3>2. CASE t2 # t
        BY <1>18, <2>1, <3>2 DEF MovesAreWhole
      <3> QED
        BY <3>1, <3>2
    <2>3. CameTo(S)' = CameTo(S)
      BY <1>16, <2>2, CameToSame
    <2>4. plan'[t2].moved = CameTo(S)'
      BY <2>2, <2>3
    <2>5. plan'[t2].moved = CameTo(RgbInputs(plan[t2]))'
      BY <2>1, <2>4 DEF CameTo
    <2> QED
      BY <1>14, <1>15, <2>1, <2>2, <2>5
  <1>21. spent' \subseteq Gone'
    <2>1. spent \subseteq Gone
      BY DEF MovesAreWhole, Gone
    <2>2. Gone \subseteq Gone'
      <3>1. ASSUME NEW t2 \in Outgoing, status[t2] \in Out
            PROVE  status'[t2] \in Out /\ plan'[t2] = plan[t2]
        BY <1>2, <1>3, <1>4, <1>5, <3>1 DEF Out
      <3> QED
        BY <3>1 DEF Gone
    <2>3. status'[t] = "WaitingConfirmations" => RgbInputs(p) \subseteq Gone'
      BY <1>1 DEF Gone, Out
    <2>4. CASE spent' = spent
      BY <2>1, <2>2, <2>4
    <2>5. CASE spent' = spent \cup RgbInputs(p)
               /\ status'[t] = "WaitingConfirmations"
      BY <2>1, <2>2, <2>3, <2>5
    <2> QED
      BY <1>2, <1>9, <2>4, <2>5 DEF FlagsStep
  <1> QED
    BY <1>19, <1>20, <1>21 DEF MovesAreWhole, Gone

\* Nothing moves at first.
LEMMA MovesInit ==
    ASSUME Init
    PROVE  MovesAreWhole
  <1>1. spent = {} /\ \A t \in Outgoing : status[t] = "None"
    BY DEF Init, Transfers
  <1> QED
    BY <1>1 DEF MovesAreWhole, Moving, Active

\* Nothing is undone of what disturbs the moves.
LEMMA StaysDisturbed ==
    ASSUME FinitenessAssumption, AmountAssumption, BoundAssumption,
           Reservations, Books, [Next]_vars, Undisturbed'
    PROVE  Undisturbed
  <1>1. ASSUME NEW t \in Outgoing, SendStep(t) PROVE Undisturbed
    <2>1. SendShape(t)
      BY <1>1, SendShapeHolds
    <2>2. NoPlan.fees = {}
      BY DEF NoPlan
    <2>3. \A t2 \in Outgoing : plan'[t2] = plan[t2] \/ plan[t2] = NoPlan
      BY <2>1 DEF SendShape, PlanStep, Begun, Books, TypeOK
    <2>4. strays \subseteq strays'
      BY <2>1 DEF SendShape
    <2> QED
      BY <2>2, <2>3, <2>4 DEF Undisturbed
  <1>2. CASE UNCHANGED <<plan, strays>>
    BY <1>2 DEF Undisturbed
  <1>3. UNCHANGED <<plan, strays>> \/ \E t \in Outgoing : SendStep(t)
    BY DEF Next, vars, BlindReceive, WitnessReceive, ReceiveStep, Published, Accept,
       ReachSafeHeight, SeeBroadcast, SettleReceived, FailReceived, SyncTxo, Delete
  <1> QED
    BY <1>1, <1>2, <1>3

\* Every step keeps the moves whole, as long as it does not disturb them.
LEMMA MovesNext ==
    ASSUME FinitenessAssumption, AmountAssumption, BoundAssumption,
           Reservations, Books, MovesAreWhole, Undisturbed', [Next]_vars
    PROVE  MovesAreWhole'
  <1>1. CASE UNCHANGED <<status, coloring, spent, plan, promised>>
    <2>1. Moving' = Moving /\ Gone' = Gone
      BY <1>1 DEF Moving, Gone, RgbInputs
    <2>2. \A u : (Awaits(u)' <=> Awaits(u)) /\ PendingBlinded(u)' = PendingBlinded(u)
      BY <1>1 DEF Awaits, Rows, StatusOf, PendingBlinded, Comes
    <2>3. \A u, a : Came(u, a)' = Came(u, a)
      BY <1>1 DEF Came, Rows, StatusOf, Comes
    <2>4. \A u \in Used : ~Awaits(u) /\ PendingBlinded(u) = {}
      BY DEF Used, MovesAreWhole
    <2>5. spent' \subseteq Gone'
      BY <1>1, <2>1 DEF MovesAreWhole, Gone
    <2> QED
      BY <1>1, <2>1, <2>2, <2>3, <2>4, <2>5, MovesKept
  <1>2. ASSUME NEW t \in Outgoing, SendStep(t) PROVE MovesAreWhole'
    <2>1. SendShape(t)
      BY <1>2, SendShapeHolds
    <2>2. strays' = {} /\ RgbInputs(plan'[t]) = Spends(plan'[t])
      BY DEF Undisturbed, Spends
    <2> QED
      BY <2>1, <2>2, SendMovesOn, SendMovesBegin
  <1>3. ASSUME NEW b \in Blind, BlindReceive(b) PROVE MovesAreWhole'
    BY <1>3, InvoiceMoves DEF Incoming
  <1>4. ASSUME NEW w \in Witness, WitnessReceive(w) PROVE MovesAreWhole'
    BY <1>4, InvoiceMoves DEF Incoming
  <1>5. ASSUME NEW x \in Incoming, ReceiveStep(x) PROVE MovesAreWhole'
    BY <1>5, AcceptMoves, SettleMoves, QuietMoves DEF ReceiveStep, QuietReceive
  <1>6. ASSUME NEW x \in Outgoing \cup Witness, SyncTxo(x) PROVE MovesAreWhole'
    BY <1>1, <1>6 DEF SyncTxo, invoiceVars
  <1>7. ASSUME NEW x \in Outgoing \cup Incoming, Delete(x) PROVE MovesAreWhole'
    BY <1>7, DeleteMoves
  <1>8. CASE UNCHANGED vars
    BY <1>1, <1>8 DEF vars, txoVars, invoiceVars
  <1> QED
    BY <1>2, <1>3, <1>4, <1>5, <1>6, <1>7, <1>8 DEF Next

\* The inductive invariant of the balances.
THEOREM AccountsHold == Spec => [](Reservations /\ Accounts)
  <1>1. Init => Reservations /\ Accounts
    BY ReservationsInit, BooksInit, MovesInit, FinitenessAssumption,
       AmountAssumption, BoundAssumption DEF Accounts
  <1>2. Reservations /\ Accounts /\ [Next]_vars => (Reservations /\ Accounts)'
    BY ReservationsNext, BooksNext, MovesNext, StaysDisturbed,
       FinitenessAssumption, AmountAssumption, BoundAssumption DEF Accounts
  <1> QED
    BY <1>1, <1>2, PTL DEF Spec

(***************************************************************************)
(* The future balance                                                      *)
(***************************************************************************)

\* the colorings of an asset that bring and take what the wallet will have
Standing(c) == status[c.of] \notin {"None", "Failed"}
Comings(a) == {c \in Of(a) : Comes(c) /\ Standing(c)}
Goings(a) == {c \in Of(a) : ~Comes(c) /\ Standing(c)}

\* Any rows of an asset have a sum that is a natural number.
LEMMA OfRows ==
    ASSUME Books, NEW a, NEW R, R \subseteq Of(a)
    PROVE  /\ Amounted(R) /\ IsFiniteSet(R)
           /\ \A r \in R : r.amount \in Nat
           /\ Sum(R) \in Nat
  <1>1. R \subseteq coloring
    BY DEF Of
  <1> QED
    BY <1>1, RowSums DEF Books, TypeOK

\* What a transfer takes from a TXO is all that came there of the asset.
LEMMA GoingsAre ==
    ASSUME Books, MovesAreWhole, NEW a, NEW c \in Goings(a)
    PROVE  /\ c.of \in Moving /\ c.txo \in RgbInputs(plan[c.of])
           /\ c \in InputRows(c.of, plan[c.of])
           /\ c.asset = a /\ c.amount = Sum(Came(c.txo, a))
  <1>1. c \in coloring /\ c.asset = a /\ ~Comes(c)
        /\ status[c.of] \notin {"None", "Failed"}
    BY DEF Goings, Of, Standing
  <1>2. /\ c.of \in Outgoing /\ c \in InputRows(c.of, plan[c.of])
        /\ c.txo \in RgbInputs(plan[c.of])
        /\ [txo |-> c.txo, asset |-> c.asset, amount |-> c.amount]
              \in plan[c.of].moved
    BY <1>1, InputRow
  <1>3. c.of \in Moving
    BY <1>1, <1>2 DEF Books, FlagsAreRight, Going, Moving
  <1> DEFINE m == [txo |-> c.txo, asset |-> c.asset, amount |-> c.amount]
  <1>4. m \in CameTo(RgbInputs(plan[c.of])) /\ m.txo = c.txo /\ m.asset = c.asset
        /\ m.amount = c.amount
    BY <1>2, <1>3 DEF MovesAreWhole
  <1> HIDE DEF m
  <1>5. m.amount = Sum(Came(m.txo, m.asset))
    BY <1>4 DEF CameTo
  <1> QED
    BY <1>1, <1>2, <1>3, <1>4, <1>5

\* And it is taken once.
LEMMA GoingsApart ==
    ASSUME Books, MovesAreWhole, NEW a,
           NEW c \in Goings(a), NEW d \in Goings(a), c.txo = d.txo
    PROVE  c = d
  <1>1. c.of = d.of
    BY GoingsAre DEF MovesAreWhole
  <1>2. c.asset = d.asset /\ c.amount = d.amount
    BY GoingsAre
  <1>3. c \in InputRows(c.of, plan[c.of]) /\ d \in InputRows(c.of, plan[c.of])
    BY <1>1, GoingsAre
  <1>4. \A e \in InputRows(c.of, plan[c.of]) :
           e = [txo |-> e.txo, of |-> c.of, type |-> "Input", asset |-> e.asset,
                amount |-> e.amount]
    BY DEF InputRows
  <1> QED
    BY <1>2, <1>3, <1>4

\* Some of what is taken, and what came to where it is taken from.
LEMMA TakenSum ==
    ASSUME Books, MovesAreWhole, NEW a, NEW Q \in SUBSET Goings(a),
           NEW C, C = UNION {Came(c.txo, a) : c \in Q}
    PROVE  Sum(Q) = Sum(C) /\ C \subseteq Of(a)
  <1> DEFINE G == [c \in Q |-> Came(c.txo, a)]
             U == UNION {G[c] : c \in Q}
  <1>1. \A u : Came(u, a) \subseteq Of(a)
    BY DEF Came, Rows, Of
  <1>2. IsFiniteSet(Q)
    <2>1. Q \subseteq Of(a)
      BY DEF Goings
    <2> QED
      BY <2>1, OfRows
  <1>3. \A c \in Q : G[c] = Came(c.txo, a)
    OBVIOUS
  <1>4. U = C
    OBVIOUS
  <1> HIDE DEF G
  <1>5. \A c \in Q : Amounted(G[c]) /\ c.amount = Sum(G[c])
    <2> TAKE c \in Q
    <2>1. Amounted(Came(c.txo, a))
      BY <1>1, OfRows
    <2>2. c.amount = Sum(Came(c.txo, a))
      BY GoingsAre
    <2> QED
      BY <1>3, <2>1, <2>2
  <1>6. \A c, d \in Q : c # d => G[c] \cap G[d] = {}
    <2>1. \A c, d \in Q : c # d => c.txo # d.txo
      BY GoingsApart
    <2>2. \A u : \A e \in Came(u, a) : e.txo = u
      BY DEF Came, Rows
    <2> QED
      BY <1>3, <2>1, <2>2
  <1>7. Sum(Q) = Sum(U)
    BY <1>2, <1>5, <1>6, SumOfGroups
  <1> HIDE DEF U
  <1> QED
    BY <1>1, <1>4, <1>7

\* The settled balance is what came less what was taken, once both settled.
LEMMA SettledIs ==
    ASSUME Books, MovesAreWhole, NEW a \in Assets
    PROVE  Settled(a) = Sum({c \in Of(a) : Comes(c) /\ StatusOf(c) = "Settled"})
                          - Sum({c \in Of(a) : ~Comes(c) /\ StatusOf(c) = "Settled"})
  <1> DEFINE In == {c \in Of(a) : Comes(c) /\ StatusOf(c) = "Settled"}
             Free == {c \in In : c.txo \notin spent}
             Lost == {c \in Of(a) : ~Comes(c) /\ StatusOf(c) = "Settled"}
             Leaving == {c \in Of(a) : ~Comes(c)
                                       /\ StatusOf(c) = "WaitingConfirmations"}
             Q == Leaving \cup Lost
             S == {c \in Of(a) : IsSettled(c)}
  <1>1. Q \subseteq Goings(a)
    BY DEF Goings, Standing, StatusOf
  <1>2. ASSUME NEW c \in Q PROVE c.txo \in spent
    <2>1. /\ c.of \in Moving /\ c.txo \in RgbInputs(plan[c.of])
          /\ status[c.of] \in Out
      BY <1>1, GoingsAre DEF Out, StatusOf
    <2> QED
      BY <2>1 DEF Books, FlagsAreRight, Moving, Spends
  <1>3. S = Free \cup Leaving
    BY <1>2 DEF IsSettled
  <1>4. UNION {Came(c.txo, a) : c \in Q} = In \ Free
    <2>1. \A u : \A e : e \in Came(u, a) <=> e \in In /\ e.txo = u
      BY DEF Came, Rows, Of, StatusOf
    <2>2. ASSUME NEW e \in In, e.txo \in spent
          PROVE  \E c \in Q : c.txo = e.txo
      <3>1. PICK t \in Outgoing : status[t] \in Out /\ e.txo \in RgbInputs(plan[t])
        BY <2>2 DEF MovesAreWhole
      <3>2. t \in Moving
        BY <3>1 DEF Moving, Out, Active
      <3> DEFINE m == [txo |-> e.txo, asset |-> a, amount |-> Sum(Came(e.txo, a))]
                 r == [txo |-> m.txo, of |-> t, type |-> "Input",
                       asset |-> m.asset, amount |-> m.amount]
      <3>3. Came(e.txo, a) # {}
        BY <2>1
      <3>4. m \in plan[t].moved
        BY <3>1, <3>2, <3>3 DEF MovesAreWhole, CameTo
      <3>5. r \in InputRows(t, plan[t])
        BY <3>4 DEF InputRows
      <3>6. status[t] # "None"
        BY <3>1 DEF Out
      <3>7. r \in RowsOf(t)
        <4> HIDE DEF r
        <4> QED
          BY <3>5, <3>6 DEF Books, RowsAreExact
      <3>8. r.asset = a /\ r.type = "Input" /\ r.of = t /\ r.txo = e.txo
        OBVIOUS
      <3> HIDE DEF r
      <3>9. r \in Q
        BY <3>1, <3>7, <3>8 DEF RowsOf, Of, Comes, StatusOf, Out
      <3> QED
        BY <3>8, <3>9
    <2> HIDE DEF Q, In
    <2>3. \A e : e \in UNION {Came(c.txo, a) : c \in Q} <=>
                    \E c \in Q : e \in In /\ e.txo = c.txo
      BY <2>1
    <2> QED
      BY <1>2, <2>2, <2>3
  <1>5. /\ In \subseteq Of(a) /\ Free \subseteq In /\ Leaving \subseteq Of(a)
        /\ Lost \subseteq Of(a) /\ Leaving \cap Lost = {} /\ Free \cap Leaving = {}
    BY DEF StatusOf
  <1>6. Settled(a) = Sum(S)
    BY DEF Settled
  <1> HIDE DEF In, Free, Lost, Leaving, S
  <1>7. Sum(Q) = Sum(In \ Free)
    BY <1>1, <1>4, TakenSum
  <1>8. /\ Amounted(In) /\ Amounted(Free) /\ Amounted(Leaving) /\ Amounted(Lost)
        /\ Sum(In) \in Nat /\ Sum(Free) \in Nat /\ Sum(Leaving) \in Nat
        /\ Sum(Lost) \in Nat /\ Sum(In \ Free) \in Nat
    <2>1. Free \subseteq Of(a) /\ In \ Free \subseteq Of(a)
      BY <1>5
    <2> QED
      BY <1>5, <2>1, OfRows
  <1>9. Sum(Leaving \cup Lost) = Sum(Leaving) + Sum(Lost)
    BY <1>5, <1>8, SumOfUnion
  <1>10. Sum(In) = Sum(Free) + Sum(In \ Free)
    BY <1>5, <1>8, SumOfParts
  <1>11. Sum(Free \cup Leaving) = Sum(Free) + Sum(Leaving)
    BY <1>5, <1>8, SumOfUnion
  <1>12. Sum(S) = Sum(In) - Sum(Lost)
    BY <1>3, <1>7, <1>8, <1>9, <1>10, <1>11
  <1> QED
    BY <1>6, <1>12 DEF In, Lost

\* The witness invoices add a sum of what they ask for.
LEMMA WitnessPendingIs ==
    ASSUME FinitenessAssumption, AmountAssumption, Books, NEW a
    PROVE  /\ WitnessPending(a) \in Nat
           /\ Requests \subseteq {0} => WitnessPending(a) = 0
  <1> DEFINE R == {w \in Witness : /\ status[w] = "WaitingConfirmations"
                                   /\ \E c \in Of(a) : c.of = w}
  <1>1. IsFiniteSet(R)
    BY FS_Subset DEF FinitenessAssumption
  <1>2. \A w \in R : asked[w] \in Nat /\ (Requests \subseteq {0} => asked[w] = 0)
    BY DEF Books, TypeOK, InvoicesAreRight, AmountAssumption
  <1>3. WitnessPending(a) = MapThenSumSet(LAMBDA w : asked[w], R)
    BY DEF WitnessPending
  <1> HIDE DEF R
  <1>4. MapThenSumSet(LAMBDA w : asked[w], R) = Total(asked, R)
    BY <1>1, MapThenSumIsTotal
  <1>5. Total(asked, R) \in Nat /\ (Requests \subseteq {0} => Total(asked, R) = 0)
    BY <1>1, <1>2, TotalIsNat
  <1> QED
    BY <1>3, <1>4, <1>5

\* The future balance is what stands to come, and what was asked of others,
\* less what stands to go.
LEMMA FutureIs ==
    ASSUME Books, MovesAreWhole, NEW a \in Assets
    PROVE  Future(a) = Sum(Comings(a)) - Sum(Goings(a)) + WitnessPending(a)
  <1> DEFINE In == {c \in Of(a) : Comes(c) /\ StatusOf(c) = "Settled"}
             Lost == {c \in Of(a) : ~Comes(c) /\ StatusOf(c) = "Settled"}
             Next1 == {c \in Of(a) : Comes(c) /\ StatusOf(c) \in Pending}
             Next2 == {c \in Of(a) : /\ c.txo \notin spent
                                     /\ Comes(c)
                                     /\ StatusOf(c) \in Pending}
             Leaving == {c \in Of(a) : ~Comes(c) /\ StatusOf(c) \in Pending}
  <1>1. \A c \in Of(a) : status[c.of] \in Status
    BY DEF Of, Books, TypeOK, Coloring
  <1>2. Comings(a) = In \cup Next1 /\ Goings(a) = Lost \cup Leaving
    <2>1. \A c \in Of(a) : Standing(c) <=>
             StatusOf(c) = "Settled" \/ StatusOf(c) \in Pending
      BY <1>1 DEF Standing, StatusOf, Status, Pending
    <2> QED
      BY <2>1 DEF Comings, Goings
  <1>3. Next1 = Next2
    <2>1. ASSUME NEW c \in Next1 PROVE c.txo \notin spent
      <3>1. c \in coloring /\ Comes(c) /\ status[c.of] \in Pending
        BY DEF Of, StatusOf
      <3>2. Awaits(c.txo)
        BY <3>1 DEF Awaits, Rows, StatusOf
      <3>3. \A t \in Outgoing : status[t] \in Out => t \in Moving
        BY DEF Out, Moving, Active
      <3> QED
        BY <3>2, <3>3 DEF MovesAreWhole
    <2> QED
      BY <2>1
  <1>4. /\ Settled(a) = Sum(In) - Sum(Lost)
        /\ PendingIn(a) = Sum(Next2) + WitnessPending(a)
        /\ PendingOut(a) = Sum(Leaving)
    BY SettledIs DEF PendingIn, PendingOut
  <1>5. In \cap Next1 = {} /\ Lost \cap Leaving = {}
    BY DEF Pending
  <1>6. /\ In \subseteq Of(a) /\ Lost \subseteq Of(a) /\ Next1 \subseteq Of(a)
        /\ Leaving \subseteq Of(a)
    OBVIOUS
  <1> HIDE DEF In, Lost, Next1, Next2, Leaving
  <1>7. /\ Amounted(In) /\ Amounted(Lost) /\ Amounted(Next1) /\ Amounted(Leaving)
        /\ Sum(In) \in Nat /\ Sum(Lost) \in Nat /\ Sum(Next1) \in Nat
        /\ Sum(Leaving) \in Nat
    BY <1>6, OfRows
  <1>8. Sum(In \cup Next1) = Sum(In) + Sum(Next1)
        /\ Sum(Lost \cup Leaving) = Sum(Lost) + Sum(Leaving)
    BY <1>5, <1>7, SumOfUnion
  <1>9. WitnessPending(a) \in Nat
    BY WitnessPendingIs, FinitenessAssumption, AmountAssumption
  <1> DEFINE W == WitnessPending(a)
             K == Sum(Comings(a))
             L == Sum(Goings(a))
  <1>10. K = Sum(In) + Sum(Next1) /\ L = Sum(Lost) + Sum(Leaving) /\ W \in Nat
    BY <1>2, <1>8, <1>9
  <1>11. Future(a) = (Sum(In) - Sum(Lost)) + (Sum(Next1) + W) - Sum(Leaving)
    BY <1>3, <1>4 DEF Future
  <1> HIDE DEF W, K, L
  <1>12. Future(a) = K - L + W
    BY <1>7, <1>10, <1>11
  <1> QED
    BY <1>12 DEF W, K, L

\* What stands to go is part of what came.
LEMMA GoingsCame ==
    ASSUME Books, MovesAreWhole, NEW a \in Assets
    PROVE  /\ Sum(Goings(a)) <= Sum(Comings(a))
           /\ Sum(Goings(a)) \in Nat /\ Sum(Comings(a)) \in Nat
  <1> DEFINE C == UNION {Came(c.txo, a) : c \in Goings(a)}
  <1>1. Sum(Goings(a)) = Sum(C)
    BY TakenSum
  <1>2. C \subseteq Comings(a)
    <2>1. \A u : Came(u, a) \subseteq Comings(a)
      BY DEF Came, Rows, Comings, Of, Standing, StatusOf
    <2> QED
      BY <2>1
  <1> HIDE DEF C
  <1>3. Comings(a) \subseteq Of(a) /\ Goings(a) \subseteq Of(a)
    BY DEF Comings, Goings
  <1>4. /\ IsFiniteSet(Comings(a)) /\ \A c \in Comings(a) : c.amount \in Nat
        /\ Sum(Goings(a)) \in Nat /\ Sum(Comings(a)) \in Nat
    BY <1>3, OfRows
  <1>5. Sum(C) <= Sum(Comings(a))
    BY <1>2, <1>4, SumOfPart
  <1> QED
    BY <1>1, <1>4, <1>5

\* So the future balance, which is at least their difference, is not negative.
LEMMA FutureSound ==
    ASSUME Accounts
    PROVE  FutureIsSound
  <1> SUFFICES ASSUME Undisturbed, NEW a \in Assets PROVE Future(a) >= 0
    BY DEF FutureIsSound
  <1>1. Books /\ MovesAreWhole
    BY DEF Accounts
  <1>2. Future(a) = Sum(Comings(a)) - Sum(Goings(a)) + WitnessPending(a)
    BY <1>1, FutureIs
  <1>3. WitnessPending(a) \in Nat
    BY <1>1, WitnessPendingIs, FinitenessAssumption, AmountAssumption
  <1>4. /\ Sum(Goings(a)) <= Sum(Comings(a))
        /\ Sum(Goings(a)) \in Nat /\ Sum(Comings(a)) \in Nat
    BY <1>1, GoingsCame
  <1> QED
    BY <1>2, <1>3, <1>4

\* The future balance is never negative.
THEOREM FutureSoundCorrect == Spec => []FutureIsSound
  <1>1. Accounts => FutureIsSound
    BY FutureSound
  <1> QED
    BY <1>1, AccountsHold, PTL

\* Where no witness invoice asks for an amount.
FutureAddsUp ==
    Undisturbed =>
        \A a \in Assets : Future(a) = Sum(Comings(a)) - Sum(Goings(a))

\* Then the future balance is what stands to come less what stands to go.
LEMMA AddsUp ==
    ASSUME Requests \subseteq {0}, Accounts
    PROVE  FutureAddsUp
  <1> SUFFICES ASSUME Undisturbed, NEW a \in Assets
               PROVE  Future(a) = Sum(Comings(a)) - Sum(Goings(a))
    BY DEF FutureAddsUp
  <1>1. Books /\ MovesAreWhole
    BY DEF Accounts
  <1>2. Future(a) = Sum(Comings(a)) - Sum(Goings(a)) + WitnessPending(a)
    BY <1>1, FutureIs
  <1>3. WitnessPending(a) = 0
    BY <1>1, WitnessPendingIs, FinitenessAssumption, AmountAssumption
  <1>4. Sum(Goings(a)) \in Nat /\ Sum(Comings(a)) \in Nat
    BY <1>1, GoingsCame
  <1> QED
    BY <1>2, <1>3, <1>4

\* A step that begins, accepts and gives up nothing writes no row.
LEMMA NoRowWritten ==
    ASSUME Reservations, Books, [Next]_vars,
           \A x \in Transfers : status'[x] # status[x] => ~Changes(x)
    PROVE  coloring' = coloring
  <1>1. ASSUME NEW t \in Outgoing, SendStep(t) PROVE coloring' = coloring
    <2>1. RowsStep(t, plan'[t]) /\ t \in Transfers
      BY <1>1, SendShapeHolds, FinitenessAssumption, AmountAssumption,
         BoundAssumption DEF SendShape, Transfers
    <2> QED
      BY <2>1 DEF RowsStep, Changes, Active
  <1>2. ASSUME NEW x \in Incoming, Accept(x) PROVE coloring' = coloring
    <2>1. x \in Transfers /\ status \in [Transfers -> Status]
      BY DEF Transfers, Books, TypeOK
    <2>2. status'[x] # status[x] /\ status[x] = "WaitingCounterparty"
      BY <1>2, <2>1 DEF Accept, Acknowledge
    <2> QED
      BY <2>1, <2>2 DEF Changes
  <1>3. ASSUME NEW x \in Outgoing \cup Incoming, Delete(x)
        PROVE  coloring' = coloring
    <2>1. x \in Transfers /\ status \in [Transfers -> Status]
      BY DEF Transfers, Books, TypeOK
    <2>2. status'[x] # status[x] /\ status[x] = "Failed"
      BY <1>3, <2>1 DEF Delete
    <2> QED
      BY <2>1, <2>2 DEF Changes
  <1>4. \/ coloring' = coloring
        \/ \E t \in Outgoing : SendStep(t)
        \/ \E x \in Incoming : Accept(x)
        \/ \E x \in Outgoing \cup Incoming : Delete(x)
    BY DEF Next, vars, BlindReceive, WitnessReceive, ReceiveStep, Published,
       ReachSafeHeight, SeeBroadcast, SettleReceived, FailReceived, SyncTxo
  <1> QED
    BY <1>1, <1>2, <1>3, <1>4

\* A step that writes no row and begins, accepts and gives up nothing leaves both
\* sums as they are.
LEMMA FutureKept ==
    ASSUME Reservations, Accounts, FutureAddsUp, FutureAddsUp', [Next]_vars,
           Undisturbed', \A x \in Transfers : status'[x] # status[x] => ~Changes(x)
    PROVE  \A a \in Assets : Future(a)' = Future(a)
  <1>1. Books /\ Undisturbed
    BY StaysDisturbed, FinitenessAssumption, AmountAssumption, BoundAssumption
       DEF Accounts
  <1>2. coloring' = coloring
    BY <1>1, NoRowWritten
  <1>3. \A c \in coloring : Standing(c)' <=> Standing(c)
    <2>1. \A c \in coloring : c.of \in Transfers
      BY <1>1 DEF Books, TypeOK, Coloring
    <2> QED
      BY <2>1 DEF Standing, Changes
  <1>4. ASSUME NEW a \in Assets
        PROVE  Comings(a)' = Comings(a) /\ Goings(a)' = Goings(a)
    BY <1>2, <1>3 DEF Comings, Goings, Of, Comes
  <1>5. ASSUME NEW a \in Assets PROVE Future(a)' = Future(a)
    <2>1. Future(a) = Sum(Comings(a)) - Sum(Goings(a))
      BY <1>1 DEF FutureAddsUp
    <2>2. Future(a)' = Sum(Comings(a)') - Sum(Goings(a)')
      BY DEF FutureAddsUp
    <2> QED
      BY <1>4, <2>1, <2>2
  <1> QED
    BY <1>5

\* A transfer that merely goes on leaves the future balance as it is, where no
\* witness invoice asks for an amount.
THEOREM FutureKeptCorrect ==
    ASSUME Requests \subseteq {0}
    PROVE  Spec => FutureIsKept
  <1>1. Accounts => FutureAddsUp
    BY AddsUp
  <1>2. Reservations /\ Accounts /\ FutureAddsUp /\ FutureAddsUp' /\ [Next]_vars
        => [Undisturbed' /\ (\A x \in Transfers : status'[x] # status[x] => ~Changes(x))
               => \A a \in Assets : Future(a)' = Future(a)]_vars
    BY FutureKept
  <1> QED
    BY <1>1, <1>2, AccountsHold, PTL DEF Spec, FutureIsKept

(***************************************************************************)
(* The settled balance                                                     *)
(***************************************************************************)

\* what settled transfers took of an asset, and what came back to them
TakenBy(X, a) ==
    {c \in Of(a) : ~Comes(c) /\ StatusOf(c) = "Settled" /\ c.of \in X}
BackTo(X, a) ==
    {c \in Of(a) : c.type = "Change" /\ StatusOf(c) = "Settled" /\ c.of \in X}
SentOff == {t \in Outgoing : status[t] = "Settled"}

\* A settled transfer took what it moved, and the rest of its order came back.
LEMMA SettledTransfer ==
    ASSUME Books, NEW t \in SentOff, NEW a \in Assets
    PROVE  Sum(TakenBy({t}, a)) - Sum(BackTo({t}, a)) = plan[t].order[a]
  <1> DEFINE p == plan[t]
             I == MovedOf(p, a)
             f == [m \in I |-> [txo |-> m.txo, of |-> t, type |-> "Input",
                                asset |-> m.asset, amount |-> m.amount]]
             J == {f[m] : m \in I}
             r == [txo |-> p.seat, of |-> t, type |-> "Change", asset |-> a,
                   amount |-> Back(p, a)]
  <1>1. /\ p \in Plan /\ IsFiniteSet(p.moved) /\ Back(p, a) >= 0
        /\ t \in Outgoing /\ status[t] = "Settled"
    BY DEF Books, TypeOK, PlansAreRight, SentOff
  <1>2. /\ Amounted(I) /\ Sum(I) \in Nat /\ p.order[a] \in Nat
        /\ Back(p, a) \in Int /\ Back(p, a) = Sum(I) - p.order[a]
    BY <1>1, BackIsInt
  <1>3. RowsOf(t) = InputRows(t, p) \cup ChangeRows(t, p)
    BY <1>1 DEF Books, RowsAreExact
  <1>4. \A c : c \in InputRows(t, p) /\ c.asset = a <=> c \in J
    <2>1. ASSUME NEW c \in InputRows(t, p), c.asset = a PROVE c \in J
      <3>1. PICK m \in p.moved :
               c = [txo |-> m.txo, of |-> t, type |-> "Input", asset |-> m.asset,
                    amount |-> m.amount]
        BY DEF InputRows
      <3>2. m.asset = a
        BY <2>1, <3>1
      <3>3. m \in I /\ f[m] = c
        BY <3>1, <3>2 DEF MovedOf
      <3> HIDE DEF f, I
      <3> QED
        BY <3>3
    <2>2. ASSUME NEW m \in I PROVE f[m] \in InputRows(t, p) /\ f[m].asset = a
      BY DEF MovedOf, InputRows
    <2> HIDE DEF f, I
    <2> QED
      BY <2>1, <2>2
  <1>5. \A c : c \in ChangeRows(t, p) /\ c.asset = a <=> Back(p, a) > 0 /\ c = r
    BY DEF ChangeRows
  <1>6. /\ \A c \in InputRows(t, p) : c.type = "Input" /\ c.of = t
        /\ \A c \in ChangeRows(t, p) : c.type = "Change" /\ c.of = t
    BY DEF InputRows, ChangeRows
  <1>7. TakenBy({t}, a) = J
    <2>1. \A c : c \in TakenBy({t}, a) <=>
                    c \in RowsOf(t) /\ c.asset = a /\ c.type = "Input"
      BY <1>1 DEF TakenBy, Of, RowsOf, StatusOf, Comes
    <2> HIDE DEF J
    <2>2. \A c : c \in TakenBy({t}, a) <=> c \in J
      BY <1>3, <1>4, <1>6, <2>1
    <2> QED
      BY <2>2
  <1>8. BackTo({t}, a) = IF Back(p, a) > 0 THEN {r} ELSE {}
    <2>1. \A c : c \in BackTo({t}, a) <=>
                    c \in RowsOf(t) /\ c.asset = a /\ c.type = "Change"
      BY <1>1 DEF BackTo, Of, RowsOf, StatusOf
    <2> HIDE DEF r
    <2>2. \A c : c \in BackTo({t}, a) <=> Back(p, a) > 0 /\ c = r
      BY <1>3, <1>5, <1>6, <2>1
    <2> QED
      BY <2>2
  <1>9. Sum(J) = Sum(I)
    <2>1. \A m \in I : m.amount = f[m].amount /\ f[m].amount \in Int
      BY <1>2 DEF Amounted
    <2>2. \A m, n \in I : f[m] = f[n] => m = n
      <3> TAKE m, n \in I
      <3>1. HAVE f[m] = f[n]
      <3>2. m.txo = n.txo /\ m.asset = n.asset /\ m.amount = n.amount
        BY <3>1
      <3>3. m \in Moved /\ n \in Moved
        BY <1>1 DEF MovedOf, Plan
      <3> QED
        BY <3>2, <3>3 DEF Moved
    <2>3. IsFiniteSet(I)
      BY <1>2 DEF Amounted
    <2>4. J = {f[m] : m \in I}
      OBVIOUS
    <2> HIDE DEF f, I, J
    <2> QED
      BY <2>1, <2>2, <2>3, <2>4, SumOfImage
  <1>10. Sum(BackTo({t}, a)) = Back(p, a)
    <2>1. r.amount = Back(p, a)
      OBVIOUS
    <2> HIDE DEF r
    <2>2. CASE Back(p, a) > 0
      BY <1>2, <1>8, <2>1, <2>2, SumOfOne
    <2>3. CASE Back(p, a) = 0
      BY <1>8, <2>3, SumOfNone
    <2> QED
      BY <1>1, <1>2, <2>2, <2>3
  <1> HIDE DEF p, J, I, f
  <1>11. p.order[a] = Sum(I) - Back(p, a)
    BY <1>2
  <1> QED
    BY <1>7, <1>9, <1>10, <1>11 DEF p

\* Over all of them: what was sent.
LEMMA SentIs ==
    ASSUME Books, NEW a \in Assets
    PROVE  Sum(TakenBy(SentOff, a)) - Sum(BackTo(SentOff, a)) = Sent(a)
  <1>1. PICK w : w = [t \in SentOff |-> plan[t].order[a]]
    OBVIOUS
  <1>2. IsFiniteSet(SentOff)
    BY FS_Subset, FinitenessAssumption DEF FinitenessAssumption, SentOff
  <1>3. \A t \in SentOff : w[t] = plan[t].order[a] /\ w[t] \in Int
    BY <1>1 DEF SentOff, Books, TypeOK, Plan
  <1>4. Sent(a) = Total(w, SentOff)
    <2> DEFINE Iter(g) ==
            g = [s \in SUBSET SentOff |->
                   IF s = {} THEN 0
                   ELSE plan[CHOOSE x \in s : TRUE].order[a]
                           + g[s \ {CHOOSE x \in s : TRUE}]]
               h == CHOOSE g : Iter(g)
    <2>1. \A g : Iter(g) <=> Totals(g, w, SentOff)
      <3> TAKE g
      <3>1. ASSUME NEW s \in SUBSET SentOff
            PROVE  SumStep(g, w, s) =
                      IF s = {} THEN 0
                      ELSE plan[CHOOSE x \in s : TRUE].order[a]
                              + g[s \ {CHOOSE x \in s : TRUE}]
        <4>1. s # {} => Least(s) \in SentOff
                        /\ w[Least(s)] = plan[Least(s)].order[a]
          BY <1>3, LeastIn
        <4> QED
          BY <4>1 DEF SumStep, Least
      <3> DEFINE step == [s \in SUBSET SentOff |-> SumStep(g, w, s)]
                 iter == [s \in SUBSET SentOff |->
                            IF s = {} THEN 0
                            ELSE plan[CHOOSE x \in s : TRUE].order[a]
                                    + g[s \ {CHOOSE x \in s : TRUE}]]
      <3>2. step = iter
        BY <3>1
      <3>3. Totals(g, w, SentOff) <=> g = step
        BY DEF Totals
      <3>4. Iter(g) <=> g = iter
        OBVIOUS
      <3> HIDE DEF step, iter, Iter
      <3> QED
        BY <3>2, <3>3, <3>4
    <2>2. Sent(a) = h[SentOff]
      BY DEF Sent, MapThenSumSet, MapThenFoldSet, SentOff
    <2>3. Iter(h)
      <3> HIDE DEF Iter
      <3> QED
        BY <1>2, <2>1, TotalsExist
    <2> HIDE DEF h, Iter
    <2>4. Totals(h, w, SentOff)
      BY <2>1, <2>3
    <2> QED
      BY <1>2, <2>2, <2>4, TotalOfPart
  <1> DEFINE F == {X \in SUBSET SentOff :
                     Sum(TakenBy(X, a)) - Sum(BackTo(X, a)) = Total(w, X)}
  <1>5. \A X : TakenBy(X, a) \subseteq Of(a) /\ BackTo(X, a) \subseteq Of(a)
    BY DEF TakenBy, BackTo
  <1>6. \A X : /\ Amounted(TakenBy(X, a)) /\ Amounted(BackTo(X, a))
               /\ Sum(TakenBy(X, a)) \in Nat /\ Sum(BackTo(X, a)) \in Nat
    BY <1>5, OfRows
  <1>7. {} \in F
    <2>1. TakenBy({}, a) = {} /\ BackTo({}, a) = {}
      BY DEF TakenBy, BackTo
    <2>2. Total(w, {}) = 0
      BY TotalFacts, FS_EmptySet
    <2> QED
      BY <2>1, <2>2, SumOfNone
  <1>8. ASSUME NEW X \in F, NEW t \in SentOff \ X PROVE X \cup {t} \in F
    <2> DEFINE Y == X \cup {t}
    <2>1. /\ TakenBy(Y, a) = TakenBy(X, a) \cup TakenBy({t}, a)
          /\ BackTo(Y, a) = BackTo(X, a) \cup BackTo({t}, a)
          /\ TakenBy(X, a) \cap TakenBy({t}, a) = {}
          /\ BackTo(X, a) \cap BackTo({t}, a) = {}
      BY DEF TakenBy, BackTo
    <2>2. Y \in SUBSET SentOff /\ Y \ {t} = X
      OBVIOUS
    <2>3. Sum(TakenBy(X, a)) - Sum(BackTo(X, a)) = Total(w, X)
      OBVIOUS
    <2>4. t \in Y
      OBVIOUS
    <2> HIDE DEF Y, F
    <2>5. Sum(TakenBy(Y, a)) = Sum(TakenBy(X, a)) + Sum(TakenBy({t}, a))
      BY <1>6, <2>1, SumOfUnion
    <2>6. Sum(BackTo(Y, a)) = Sum(BackTo(X, a)) + Sum(BackTo({t}, a))
      BY <1>6, <2>1, SumOfUnion
    <2>7. Sum(TakenBy({t}, a)) - Sum(BackTo({t}, a)) = w[t]
      BY <1>3, SettledTransfer
    <2>8. Total(w, Y) = w[t] + Total(w, X)
      <3>1. IsFiniteSet(Y)
        BY <1>2, <2>2, FS_Subset
      <3>2. \A x \in Y : w[x] \in Int
        BY <1>3, <2>2
      <3> QED
        BY <2>2, <2>4, <3>1, <3>2, TotalFacts
    <2> DEFINE x1 == Sum(TakenBy(X, a))
               x2 == Sum(BackTo(X, a))
               t1 == Sum(TakenBy({t}, a))
               t2 == Sum(BackTo({t}, a))
    <2>9. x1 \in Nat /\ x2 \in Nat /\ t1 \in Nat /\ t2 \in Nat
      BY <1>6
    <2>10. Sum(TakenBy(Y, a)) = x1 + t1 /\ Sum(BackTo(Y, a)) = x2 + t2
           /\ x1 - x2 = Total(w, X) /\ t1 - t2 = w[t]
      BY <2>3, <2>5, <2>6, <2>7
    <2> HIDE DEF x1, x2, t1, t2
    <2>11. Sum(TakenBy(Y, a)) - Sum(BackTo(Y, a)) = Total(w, Y)
      BY <2>8, <2>9, <2>10
    <2>12. Y \in F
      BY <2>2, <2>11 DEF F
    <2> QED
      BY <2>12 DEF Y
  <1>9. SentOff \in F
    <2>1. F \in SUBSET SUBSET SentOff
      OBVIOUS
    <2> HIDE DEF F
    <2> QED
      BY <1>2, <1>7, <1>8, <2>1, SetInduction
  <1> QED
    BY <1>4, <1>9

\* The rows of the initial allocations are the initial allocations.
LEMMA IssuedSum ==
    ASSUME NEW a \in Assets
    PROVE  Sum({c \in Issued : c.asset = a}) = Sum({h \in Holding : h.asset = a})
  <1> DEFINE I == {h \in Holding : h.asset = a}
             f == [h \in I |-> [txo |-> h.txo, of |-> Issuance, type |-> "Issue",
                                asset |-> h.asset, amount |-> h.amount]]
             J == {c \in Issued : c.asset = a}
  <1>1. IsFiniteSet(I)
    BY FS_Subset, FinitenessAssumption DEF FinitenessAssumption
  <1>2. \A h \in I : h.amount = f[h].amount /\ f[h].amount \in Int
    BY AmountAssumption DEF AmountAssumption
  <1>3. \A g, h \in I : f[g] = f[h] => g = h
    <2> TAKE g, h \in I
    <2>1. HAVE f[g] = f[h]
    <2>2. g.txo = h.txo /\ g.asset = h.asset /\ g.amount = h.amount
      BY <2>1
    <2> QED
      BY <2>2, AmountAssumption DEF AmountAssumption
  <1>4. \A c \in J : \E h \in I : c = f[h]
    <2> TAKE c \in J
    <2>1. PICK h \in Holding :
             c = [txo |-> h.txo, of |-> Issuance, type |-> "Issue",
                  asset |-> h.asset, amount |-> h.amount]
      BY DEF Issued
    <2>2. h \in I
      BY <2>1
    <2>3. f[h] = c
      BY <2>1, <2>2
    <2> QED
      BY <2>2, <2>3
  <1>5. \A h \in I : f[h] \in J
    BY DEF Issued
  <1> HIDE DEF f, I, J
  <1>6. J = {f[h] : h \in I}
    BY <1>4, <1>5
  <1>7. Sum(I) = Sum(J)
    BY <1>1, <1>2, <1>3, <1>6, SumOfImage
  <1> QED
    BY <1>7 DEF I, J

\* The settled rows that come are the initial ones, those received and the change;
\* the change and what settled transfers took make up what was sent.
LEMMA BalanceRight ==
    ASSUME Accounts
    PROVE  BalanceIsConserved
  <1> SUFFICES ASSUME Undisturbed, NEW a \in Assets
               PROVE  Settled(a) = Sum({h \in Holding : h.asset = a})
                                      + Received(a) - Sent(a)
    BY DEF BalanceIsConserved
  <1> DEFINE In == {c \in Of(a) : Comes(c) /\ StatusOf(c) = "Settled"}
             Lost == {c \in Of(a) : ~Comes(c) /\ StatusOf(c) = "Settled"}
             First == {c \in Issued : c.asset = a}
             Got == {c \in Of(a) : c.type = "Receive" /\ StatusOf(c) = "Settled"}
             Rest == BackTo(SentOff, a)
  <1>1. Books /\ MovesAreWhole
    BY DEF Accounts
  <1>2. /\ TypeOK /\ RowsAreExact
        /\ \A c \in coloring : /\ c.of \in Outgoing \cup Incoming \cup {Issuance}
                               /\ c \in RowsOf(c.of)
    BY <1>1 DEF Books, TypeOK, Coloring, Transfers, RowsOf
  <1>3. Lost = TakenBy(SentOff, a)
    <2>1. \A c \in Lost : c.of \in SentOff
      BY <1>1, InputRow DEF Of, SentOff, StatusOf
    <2> QED
      BY <2>1 DEF TakenBy
  <1>4. First = {c \in Of(a) : c.type = "Issue" /\ StatusOf(c) = "Settled"}
    <2>1. ASSUME NEW c \in First
          PROVE  c \in Of(a) /\ c.type = "Issue" /\ StatusOf(c) = "Settled"
      BY <1>2 DEF RowsAreExact, RowsOf, Of, Issued, StatusOf
    <2>2. ASSUME NEW c \in coloring, c.type = "Issue" PROVE c \in Issued
      <3>1. c.of \notin Incoming
        BY <1>2, <2>2 DEF RowsAreExact
      <3>2. c.of \notin Outgoing
        BY <1>2, <2>2 DEF RowsAreExact, InputRows, ChangeRows
      <3> QED
        BY <1>2, <3>1, <3>2 DEF RowsAreExact
    <2> QED
      BY <2>1, <2>2 DEF Of
  <1>5. Rest = {c \in Of(a) : c.type = "Change" /\ StatusOf(c) = "Settled"}
    <2>1. ASSUME NEW c \in coloring, c.type = "Change" PROVE c.of \in Outgoing
      <3>1. c.of \notin Incoming
        BY <1>2, <2>1 DEF RowsAreExact
      <3>2. c.of # Issuance
        BY <1>2, <2>1 DEF RowsAreExact, Issued
      <3> QED
        BY <1>2, <3>1, <3>2
    <2> QED
      BY <2>1 DEF BackTo, SentOff, StatusOf, Of
  <1>6. \A c \in Of(a) : c.type \in {"Issue", "Receive", "Change", "Input"}
    BY <1>2 DEF Of, TypeOK, Coloring, ColoringType
  <1>7. In = (First \cup Got) \cup Rest
    <2>1. \A c \in Of(a) : Comes(c) <=> c.type = "Issue" \/ c.type = "Receive"
                                        \/ c.type = "Change"
      BY <1>6 DEF Comes
    <2> QED
      BY <1>4, <1>5, <2>1
  <1>8. First \cap Got = {} /\ (First \cup Got) \cap Rest = {}
    BY <1>4, <1>5
  <1>9. /\ First \subseteq Of(a) /\ Got \subseteq Of(a) /\ Rest \subseteq Of(a)
        /\ Lost \subseteq Of(a)
    BY <1>4, <1>5
  <1>10. /\ Settled(a) = Sum(In) - Sum(Lost)
         /\ Received(a) = Sum(Got)
         /\ Sum(TakenBy(SentOff, a)) - Sum(Rest) = Sent(a)
         /\ Sum(First) = Sum({h \in Holding : h.asset = a})
    BY <1>1, SettledIs, SentIs, IssuedSum DEF Received
  <1> HIDE DEF In, Lost, First, Got, Rest
  <1>11. /\ Amounted(First) /\ Amounted(Got) /\ Amounted(Rest)
         /\ Sum(First) \in Nat /\ Sum(Got) \in Nat /\ Sum(Rest) \in Nat
         /\ Sum(Lost) \in Nat
    BY <1>1, <1>9, OfRows
  <1>12. /\ Amounted(First \cup Got)
         /\ Sum(First \cup Got) = Sum(First) + Sum(Got)
    BY <1>8, <1>11, SumOfUnion
  <1>13. Sum((First \cup Got) \cup Rest) = Sum(First \cup Got) + Sum(Rest)
    BY <1>8, <1>11, <1>12, SumOfUnion
  <1>14. Sum(In) = Sum(First) + Sum(Got) + Sum(Rest)
    BY <1>7, <1>12, <1>13
  <1>15. Sent(a) = Sum(Lost) - Sum(Rest)
    BY <1>3, <1>10
  <1>16. Settled(a) = Sum(First) + Sum(Got) - Sent(a)
    BY <1>10, <1>11, <1>14, <1>15
  <1> QED
    BY <1>10, <1>16

\* The settled balance is what there was at first, plus what was received,
\* minus what was sent.
THEOREM BalanceCorrect == Spec => []BalanceIsConserved
  <1>1. Accounts => BalanceIsConserved
    BY BalanceRight
  <1> QED
    BY <1>1, AccountsHold, PTL

=============================================================================
