---------------------------- MODULE SupplyProofs ----------------------------
(* Proofs about Supply: the supply that wallets know of.                   *)
EXTENDS Supply, TLAPS

\* Without a genesis there is nothing.
NothingYet ==
    asset = None =>
        /\ inflated = <<>> /\ psbts = {} /\ counted = {} /\ pending = {}
        /\ \A w \in Wallets : dbRight[w] = None /\ stock[w] = None /\ known[w] = None

\* The supply rises to what the rights leave of the maximum.
ChainAddsUp ==
    asset # None =>
        /\ Len(supplies) = Len(inflated) + 1
        /\ supplies[1] = asset.settled
        /\ \A i, j \in 1 .. Len(supplies) : i <= j => supplies[i] <= supplies[j]
        /\ IssuedSupply + right.amount = asset.max

\* The wallet's database has the rights as they are now.
Holds(w) == dbRight[w] # None /\ dbRight[w].version = right.version

NobodyHolds == \A w \in Wallets : ~Holds(w)

\* The rights are in one database, or on their way to one, or an inflation
\* that spent them has not been counted.
RightIsUnique ==
    /\ \A w \in Wallets : dbRight[w] # None =>
         /\ dbRight[w].version <= right.version
         /\ stock[w] # None
         /\ asset.schema = "Ifa"
    /\ \A w \in Wallets : Holds(w) => dbRight[w].amount = right.amount
    /\ \A w, v \in Wallets : Holds(w) /\ Holds(v) => w = v
    /\ \A r \in pending : r.rights =>
         NobodyHolds /\ r.k = Len(inflated) /\ published = counted /\ asset.schema = "Ifa"
    /\ \A r, s \in pending : r.rights /\ s.rights => r = s

\* A prepared inflation can only be broadcast by who holds the rights.
PsbtsAreOld ==
    /\ \A p \in psbts :
         /\ p.on <= right.version
         /\ p.on = right.version => Holds(p.by) /\ p.amount <= right.amount
         /\ stock[p.by] # None
         /\ asset.schema = "Ifa"
    /\ \A n \in 1 .. Len(inflated) : inflated[n].on < right.version
    /\ \A i, j \in 1 .. Len(inflated) : i < j => inflated[i].on < inflated[j].on

StockIsKnown ==
    /\ \A w \in Wallets : known[w] # None => stock[w] # None /\ asset.schema = "Ifa"
    /\ \A w \in Wallets : stock[w] # None /\ asset.schema = "Ifa" => known[w] # None
    /\ \A r \in pending : stock[r.to] # None
    /\ \A n \in 1 .. Len(inflated) :
         inflated[n] \in counted => n <= stock[inflated[n].by]

NoExcess ==
    ~repeated => \A w \in Holders : known[w] # None => known[w] <= IssuedSupply

\* The last inflation was made by w and cut short.
Lags(w) ==
    /\ Len(inflated) > 0
    /\ inflated[Len(inflated)] \notin counted
    /\ inflated[Len(inflated)].by = w

NoDelay ==
    /\ \A w \in Holders : known[w] # None => Issued(stock[w]) <= known[w] \/ Lags(w)
    /\ \A w \in Wallets : Holds(w) => IssuedSupply <= known[w]
    /\ \A n \in 1 .. Len(inflated) : inflated[n] \notin counted =>
         /\ n = Len(inflated)
         /\ NobodyHolds
         /\ IssuedSupply <= known[inflated[n].by] + inflated[n].amount

IInv ==
    /\ TypeOK
    /\ NothingYet /\ ChainAddsUp
    /\ RightIsUnique /\ PsbtsAreOld /\ StockIsKnown
    /\ NoExcess /\ NoDelay

-----------------------------------------------------------------------------
(* Sequences, supplies and holders.                                         *)

\* The inflations are prepared ones, and what is issued are amounts.
LEMMA ChainFacts ==
    ASSUME TypeOK
    PROVE  /\ Len(inflated) \in Nat /\ DOMAIN inflated = 1 .. Len(inflated)
           /\ \A n \in 1 .. Len(inflated) : inflated[n] \in psbts /\ inflated[n] \in Psbt
           /\ published = {inflated[n] : n \in 1 .. Len(inflated)}
           /\ published \subseteq psbts
           /\ right.version \in Nat /\ right.amount \in 0 .. MaxAmount
           /\ \A p \in psbts : p.by \in Wallets /\ p.on \in Nat /\ p.amount \in 0 .. MaxAmount
           /\ \A r \in pending : r.to \in Wallets /\ r.k \in 0 .. Len(inflated) /\ r.rights \in BOOLEAN
           /\ MaxAmount \in Nat /\ None \notin Int
  BY SupplyAssumption DEF TypeOK, published, Psbt, Right, Amount

\* A history shows no more than all the inflations do.
LEMMA SupplyFacts ==
    ASSUME TypeOK, ChainAddsUp, asset # None
    PROVE  /\ \A k \in 0 .. Len(inflated) : Issued(k) \in Nat /\ Issued(k) <= IssuedSupply
           /\ \A j \in 0 .. Len(inflated) : \A k \in 0 .. j : Issued(k) <= Issued(j)
           /\ IssuedSupply \in Nat
           /\ Issued(0) = asset.settled
           /\ IssuedSupply + right.amount = asset.max
           /\ asset.max \in 0 .. MaxAmount /\ asset.settled \in 0 .. MaxAmount
           /\ asset.schema \in Schemas
  <1>1. Len(inflated) \in Nat
    BY ChainFacts
  <1>2. /\ Len(supplies) = Len(inflated) + 1
        /\ \A n \in 1 .. Len(supplies) : supplies[n] \in Nat
    BY DEF TypeOK, ChainAddsUp
  <1>3. asset \in Genesis
    BY DEF TypeOK
  <1> QED BY <1>1, <1>2, <1>3 DEF Issued, IssuedSupply, ChainAddsUp, Genesis, Amount

\* What a wallet's tables hold.
LEMMA WalletFacts ==
    ASSUME IInv, NEW w \in Wallets
    PROVE  /\ stock[w] # None => asset # None /\ stock[w] \in 0 .. Len(inflated)
           /\ known[w] # None => known[w] \in 0 .. MaxAmount /\ stock[w] # None
           /\ dbRight[w] # None =>
                /\ dbRight[w] \in Right /\ dbRight[w].version \in Nat
                /\ dbRight[w].amount \in 0 .. MaxAmount
                /\ stock[w] # None /\ known[w] # None
  BY DEF IInv, TypeOK, NothingYet, StockIsKnown, RightIsUnique, Right, Amount

\* Who prepared an inflation knows the asset.
LEMMA PsbtFacts ==
    ASSUME IInv, NEW p \in psbts
    PROVE  /\ asset # None /\ p.by \in Wallets
           /\ known[p.by] # None /\ known[p.by] \in 0 .. MaxAmount
           /\ stock[p.by] # None /\ stock[p.by] \in 0 .. Len(inflated)
  <1>1. p.by \in Wallets
    BY ChainFacts DEF IInv
  <1>2. stock[p.by] # None /\ asset.schema = "Ifa"
    BY DEF IInv, PsbtsAreOld
  <1>3. known[p.by] # None
    BY <1>1, <1>2 DEF IInv, StockIsKnown
  <1> QED BY <1>1, <1>2, <1>3, WalletFacts

\* While someone holds the rights every inflation has been counted and no
\* rights are on their way.
LEMMA HolderFacts ==
    ASSUME IInv, NEW w \in Wallets, Holds(w)
    PROVE  /\ published = counted
           /\ \A n \in 1 .. Len(inflated) : inflated[n] \in counted
           /\ \A r \in pending : ~r.rights
           /\ \A v \in Wallets : Holds(v) => v = w
           /\ IssuedSupply <= known[w]
  <1>1. \A n \in 1 .. Len(inflated) : inflated[n] \in counted
    BY DEF IInv, NoDelay, NobodyHolds
  <1>2. counted \subseteq published
    BY DEF IInv, TypeOK
  <1>3. published = counted
    BY <1>1, <1>2, ChainFacts DEF IInv
  <1> QED BY <1>1, <1>3 DEF IInv, NoDelay, NobodyHolds, RightIsUnique

-----------------------------------------------------------------------------
(* The initial state and the steps.                                         *)

LEMMA InitEstablishes ==
    ASSUME Init PROVE IInv
  <1>1. published = {}
    BY DEF Init, published
  <1>2. TypeOK
    <2>1. inflated \in Seq(psbts) /\ supplies \in Seq(Nat)
      BY DEF Init
    <2>2. right \in Right
      BY SupplyAssumption DEF Init, Right, Amount
    <2> QED BY <1>1, <2>1, <2>2 DEF Init, TypeOK
  <1>3. NothingYet /\ ChainAddsUp /\ StockIsKnown /\ NoExcess
    BY DEF Init, NothingYet, ChainAddsUp, StockIsKnown, NoExcess, Holders
  <1>4. RightIsUnique /\ PsbtsAreOld
    BY DEF Init, RightIsUnique, PsbtsAreOld, Holds
  <1>5. NoDelay
    BY DEF Init, NoDelay, Holds, Holders
  <1> QED BY <1>2, <1>3, <1>4, <1>5 DEF IInv

\* An issuance puts a first supply in place, and the rights to the rest.
LEMMA IssueKeeps ==
    ASSUME IInv, NEW w \in Wallets, NEW schema \in Schemas, NEW settled \in Amount,
           NEW inflation \in Amount, NEW supply, Issue(w, schema, settled, inflation, supply),
           settled + inflation <= MaxAmount,
           IF schema = "Ifa" THEN supply = settled ELSE supply = None /\ inflation = 0
    PROVE  IInv'
  <1>1. /\ inflated = <<>> /\ psbts = {} /\ counted = {} /\ pending = {} /\ asset = None
        /\ \A v \in Wallets : dbRight[v] = None /\ stock[v] = None /\ known[v] = None
    BY DEF IInv, NothingYet, Issue
  <1>2. /\ inflated' = <<>> /\ psbts' = {} /\ counted' = {} /\ pending' = {}
        /\ repeated' = repeated /\ burned' = burned
        /\ supplies' = <<settled>>
        /\ right' = [version |-> 0, amount |-> inflation]
        /\ asset' = [schema |-> schema, settled |-> settled, max |-> settled + inflation]
    BY <1>1 DEF Issue, ops
  <1>3. /\ dbRight' = [dbRight EXCEPT ![w] = IF inflation > 0 THEN right' ELSE None]
        /\ stock' = [stock EXCEPT ![w] = 0]
        /\ known' = [known EXCEPT ![w] = supply]
    BY DEF Issue
  <1>4. MaxAmount \in Nat /\ settled \in 0 .. MaxAmount /\ inflation \in 0 .. MaxAmount
    BY SupplyAssumption DEF Amount
  <1>5. right' \in Right /\ asset' \in Genesis
    BY <1>2, <1>4 DEF Right, Genesis, Amount
  <1>6. asset' # None /\ right' # None /\ 0 # None
    BY <1>5, SupplyAssumption
  <1>7. Len(inflated') = 0 /\ published' = {}
    BY <1>2 DEF published
  <1>8. TypeOK'
    <2>1. inflated' \in Seq(psbts') /\ supplies' \in Seq(Nat)
      BY <1>2, <1>4
    <2>2. supply \in Amount \cup {None}
      OBVIOUS
    <2>3. /\ dbRight' \in [Wallets -> Right \cup {None}]
          /\ stock' \in [Wallets -> 0 .. Len(inflated') \cup {None}]
          /\ known' \in [Wallets -> Amount \cup {None}]
      BY <1>1, <1>3, <1>5, <1>7, <2>2 DEF IInv, TypeOK
    <2> QED BY <1>2, <1>5, <1>7, <2>1, <2>3 DEF IInv, TypeOK
  <1>9. \A v \in Wallets :
          /\ dbRight'[v] = IF v = w /\ inflation > 0 THEN right' ELSE None
          /\ stock'[v] = IF v = w THEN 0 ELSE None
          /\ known'[v] = IF v = w THEN supply ELSE None
    BY <1>1, <1>3 DEF IInv, TypeOK
  <1>10. IssuedSupply' = settled /\ Issued(0)' = settled
    BY <1>2, <1>7 DEF IssuedSupply, Issued
  <1>11. NothingYet'
    BY <1>6 DEF NothingYet
  <1>12. ChainAddsUp'
    BY <1>2, <1>4, <1>7, <1>10 DEF ChainAddsUp
  <1>13. RightIsUnique'
    BY <1>2, <1>4, <1>6, <1>9 DEF RightIsUnique, Holds
  <1>14. PsbtsAreOld'
    BY <1>2, <1>7 DEF PsbtsAreOld
  <1>15. StockIsKnown'
    BY <1>2, <1>4, <1>6, <1>7, <1>9, SupplyAssumption DEF StockIsKnown
  <1>16. NoExcess'
    BY <1>4, <1>9, <1>10 DEF NoExcess, Holders
  <1>17. NoDelay'
    <2>1. \A v \in Holders' : v = w /\ stock'[v] = 0
      BY <1>9 DEF Holders
    <2>2. \A v \in Holders' : known'[v] # None => Issued(stock[v])' <= known'[v]
      BY <1>2, <1>4, <1>9, <2>1 DEF Issued
    <2>3. \A v \in Wallets : Holds(v)' => IssuedSupply' <= known'[v]
      BY <1>4, <1>9, <1>10 DEF Holds
    <2> QED BY <1>7, <2>2, <2>3 DEF NoDelay
  <1> QED BY <1>8, <1>11, <1>12, <1>13, <1>14, <1>15, <1>16, <1>17 DEF IInv

\* A preparation uses the rights as the database has them.
LEMMA InflateBeginKeeps ==
    ASSUME IInv, NEW w \in Wallets, NEW x \in Amount, InflateBegin(w, x)
    PROVE  IInv'
  <1> DEFINE q == [by |-> w, on |-> dbRight[w].version, amount |-> x]
  <1>1. /\ dbRight[w] # None /\ x <= dbRight[w].amount
        /\ psbts' = psbts \cup {q}
        /\ UNCHANGED <<chain, dbRight, counted, repeated, stock, known, pending>>
    BY DEF InflateBegin
  <1>2. UNCHANGED <<asset, inflated, supplies, burned, right>>
    BY <1>1 DEF chain
  <1>3. /\ dbRight[w] \in Right /\ dbRight[w].version <= right.version
        /\ asset.schema = "Ifa" /\ stock[w] # None /\ asset # None
        /\ Holds(w) => dbRight[w].amount = right.amount
    BY <1>1, WalletFacts DEF IInv, RightIsUnique
  <1>4. q \in Psbt
    BY <1>3 DEF Psbt, Right
  <1>5. published' = published
    BY <1>2 DEF published
  <1>6. TypeOK'
    BY <1>1, <1>2, <1>4, <1>5 DEF IInv, TypeOK
  <1>7. NothingYet' /\ ChainAddsUp' /\ RightIsUnique' /\ StockIsKnown' /\ NoExcess' /\ NoDelay'
    <2>1. NothingYet'
      BY <1>2, <1>3 DEF NothingYet
    <2>2. ChainAddsUp' /\ NoExcess'
      BY <1>1, <1>2 DEF IInv, ChainAddsUp, NoExcess, IssuedSupply, Issued, Holders
    <2>3. RightIsUnique'
      BY <1>1, <1>2, <1>5 DEF IInv, RightIsUnique, NobodyHolds, Holds
    <2>4. StockIsKnown'
      BY <1>1, <1>2 DEF IInv, StockIsKnown
    <2>5. NoDelay'
      BY <1>1, <1>2 DEF IInv, NoDelay, IssuedSupply, Issued, Holders, Holds, NobodyHolds, Lags
    <2> QED BY <2>1, <2>2, <2>3, <2>4, <2>5
  <1>8. PsbtsAreOld'
    <2>1. q.on = right.version => Holds(w) /\ x <= right.amount
      BY <1>1, <1>3 DEF Holds
    <2>2. \A p \in psbts' : p \in psbts \/ p = q
      BY <1>1
    <2> QED BY <1>1, <1>2, <1>3, <2>1, <2>2 DEF IInv, PsbtsAreOld, Holds
  <1> QED BY <1>6, <1>7, <1>8 DEF IInv

-----------------------------------------------------------------------------
(* The end of an inflation.                                                 *)

\* The network spends the rights: what is issued and what is left add up.
LEMMA FirstBroadcast ==
    ASSUME IInv, NEW p \in psbts, p.on = right.version,
           inflated' = Append(inflated, p),
           supplies' = Append(supplies, IssuedSupply + p.amount),
           right' = [version |-> right.version + 1, amount |-> right.amount - p.amount],
           asset' = asset, psbts' = psbts
    PROVE  /\ p \notin published /\ published' = published \cup {p}
           /\ Holds(p.by) /\ p.amount \in 0 .. right.amount
           /\ Len(inflated') = Len(inflated) + 1
           /\ \A n \in 1 .. Len(inflated) : inflated'[n] = inflated[n]
           /\ inflated'[Len(inflated) + 1] = p
           /\ \A k \in 0 .. Len(inflated) : Issued(k)' = Issued(k)
           /\ IssuedSupply' = IssuedSupply + p.amount
           /\ right' \in Right /\ right' # None /\ right'.version = right.version + 1
           /\ right'.amount = right.amount - p.amount
           /\ inflated' \in Seq(psbts') /\ supplies' \in Seq(Nat)
           /\ ChainAddsUp' /\ Number(p)' = Len(inflated) + 1
  <1>1. TypeOK /\ ChainAddsUp /\ PsbtsAreOld /\ asset # None
    BY PsbtFacts DEF IInv
  <1>2. Holds(p.by) /\ p.amount \in 0 .. right.amount
    BY <1>1, ChainFacts DEF PsbtsAreOld
  <1>3. \A n \in 1 .. Len(inflated) : inflated[n].on < right.version
    BY <1>1 DEF PsbtsAreOld
  <1>4. p \notin published
    BY <1>1, <1>3, ChainFacts
  <1>5. /\ Len(inflated') = Len(inflated) + 1
        /\ \A n \in 1 .. Len(inflated) : inflated'[n] = inflated[n]
        /\ inflated'[Len(inflated) + 1] = p
        /\ DOMAIN inflated' = 1 .. Len(inflated) + 1
        /\ inflated' \in Seq(psbts')
    BY <1>1 DEF TypeOK
  <1>6. published' = published \cup {p}
    BY <1>1, <1>5, ChainFacts DEF published
  <1>7. IssuedSupply \in Nat /\ p.amount \in Nat
    BY <1>1, <1>2, SupplyFacts, ChainFacts
  <1>8. /\ Len(supplies) = Len(inflated) + 1 /\ Len(inflated) \in Nat
        /\ Len(supplies') = Len(supplies) + 1
        /\ \A n \in 1 .. Len(supplies) : supplies'[n] = supplies[n] /\ supplies[n] \in Nat
        /\ supplies'[Len(supplies) + 1] = IssuedSupply + p.amount
        /\ supplies' \in Seq(Nat)
    <2>1. supplies \in Seq(Nat) /\ IssuedSupply + p.amount \in Nat
      BY <1>1, <1>7 DEF TypeOK
    <2>2. Len(supplies) = Len(inflated) + 1 /\ Len(inflated) \in Nat
      BY <1>1, ChainFacts DEF ChainAddsUp
    <2> QED BY <2>1, <2>2
  <1>9. \A k \in 0 .. Len(inflated) : Issued(k)' = Issued(k)
    BY <1>8 DEF Issued
  <1>10. IssuedSupply' = IssuedSupply + p.amount
    BY <1>5, <1>8 DEF IssuedSupply, Issued
  <1>11. /\ right' \in Right /\ right'.version = right.version + 1
         /\ right'.amount = right.amount - p.amount
    BY <1>1, <1>2, ChainFacts DEF Right, Amount
  <1>12. right' # None
    BY <1>11, SupplyAssumption
  <1>13. ChainAddsUp'
    <2>1. \A n \in 1 .. Len(supplies) : supplies[n] <= IssuedSupply
      BY <1>1, <1>8, SupplyFacts DEF ChainAddsUp, IssuedSupply, Issued
    <2>2. \A i, j \in 1 .. Len(supplies') : i <= j => supplies'[i] <= supplies'[j]
      <3> SUFFICES ASSUME NEW i \in 1 .. Len(supplies'), NEW j \in 1 .. Len(supplies'), i <= j
                   PROVE  supplies'[i] <= supplies'[j]
        OBVIOUS
      <3>1. CASE j \in 1 .. Len(supplies)
        BY <1>1, <1>8, <3>1 DEF ChainAddsUp
      <3>2. CASE j = Len(supplies) + 1 /\ i \in 1 .. Len(supplies)
        <4>1. supplies'[i] <= IssuedSupply /\ supplies'[i] \in Nat
          BY <1>8, <2>1, <3>2
        <4> QED BY <1>7, <1>8, <3>2, <4>1
      <3>3. CASE i = j /\ i = Len(supplies) + 1
        BY <1>7, <1>8, <3>3
      <3> QED BY <1>8, <3>1, <3>2, <3>3
    <2>3. IssuedSupply' + right'.amount = asset'.max
      BY <1>1, <1>2, <1>7, <1>10, <1>11, ChainFacts, SupplyFacts
    <2> QED BY <1>1, <1>5, <1>8, <2>2, <2>3 DEF ChainAddsUp
  <1>14. Number(p)' = Len(inflated) + 1
    <2>1. \A n \in DOMAIN inflated' : inflated'[n] = p => n = Len(inflated) + 1
      BY <1>1, <1>4, <1>5, ChainFacts
    <2> QED BY <1>5, <2>1, ChainFacts, <1>1 DEF Number
  <1> QED BY <1>1, <1>2, <1>4, <1>5, <1>6, <1>8, <1>9, <1>10, <1>11, <1>12, <1>13, <1>14

\* The first end of an inflation that is committed.
LEMMA FirstEndKeeps ==
    ASSUME IInv, NEW p \in psbts, p.on = right.version,
           inflated' = Append(inflated, p),
           supplies' = Append(supplies, IssuedSupply + p.amount),
           right' = [version |-> right.version + 1, amount |-> right.amount - p.amount],
           InflationSaved(p), UNCHANGED <<asset, burned, psbts, pending>>
    PROVE  IInv'
  <1> DEFINE w == p.by
             N == Len(inflated)
  <1>1. /\ p \notin published /\ published' = published \cup {p}
        /\ Holds(w) /\ p.amount \in 0 .. right.amount
        /\ Len(inflated') = N + 1
        /\ \A n \in 1 .. N : inflated'[n] = inflated[n]
        /\ inflated'[N + 1] = p
        /\ \A k \in 0 .. N : Issued(k)' = Issued(k)
        /\ IssuedSupply' = IssuedSupply + p.amount
        /\ right' \in Right /\ right' # None /\ right'.version = right.version + 1
        /\ right'.amount = right.amount - p.amount
        /\ inflated' \in Seq(psbts') /\ supplies' \in Seq(Nat)
        /\ ChainAddsUp' /\ Number(p)' = N + 1
    BY FirstBroadcast
  <1>2. /\ TypeOK /\ N \in Nat /\ asset # None /\ w \in Wallets
        /\ known[w] # None /\ known[w] \in 0 .. MaxAmount
        /\ stock[w] # None /\ stock[w] \in 0 .. N
        /\ right.version \in Nat /\ right.amount \in 0 .. MaxAmount
        /\ MaxAmount \in Nat /\ None \notin Int
    BY PsbtFacts, ChainFacts DEF IInv
  <1>3. /\ published = counted
        /\ \A n \in 1 .. N : inflated[n] \in counted
        /\ \A r \in pending : ~r.rights
        /\ IssuedSupply <= known[w]
    BY <1>1, <1>2, HolderFacts
  <1>4. IssuedSupply \in Nat /\ \A k \in 0 .. N : Issued(k) \in Nat /\ Issued(k) <= IssuedSupply
    BY <1>2, SupplyFacts DEF IInv
  <1>5. /\ stock' = [stock EXCEPT ![w] = MaxOf(@, Number(p)')]
        /\ known' = [known EXCEPT ![w] = @ + p.amount]
        /\ dbRight' = [dbRight EXCEPT ![w] = IF right'.amount = 0 THEN None ELSE right']
        /\ counted' = counted \cup {p}
        /\ repeated' = repeated
        /\ known[w] + p.amount <= MaxAmount
    <2>1. repeated \in BOOLEAN /\ p \notin counted
      BY <1>1, <1>2, <1>3 DEF TypeOK
    <2> QED BY <1>1, <2>1 DEF InflationSaved, FasciaConsumed
  <1>6. \A v \in Wallets :
          /\ stock'[v] = IF v = w THEN N + 1 ELSE stock[v]
          /\ known'[v] = IF v = w THEN known[w] + p.amount ELSE known[v]
          /\ dbRight'[v] = IF v # w THEN dbRight[v]
                           ELSE IF right'.amount = 0 THEN None ELSE right'
    BY <1>1, <1>2, <1>5 DEF TypeOK, MaxOf
  <1>7. \A v \in Wallets : stock'[v] = None <=> stock[v] = None
    BY <1>2, <1>6
  <1>8. TypeOK'
    <2>1. /\ stock' \in [Wallets -> 0 .. Len(inflated') \cup {None}]
          /\ known' \in [Wallets -> Amount \cup {None}]
          /\ dbRight' \in [Wallets -> Right \cup {None}]
      <3>1. \A v \in Wallets : stock'[v] \in 0 .. N + 1 \cup {None}
        BY <1>2, <1>6 DEF TypeOK
      <3>2. \A v \in Wallets : known'[v] \in Amount \cup {None}
        BY <1>1, <1>2, <1>5, <1>6 DEF TypeOK, Amount
      <3>3. \A v \in Wallets : dbRight'[v] \in Right \cup {None}
        BY <1>1, <1>2, <1>6 DEF TypeOK
      <3> QED BY <1>1, <1>2, <1>5, <3>1, <3>2, <3>3 DEF TypeOK
    <2>2. pending' \subseteq [to : Wallets, k : 0 .. Len(inflated'), rights : BOOLEAN]
      BY <1>1, <1>2 DEF TypeOK
    <2>3. counted' \subseteq published'
      BY <1>1, <1>3, <1>5
    <2> QED BY <1>1, <1>2, <1>5, <2>1, <2>2, <2>3 DEF TypeOK
  <1>9. NothingYet'
    BY <1>2 DEF NothingYet
  <1>10. \A v \in Wallets : dbRight[v] # None => dbRight[v].version \in Nat /\ dbRight[v].version <= right.version
    BY WalletFacts DEF IInv, RightIsUnique
  <1>11. \A v \in Wallets : Holds(v)' => v = w
    BY <1>1, <1>2, <1>6, <1>10 DEF Holds
  <1>12. RightIsUnique'
    <2>1. \A v \in Wallets : dbRight'[v] # None =>
            dbRight'[v].version <= right'.version /\ stock'[v] # None /\ asset'.schema = "Ifa"
      <3> SUFFICES ASSUME NEW v \in Wallets, dbRight'[v] # None
                   PROVE  /\ dbRight'[v].version <= right'.version
                          /\ stock'[v] # None /\ asset'.schema = "Ifa"
        OBVIOUS
      <3>1. asset'.schema = "Ifa"
        BY DEF IInv, PsbtsAreOld
      <3>2. CASE v = w
        BY <1>1, <1>2, <1>6, <1>7, <3>1, <3>2
      <3>3. CASE v # w
        <4>1. dbRight'[v] = dbRight[v] /\ dbRight[v] # None
          BY <1>6, <3>3
        <4>2. stock[v] # None
          BY <4>1, WalletFacts
        <4> QED BY <1>1, <1>2, <1>7, <1>10, <3>1, <4>1, <4>2
      <3> QED BY <3>2, <3>3
    <2>2. \A v \in Wallets : Holds(v)' => dbRight'[v].amount = right'.amount
      BY <1>2, <1>6, <1>11 DEF Holds
    <2> QED BY <1>3, <1>11, <2>1, <2>2 DEF RightIsUnique
  <1>13. PsbtsAreOld'
    <2>1. \A q \in psbts : q.on \in Nat /\ q.on <= right.version /\ q.by \in Wallets
                            /\ stock[q.by] # None /\ asset.schema = "Ifa"
      BY <1>2, ChainFacts DEF IInv, PsbtsAreOld
    <2>2. \A n \in 1 .. N + 1 : inflated'[n].on < right'.version
      BY <1>1, <1>2, ChainFacts, <2>1
    <2>3. \A i, j \in 1 .. N + 1 : i < j => inflated'[i].on < inflated'[j].on
      <3> SUFFICES ASSUME NEW i \in 1 .. N + 1, NEW j \in 1 .. N + 1, i < j
                   PROVE  inflated'[i].on < inflated'[j].on
        OBVIOUS
      <3>1. CASE j \in 1 .. N
        BY <1>1, <1>2, <3>1 DEF IInv, PsbtsAreOld
      <3>2. CASE j = N + 1
        BY <1>1, <1>2, <3>2 DEF IInv, PsbtsAreOld
      <3> QED BY <1>2, <3>1, <3>2
    <2>4. \A q \in psbts : q.on <= right'.version /\ q.on # right'.version
      BY <1>1, <1>2, <2>1
    <2>5. \A q \in psbts : stock'[q.by] # None
      BY <1>7, <2>1
    <2> QED BY <1>1, <2>1, <2>2, <2>3, <2>4, <2>5 DEF PsbtsAreOld
  <1>14. StockIsKnown'
    <2>1. asset.schema = "Ifa"
      BY DEF IInv, PsbtsAreOld
    <2>2. \A v \in Wallets : known'[v] = None <=> known[v] = None
      BY <1>1, <1>2, <1>6
    <2>3. \A n \in 1 .. N + 1 : n <= stock'[inflated'[n].by]
      <3> SUFFICES ASSUME NEW n \in 1 .. N + 1 PROVE n <= stock'[inflated'[n].by]
        OBVIOUS
      <3>1. CASE n = N + 1
        BY <1>1, <1>2, <1>6, <3>1
      <3>2. CASE n \in 1 .. N
        <4>1. inflated[n].by \in Wallets /\ n <= stock[inflated[n].by]
          BY <1>2, <1>3, <3>2, ChainFacts DEF IInv, StockIsKnown
        <4>2. stock[inflated[n].by] # None => stock[inflated[n].by] <= N
          BY <4>1, WalletFacts, <1>2
        <4>3. stock[inflated[n].by] # None
          BY <3>2, <1>2, ChainFacts, PsbtFacts
        <4>4. stock'[inflated[n].by] \in {N + 1, stock[inflated[n].by]}
          BY <1>6, <4>1
        <4> QED BY <1>1, <1>2, <3>2, <4>1, <4>4
      <3> QED BY <1>2, <3>1, <3>2
    <2>4. \A r \in pending : r.to \in Wallets /\ stock[r.to] # None
      BY <1>2, ChainFacts DEF IInv, StockIsKnown
    <2> QED BY <1>1, <1>7, <2>1, <2>2, <2>3, <2>4 DEF IInv, StockIsKnown
  <1>15. NoExcess'
    <2> SUFFICES ASSUME ~repeated, NEW v \in Wallets, stock[v] # None, known'[v] # None
                 PROVE  known'[v] <= IssuedSupply'
      BY <1>5, <1>7 DEF NoExcess, Holders
    <2>1. known[v] # None
      BY <1>2, <1>6
    <2>2. known[v] <= IssuedSupply /\ known[v] \in Nat
      BY <1>2, <2>1, WalletFacts DEF IInv, NoExcess, Holders
    <2>3. IssuedSupply' = IssuedSupply + p.amount /\ p.amount \in Nat
      BY <1>1, <1>2
    <2>4. known'[v] = known[v] \/ known'[v] = known[v] + p.amount
      BY <1>6
    <2> QED BY <1>4, <2>2, <2>3, <2>4
  <1>16. NoDelay'
    <2>1. supplies'[N + 2] = IssuedSupply + p.amount
      <3>1. IssuedSupply' = supplies'[(N + 1) + 1]
        BY <1>1 DEF IssuedSupply, Issued
      <3>2. (N + 1) + 1 = N + 2
        BY <1>2
      <3>3. IssuedSupply' = IssuedSupply + p.amount
        BY <1>1
      <3> QED BY <3>1, <3>2, <3>3
    <2>2. \A v \in Holders' : known'[v] # None => Issued(stock[v])' <= known'[v]
      <3> SUFFICES ASSUME NEW v \in Holders', known'[v] # None
                   PROVE  Issued(stock[v])' <= known'[v]
        OBVIOUS
      <3>1. CASE v = w
        <4>1. Issued(stock[v])' = IssuedSupply + p.amount
          <5>1. stock'[v] + 1 = N + 2
            BY <1>2, <1>6, <3>1
          <5> QED BY <2>1, <5>1 DEF Issued
        <4> QED BY <1>1, <1>2, <1>3, <1>4, <1>6, <3>1, <4>1
      <3>2. CASE v # w
        <4>0. v \in Wallets /\ stock'[v] # None
          BY DEF Holders
        <4>1. v \in Wallets /\ stock'[v] = stock[v] /\ known'[v] = known[v] /\ v \in Holders
          <5>1. stock'[v] = stock[v] /\ known'[v] = known[v]
            BY <1>6, <3>2, <4>0
          <5> QED BY <4>0, <5>1 DEF Holders
        <4>2. ~Lags(v)
          BY <1>2, <1>3 DEF Lags
        <4>3. stock[v] \in 0 .. N
          BY <4>1, WalletFacts DEF Holders
        <4>4. Issued(stock[v])' = Issued(stock[v])
          BY <1>1, <4>1, <4>3 DEF Issued
        <4> QED BY <4>1, <4>2, <4>4 DEF IInv, NoDelay
      <3> QED BY <3>1, <3>2
    <2>3. \A v \in Wallets : Holds(v)' => IssuedSupply' <= known'[v]
      BY <1>1, <1>2, <1>3, <1>4, <1>6, <1>11
    <2>4. \A n \in 1 .. Len(inflated') : inflated'[n] \in counted'
      BY <1>1, <1>2, <1>3, <1>5
    <2> QED BY <2>2, <2>3, <2>4 DEF NoDelay
  <1> QED BY <1>1, <1>8, <1>9, <1>12, <1>13, <1>14, <1>15, <1>16 DEF IInv

\* A broadcast of an inflation whose end is cut short.
LEMMA FirstCutKeeps ==
    ASSUME IInv, NEW p \in psbts, p.on = right.version,
           inflated' = Append(inflated, p),
           supplies' = Append(supplies, IssuedSupply + p.amount),
           right' = [version |-> right.version + 1, amount |-> right.amount - p.amount],
           InflationCut(p), UNCHANGED <<asset, burned, psbts, pending>>
    PROVE  IInv'
  <1> DEFINE w == p.by
             N == Len(inflated)
  <1>1. /\ p \notin published /\ published' = published \cup {p}
        /\ Holds(w) /\ p.amount \in 0 .. right.amount
        /\ Len(inflated') = N + 1
        /\ \A n \in 1 .. N : inflated'[n] = inflated[n]
        /\ inflated'[N + 1] = p
        /\ \A k \in 0 .. N : Issued(k)' = Issued(k)
        /\ IssuedSupply' = IssuedSupply + p.amount
        /\ right' \in Right /\ right' # None /\ right'.version = right.version + 1
        /\ right'.amount = right.amount - p.amount
        /\ inflated' \in Seq(psbts') /\ supplies' \in Seq(Nat)
        /\ ChainAddsUp' /\ Number(p)' = N + 1
    BY FirstBroadcast
  <1>2. /\ TypeOK /\ N \in Nat /\ asset # None /\ w \in Wallets
        /\ known[w] # None /\ known[w] \in 0 .. MaxAmount
        /\ stock[w] # None /\ stock[w] \in 0 .. N
        /\ right.version \in Nat /\ right.amount \in 0 .. MaxAmount
        /\ MaxAmount \in Nat /\ None \notin Int
    BY PsbtFacts, ChainFacts DEF IInv
  <1>3. /\ published = counted
        /\ \A n \in 1 .. N : inflated[n] \in counted
        /\ \A r \in pending : ~r.rights
        /\ IssuedSupply <= known[w]
    BY <1>1, <1>2, HolderFacts
  <1>4. IssuedSupply \in Nat
    BY <1>2, SupplyFacts DEF IInv
  <1>5. UNCHANGED <<known, dbRight, counted, repeated>>
    BY DEF InflationCut
  <1>6. stock' = [stock EXCEPT ![w] = N + 1] \/ stock' = stock
    BY <1>1, <1>2 DEF InflationCut, FasciaConsumed, MaxOf
  <1>7. \A v \in Wallets : /\ stock'[v] = None <=> stock[v] = None
                           /\ v # w => stock'[v] = stock[v]
                           /\ stock'[v] \in {N + 1, stock[v]}
    BY <1>2, <1>6 DEF TypeOK
  <1>8. TypeOK'
    <2>1. \A v \in Wallets : stock'[v] \in 0 .. N + 1 \cup {None}
      BY <1>2, <1>7 DEF TypeOK
    <2>2. stock' \in [Wallets -> 0 .. Len(inflated') \cup {None}]
      BY <1>1, <1>2, <1>6, <2>1 DEF TypeOK
    <2>3. pending' \subseteq [to : Wallets, k : 0 .. Len(inflated'), rights : BOOLEAN]
      BY <1>1, <1>2 DEF TypeOK
    <2> QED BY <1>1, <1>2, <1>5, <2>2, <2>3 DEF TypeOK
  <1>9. NothingYet'
    BY <1>2 DEF NothingYet
  <1>10. \A v \in Wallets : dbRight[v] # None => dbRight[v].version \in Nat /\ dbRight[v].version <= right.version
    BY WalletFacts DEF IInv, RightIsUnique
  <1>11. NobodyHolds'
    BY <1>1, <1>2, <1>5, <1>10 DEF Holds, NobodyHolds
  <1>12. RightIsUnique'
    <2>1. \A v \in Wallets : dbRight'[v] # None =>
            dbRight'[v].version <= right'.version /\ stock'[v] # None /\ asset'.schema = "Ifa"
      <3> SUFFICES ASSUME NEW v \in Wallets, dbRight[v] # None
                   PROVE  /\ dbRight[v].version <= right'.version
                          /\ stock'[v] # None /\ asset'.schema = "Ifa"
        BY <1>5
      <3>1. asset.schema = "Ifa" /\ stock[v] # None
        BY DEF IInv, RightIsUnique
      <3>2. dbRight[v].version <= right'.version
        BY <1>1, <1>2, <1>10
      <3> QED BY <1>7, <3>1, <3>2
    <2> QED BY <1>3, <1>11, <2>1 DEF RightIsUnique, NobodyHolds
  <1>13. PsbtsAreOld'
    <2>1. \A q \in psbts : q.on \in Nat /\ q.on <= right.version /\ q.by \in Wallets
                            /\ stock[q.by] # None /\ asset.schema = "Ifa"
      BY <1>2, ChainFacts DEF IInv, PsbtsAreOld
    <2>2. \A n \in 1 .. N + 1 : inflated'[n].on < right'.version
      BY <1>1, <1>2, ChainFacts, <2>1
    <2>3. \A i, j \in 1 .. N + 1 : i < j => inflated'[i].on < inflated'[j].on
      <3> SUFFICES ASSUME NEW i \in 1 .. N + 1, NEW j \in 1 .. N + 1, i < j
                   PROVE  inflated'[i].on < inflated'[j].on
        OBVIOUS
      <3>1. CASE j \in 1 .. N
        BY <1>1, <1>2, <3>1 DEF IInv, PsbtsAreOld
      <3>2. CASE j = N + 1
        BY <1>1, <1>2, <3>2 DEF IInv, PsbtsAreOld
      <3> QED BY <1>2, <3>1, <3>2
    <2>4. \A q \in psbts : q.on <= right'.version /\ q.on # right'.version
      BY <1>1, <1>2, <2>1
    <2>5. \A q \in psbts : stock'[q.by] # None
      BY <1>7, <2>1
    <2> QED BY <1>1, <2>1, <2>2, <2>3, <2>4, <2>5 DEF PsbtsAreOld
  <1>14. StockIsKnown'
    <2>1. \A n \in 1 .. N + 1 : inflated'[n] \in counted => n <= stock'[inflated'[n].by]
      <3> SUFFICES ASSUME NEW n \in 1 .. N + 1, inflated'[n] \in counted
                   PROVE  n <= stock'[inflated'[n].by]
        OBVIOUS
      <3>1. n \in 1 .. N
        BY <1>1, <1>2, <1>3
      <3>2. inflated[n].by \in Wallets /\ n <= stock[inflated[n].by]
        BY <1>2, <1>3, <3>1, ChainFacts DEF IInv, StockIsKnown
      <3>3. inflated'[n] = inflated[n]
        BY <1>1, <3>1
      <3>4. stock'[inflated[n].by] = N + 1 \/ stock'[inflated[n].by] = stock[inflated[n].by]
        BY <1>7, <3>2
      <3>5. n <= N + 1
        BY <1>2, <3>1
      <3> QED BY <3>2, <3>3, <3>4, <3>5
    <2>2. \A r \in pending : r.to \in Wallets /\ stock[r.to] # None
      BY <1>2, ChainFacts DEF IInv, StockIsKnown
    <2> QED BY <1>1, <1>5, <1>7, <2>1, <2>2 DEF IInv, StockIsKnown
  <1>15. NoExcess'
    <2> SUFFICES ASSUME ~repeated, NEW v \in Wallets, stock[v] # None, known[v] # None
                 PROVE  known[v] <= IssuedSupply'
      BY <1>5, <1>7 DEF NoExcess, Holders
    <2>1. known[v] <= IssuedSupply /\ known[v] \in Nat
      BY WalletFacts DEF IInv, NoExcess, Holders
    <2>2. IssuedSupply' = IssuedSupply + p.amount /\ p.amount \in Nat
      BY <1>1, <1>2
    <2> QED BY <1>4, <2>1, <2>2
  <1>16. NoDelay'
    <2>1. \A v \in Holders' : known'[v] # None => Issued(stock[v])' <= known'[v] \/ Lags(v)'
      <3> SUFFICES ASSUME NEW v \in Wallets, v # w, stock[v] # None, known[v] # None
                   PROVE  Issued(stock[v])' <= known[v]
        <4>1. Lags(w)'
          BY <1>1, <1>2, <1>3, <1>5 DEF Lags
        <4> QED BY <1>5, <1>7, <4>1 DEF Holders
      <3>1. ~Lags(v) /\ v \in Holders
        BY <1>2, <1>3 DEF Lags, Holders
      <3>2. stock[v] \in 0 .. N /\ stock'[v] = stock[v]
        BY <1>7, WalletFacts
      <3>3. Issued(stock[v])' = Issued(stock[v])
        BY <1>1, <3>2 DEF Issued
      <3> QED BY <3>1, <3>3 DEF IInv, NoDelay
    <2>2. \A n \in 1 .. Len(inflated') : inflated'[n] \notin counted' =>
            n = N + 1 /\ inflated'[n].by = w /\ inflated'[n].amount = p.amount
      BY <1>1, <1>2, <1>3, <1>5
    <2>3. IssuedSupply' <= known'[w] + p.amount
      BY <1>1, <1>2, <1>3, <1>4, <1>5
    <2> QED BY <1>1, <1>11, <2>1, <2>2, <2>3 DEF NoDelay, NobodyHolds
  <1> QED BY <1>1, <1>8, <1>9, <1>12, <1>13, <1>14, <1>15, <1>16 DEF IInv

\* The place of an inflation in the chain.
LEMMA NumberFacts ==
    ASSUME IInv, NEW p \in published
    PROVE  /\ Number(p) \in 1 .. Len(inflated) /\ inflated[Number(p)] = p
           /\ p \in counted => Number(p) <= stock[p.by]
           /\ p \notin counted => Number(p) = Len(inflated)
  <1>1. \E n \in DOMAIN inflated : inflated[n] = p
    BY DEF published
  <1>2. Number(p) \in DOMAIN inflated /\ inflated[Number(p)] = p
    BY <1>1 DEF Number
  <1>3. DOMAIN inflated = 1 .. Len(inflated)
    BY ChainFacts DEF IInv
  <1> QED BY <1>2, <1>3 DEF IInv, StockIsKnown, NoDelay

\* An end for the second time, or for the first time after it was cut short.
LEMMA NextEndKeeps ==
    ASSUME IInv, NEW p \in psbts, p \in published,
           UNCHANGED <<inflated, supplies, right>>,
           InflationSaved(p) \/ InflationCut(p),
           UNCHANGED <<asset, burned, psbts, pending>>
    PROVE  IInv'
  <1> DEFINE w == p.by
             N == Len(inflated)
  <1>1. /\ TypeOK /\ N \in Nat /\ asset # None /\ w \in Wallets
        /\ known[w] # None /\ known[w] \in 0 .. MaxAmount
        /\ stock[w] # None /\ stock[w] \in 0 .. N
        /\ p.amount \in 0 .. MaxAmount
        /\ MaxAmount \in Nat /\ None \notin Int
    BY PsbtFacts, ChainFacts DEF IInv
  <1>2. /\ Number(p) \in 1 .. N /\ inflated[Number(p)] = p
        /\ p \in counted => Number(p) <= stock[w]
        /\ p \notin counted => Number(p) = N
    BY NumberFacts
  <1>3. Number(p)' = Number(p) /\ published' = published
    BY DEF Number, published
  <1>4. /\ IssuedSupply' = IssuedSupply
        /\ IssuedSupply \in Nat
        /\ \A k \in 0 .. N : Issued(k) \in Nat /\ Issued(k) <= IssuedSupply
    BY <1>1, SupplyFacts DEF IInv, IssuedSupply, Issued
  <1>5. /\ \A v \in Wallets \ {w} : stock'[v] = stock[v]
        /\ stock'[w] \in {stock[w], N}
        /\ p \in counted => stock'[w] = stock[w]
        /\ stock' \in [Wallets -> 0 .. N \cup {None}]
    <2>1. stock' = [stock EXCEPT ![w] = MaxOf(@, Number(p))] \/ stock' = stock
      BY <1>3 DEF InflationSaved, InflationCut, FasciaConsumed
    <2> QED BY <1>1, <1>2, <2>1 DEF TypeOK, MaxOf
  <1>6. \A v \in Wallets : stock'[v] = None <=> stock[v] = None
    BY <1>1, <1>5
  <1>7. ChainAddsUp' /\ NothingYet'
    BY <1>1, <1>4 DEF IInv, ChainAddsUp, NothingYet
  <1>8. \A q \in psbts : q.by \in Wallets /\ q.on \in Nat
    BY <1>1, ChainFacts
  <1>9. p.on < right.version
    BY <1>2 DEF IInv, PsbtsAreOld
  <1>10. CASE InflationCut(p)
    <2>1. UNCHANGED <<known, dbRight, counted, repeated>>
      BY <1>10 DEF InflationCut
    <2>2. TypeOK'
      BY <1>1, <1>3, <1>5, <2>1 DEF TypeOK
    <2>3. RightIsUnique'
      BY <1>3, <1>6, <2>1 DEF IInv, RightIsUnique, Holds, NobodyHolds
    <2>4. PsbtsAreOld'
      BY <1>6, <1>8, <2>1 DEF IInv, PsbtsAreOld, Holds
    <2>5. StockIsKnown'
      <3>1. \A n \in 1 .. N : inflated[n] \in counted => n <= stock'[inflated[n].by]
        BY <1>1, <1>5, ChainFacts DEF IInv, StockIsKnown
      <3> QED BY <1>1, <1>6, <2>1, <3>1, ChainFacts DEF IInv, StockIsKnown
    <2>6. NoExcess'
      BY <1>4, <1>6, <2>1 DEF IInv, NoExcess, Holders
    <2>7. NoDelay'
      <3>1. \A v \in Holders' : known'[v] # None => Issued(stock[v])' <= known'[v] \/ Lags(v)'
        <4> SUFFICES ASSUME NEW v \in Wallets, stock[v] # None, known[v] # None, ~Lags(v)
                     PROVE  Issued(stock[v])' <= known[v]
          BY <1>6, <2>1 DEF Holders, Lags
        <4>1. v = w => p \in counted
          BY <1>1, <1>2 DEF Lags
        <4>2. stock'[v] = stock[v]
          BY <1>5, <4>1
        <4> QED BY <4>2 DEF IInv, NoDelay, Holders, Issued
      <3> QED BY <1>4, <2>1, <3>1 DEF IInv, NoDelay, Holds, NobodyHolds
    <2> QED BY <1>7, <2>2, <2>3, <2>4, <2>5, <2>6, <2>7 DEF IInv
  <1>11. CASE InflationSaved(p)
    <2>1. /\ known' = [known EXCEPT ![w] = @ + p.amount]
          /\ dbRight' = [dbRight EXCEPT ![w] =
                            IF p \in counted THEN @ ELSE IF right.amount = 0 THEN None ELSE right]
          /\ counted' = counted \cup {p}
          /\ repeated' = TRUE
          /\ known[w] + p.amount <= MaxAmount
      BY <1>11 DEF InflationSaved
    <2>2. stock'[w] >= Number(p)
      BY <1>1, <1>2, <1>3, <1>11 DEF InflationSaved, FasciaConsumed, MaxOf, TypeOK
    <2>3. \A v \in Wallets : known'[v] = IF v = w THEN known[w] + p.amount ELSE known[v]
      BY <1>1, <2>1 DEF TypeOK
    <2>4. \A v \in Wallets : known'[v] = None <=> known[v] = None
      BY <1>1, <2>3
    <2>5. p \notin counted =>
            /\ NobodyHolds /\ IssuedSupply <= known[w] + p.amount
            /\ \A r \in pending : ~r.rights
            /\ \A n \in 1 .. N : inflated[n] \notin counted => n = N
      BY <1>2 DEF IInv, NoDelay, RightIsUnique
    <2>6. right \in Right /\ right.version \in Nat /\ right # None
      BY <1>1, SupplyAssumption DEF TypeOK, Right
    <2>7. \A v \in Wallets :
            dbRight'[v] = IF v # w \/ p \in counted THEN dbRight[v]
                          ELSE IF right.amount = 0 THEN None ELSE right
      BY <1>1, <2>1 DEF TypeOK
    <2>8. TypeOK'
      <3>1. known' \in [Wallets -> Amount \cup {None}]
        <4>1. known[w] + p.amount \in Amount
          BY <1>1, <2>1 DEF Amount
        <4> QED BY <1>1, <2>1, <4>1 DEF TypeOK
      <3>2. dbRight' \in [Wallets -> Right \cup {None}]
        BY <1>1, <2>1, <2>6 DEF TypeOK
      <3> QED BY <1>1, <1>3, <1>5, <2>1, <3>1, <3>2 DEF TypeOK
    <2>9. RightIsUnique'
      <3>1. asset.schema = "Ifa"
        BY DEF IInv, PsbtsAreOld
      <3>2. \A v \in Wallets : dbRight'[v] # None =>
              dbRight'[v].version <= right.version /\ stock'[v] # None
        <4> SUFFICES ASSUME NEW v \in Wallets, dbRight'[v] # None
                     PROVE  dbRight'[v].version <= right.version /\ stock'[v] # None
          OBVIOUS
        <4>1. CASE dbRight'[v] = dbRight[v]
          BY <1>6, <4>1 DEF IInv, RightIsUnique
        <4>2. CASE v = w /\ dbRight'[v] = right
          BY <1>1, <1>6, <2>6, <4>2
        <4> QED BY <2>7, <4>1, <4>2
      <3>3. CASE p \in counted
        <4>1. dbRight' = dbRight /\ counted' = counted
          BY <1>1, <2>1, <3>3 DEF TypeOK
        <4> QED BY <1>3, <3>1, <3>2, <4>1 DEF IInv, RightIsUnique, Holds, NobodyHolds
      <3>4. CASE p \notin counted
        <4>1. \A v \in Wallets : Holds(v)' => v = w /\ dbRight'[v] = right
          BY <2>5, <2>7, <3>4 DEF Holds, NobodyHolds
        <4> QED BY <2>5, <3>1, <3>2, <3>4, <4>1 DEF RightIsUnique
      <3> QED BY <3>3, <3>4
    <2>10. PsbtsAreOld'
      <3>1. \A v \in Wallets : Holds(v) => Holds(v)'
        BY <2>5, <2>7 DEF Holds, NobodyHolds
      <3> QED BY <1>6, <1>8, <3>1 DEF IInv, PsbtsAreOld
    <2>11. StockIsKnown'
      <3>1. \A n \in 1 .. N : inflated[n] \in counted' => n <= stock'[inflated[n].by]
        <4> SUFFICES ASSUME NEW n \in 1 .. N, inflated[n] \in counted'
                     PROVE  n <= stock'[inflated[n].by]
          OBVIOUS
        <4>1. CASE inflated[n] = p /\ p \notin counted
          <5>1. inflated[n] \notin counted /\ Number(p) = N
            BY <1>2, <4>1
          <5>2. n = N
            BY <2>5, <4>1
          <5> QED BY <1>1, <1>5, <2>2, <4>1, <5>1, <5>2
        <4>2. CASE inflated[n] \in counted
          BY <1>1, <1>5, <4>2, ChainFacts DEF IInv, StockIsKnown
        <4> QED BY <2>1, <4>1, <4>2
      <3>2. \A r \in pending : r.to \in Wallets /\ stock[r.to] # None
        BY <1>1, ChainFacts DEF IInv, StockIsKnown
      <3> QED BY <1>6, <2>4, <3>1, <3>2 DEF IInv, StockIsKnown
    <2>12. NoExcess'
      BY <2>1 DEF NoExcess
    <2>13. NoDelay'
      <3>1. \A v \in Holders' : known'[v] # None => Issued(stock[v])' <= known'[v]
                                                     \/ Lags(v)'
        <4> SUFFICES ASSUME NEW v \in Wallets, stock[v] # None, known[v] # None, ~Lags(v)'
                     PROVE  Issued(stock[v])' <= known'[v]
          BY <1>6, <2>4 DEF Holders
        <4>1. known[v] \in Nat /\ known'[v] >= known[v] /\ known'[v] \in Nat /\ stock[v] \in 0 .. N
          BY <1>1, <2>3, WalletFacts
        <4>2. CASE Issued(stock[v]) <= known[v] /\ stock'[v] = stock[v]
          <5>1. Issued(stock[v])' = Issued(stock[v])
            BY <4>2 DEF Issued
          <5> QED BY <1>4, <4>1, <4>2, <5>1
        <4>3. CASE v = w /\ p \notin counted
          <5>1. stock'[v] \in 0 .. N
            BY <1>1, <1>5, <4>3
          <5>2. Issued(stock'[v]) \in Nat /\ Issued(stock'[v]) <= IssuedSupply
            BY <1>4, <5>1
          <5>3. Issued(stock[v])' = Issued(stock'[v])
            BY DEF Issued
          <5>4. IssuedSupply <= known'[v]
            BY <2>3, <2>5, <4>3
          <5> QED BY <1>4, <4>1, <5>2, <5>3, <5>4
        <4>4. CASE Lags(v)
          <5>1. inflated[N] = p
            <6>1. inflated[N] \in counted' /\ inflated[N] \notin counted
              BY <4>4 DEF Lags
            <6> QED BY <2>1, <6>1
          <5>2. v = w /\ p \notin counted
            BY <4>4, <5>1 DEF Lags
          <5> QED BY <4>3, <5>2
        <4>5. v # w \/ p \in counted => stock'[v] = stock[v]
          BY <1>5
        <4>6. Issued(stock[v]) <= known[v] \/ Lags(v)
          BY DEF IInv, NoDelay, Holders
        <4> QED BY <4>2, <4>3, <4>4, <4>5, <4>6
      <3>2. \A v \in Wallets : Holds(v)' => IssuedSupply' <= known'[v]
        <4> SUFFICES ASSUME NEW v \in Wallets, Holds(v)'
                     PROVE  IssuedSupply <= known'[v]
          BY <1>4
        <4>1. CASE p \in counted
          <5>1. Holds(v)
            BY <2>7, <4>1 DEF Holds
          <5>2. known[v] \in Nat /\ known[v] <= known'[v] /\ known'[v] \in Nat
            <6>1. known[v] \in Nat
              BY <1>1, <5>1, WalletFacts DEF Holds
            <6>2. known'[v] = known[v] \/ known'[v] = known[v] + p.amount
              BY <2>3
            <6> QED BY <1>1, <6>1, <6>2
          <5> QED BY <1>4, <5>1, <5>2 DEF IInv, NoDelay
        <4>2. CASE p \notin counted
          BY <2>3, <2>5, <2>7, <4>2 DEF Holds, NobodyHolds
        <4> QED BY <4>1, <4>2
      <3>3. \A n \in 1 .. N : inflated[n] \notin counted' =>
              /\ p \in counted /\ inflated[n] \notin counted
              /\ inflated[n].by \in Wallets /\ inflated[n].amount \in Nat
              /\ stock[inflated[n].by] # None /\ known[inflated[n].by] # None
        BY <1>1, <1>2, <2>1, <2>5, ChainFacts, PsbtFacts
      <3>4. \A n \in 1 .. N : inflated[n] \notin counted' =>
              /\ n = N
              /\ NobodyHolds'
              /\ IssuedSupply <= known'[inflated[n].by] + inflated[n].amount
        <4> SUFFICES ASSUME NEW n \in 1 .. N, inflated[n] \notin counted'
                     PROVE  /\ n = N
                            /\ NobodyHolds'
                            /\ IssuedSupply <= known'[inflated[n].by] + inflated[n].amount
          OBVIOUS
        <4>1. /\ n = N /\ NobodyHolds
              /\ IssuedSupply <= known[inflated[n].by] + inflated[n].amount
          BY <3>3 DEF IInv, NoDelay
        <4>2. NobodyHolds'
          BY <2>7, <3>3, <4>1 DEF NobodyHolds, Holds
        <4>3. known[inflated[n].by] \in Nat
          BY <3>3, WalletFacts
        <4>4. \/ known'[inflated[n].by] = known[inflated[n].by]
              \/ known'[inflated[n].by] = known[inflated[n].by] + p.amount
          BY <2>3, <3>3
        <4>5. /\ known'[inflated[n].by] \in Nat
              /\ known'[inflated[n].by] >= known[inflated[n].by]
          BY <1>1, <4>3, <4>4
        <4>6. inflated[n].amount \in Nat
          BY <3>3
        <4> QED BY <1>4, <4>1, <4>2, <4>3, <4>5, <4>6
      <3> QED BY <1>4, <3>1, <3>2, <3>4 DEF NoDelay
    <2> QED BY <1>7, <2>8, <2>9, <2>10, <2>11, <2>12, <2>13 DEF IInv
  <1> QED BY <1>10, <1>11

-----------------------------------------------------------------------------
(* Transfers.                                                               *)

\* A wallet validates a transfer whose history has k inflations.
LEMMA ValidatedFacts ==
    ASSUME IInv, NEW v \in Wallets, NEW k \in 0 .. Len(inflated), NEW rights \in BOOLEAN,
           asset # None, rights => asset.schema = "Ifa", Validated(v, k, rights),
           UNCHANGED <<asset, inflated, supplies, burned, ops>>
    PROVE  /\ pending' = pending \cup {[to |-> v, k |-> k, rights |-> rights]}
           /\ \A r \in pending' : r \in pending \/ (r.rights = rights /\ r.k = k /\ r.to = v)
           /\ \A u \in Wallets : stock[u] # None => stock'[u] = stock[u] /\ known'[u] = known[u]
           /\ stock' \in [Wallets -> 0 .. Len(inflated) \cup {None}]
           /\ known' \in [Wallets -> Amount \cup {None}]
           /\ pending' \subseteq [to : Wallets, k : 0 .. Len(inflated), rights : BOOLEAN]
           /\ published' = published /\ IssuedSupply' = IssuedSupply
           /\ NothingYet' /\ StockIsKnown' /\ NoExcess'
           /\ \A u \in Holders' : known'[u] # None => Issued(stock[u])' <= known'[u] \/ Lags(u)'
  <1>1. /\ TypeOK /\ ChainAddsUp /\ Len(inflated) \in Nat /\ None \notin Int /\ MaxAmount \in Nat
    BY ChainFacts DEF IInv
  <1>2. UNCHANGED <<psbts, counted, repeated>>
    BY DEF ops
  <1>3. /\ pending' = pending \cup {[to |-> v, k |-> k, rights |-> rights]}
        /\ stock' = [stock EXCEPT ![v] = IF @ = None THEN 0 ELSE @]
        /\ known' = [known EXCEPT ![v] = IF stock[v] = None THEN SupplyOf(k) ELSE @]
    BY DEF Validated
  <1>4. \A u \in Wallets :
          /\ stock'[u] = IF u = v /\ stock[v] = None THEN 0 ELSE stock[u]
          /\ known'[u] = IF u = v /\ stock[v] = None THEN SupplyOf(k) ELSE known[u]
    BY <1>1, <1>3 DEF TypeOK
  <1>5. /\ asset.schema = "Ifa" => SupplyOf(k) = Issued(k)
        /\ asset.schema # "Ifa" => SupplyOf(k) = None
        /\ Issued(k) \in 0 .. MaxAmount /\ Issued(k) <= IssuedSupply /\ Issued(0) <= Issued(k)
        /\ IssuedSupply \in Nat
    <2>1. /\ Issued(k) \in Nat /\ Issued(k) <= IssuedSupply /\ Issued(0) <= Issued(k)
          /\ IssuedSupply \in Nat /\ IssuedSupply + right.amount = asset.max
          /\ asset.max \in 0 .. MaxAmount /\ right.amount \in 0 .. MaxAmount
      BY <1>1, SupplyFacts, ChainFacts
    <2> QED BY <1>1, <2>1 DEF SupplyOf
  <1>6. /\ stock' \in [Wallets -> 0 .. Len(inflated) \cup {None}]
        /\ known' \in [Wallets -> Amount \cup {None}]
        /\ pending' \subseteq [to : Wallets, k : 0 .. Len(inflated), rights : BOOLEAN]
    <2>1. SupplyOf(k) \in Amount \cup {None}
      BY <1>5 DEF SupplyOf, Amount
    <2> QED BY <1>1, <1>3, <2>1 DEF TypeOK
  <1>7. published' = published /\ IssuedSupply' = IssuedSupply
    BY DEF published, IssuedSupply, Issued
  <1>8. \A u \in Wallets : stock[u] # None => stock'[u] = stock[u] /\ known'[u] = known[u]
    BY <1>4
  <1>9. NothingYet'
    BY DEF NothingYet
  <1>10. \A r \in pending' : r \in pending \/ (r.rights = rights /\ r.k = k /\ r.to = v)
    BY <1>3
  <1>11. stock'[v] # None
    BY <1>1, <1>4
  <1>12. StockIsKnown'
    <2>1. \A u \in Wallets : known'[u] # None => stock'[u] # None /\ asset.schema = "Ifa"
      BY <1>4, <1>5, <1>8, <1>11 DEF IInv, StockIsKnown
    <2>2. \A u \in Wallets : stock'[u] # None /\ asset.schema = "Ifa" => known'[u] # None
      BY <1>1, <1>4, <1>5 DEF IInv, StockIsKnown
    <2>3. \A r \in pending' : stock'[r.to] # None
      BY <1>1, <1>8, <1>10, <1>11, ChainFacts DEF IInv, StockIsKnown
    <2>4. \A n \in 1 .. Len(inflated) : inflated[n] \in counted => n <= stock'[inflated[n].by]
      <3>1. \A n \in 1 .. Len(inflated) : inflated[n].by \in Wallets /\ stock[inflated[n].by] # None
        BY <1>1, ChainFacts, PsbtFacts
      <3> QED BY <1>8, <3>1 DEF IInv, StockIsKnown
    <2> QED BY <1>2, <2>1, <2>2, <2>3, <2>4 DEF StockIsKnown
  <1>13. NoExcess'
    <2>1. \A u \in Wallets : known'[u] # None =>
            (known'[u] = known[u] /\ stock[u] # None) \/ known'[u] = Issued(k)
      BY <1>4, <1>5 DEF IInv, StockIsKnown
    <2> QED BY <1>2, <1>5, <1>7, <2>1 DEF IInv, NoExcess, Holders
  <1>14. \A u \in Holders' : known'[u] # None => Issued(stock[u])' <= known'[u] \/ Lags(u)'
    <2> SUFFICES ASSUME NEW u \in Wallets, known'[u] # None, ~Lags(u)
                 PROVE  Issued(stock[u])' <= known'[u]
      BY <1>2 DEF Holders, Lags
    <2>1. CASE stock[u] # None
      BY <1>8, <2>1 DEF IInv, NoDelay, Holders, Issued
    <2>2. CASE stock[u] = None
      <3>1. known[u] = None
        BY <2>2 DEF IInv, StockIsKnown
      <3>2. stock'[u] = 0 /\ known'[u] = SupplyOf(k)
        BY <1>4, <2>2, <3>1
      <3>3. known'[u] = Issued(k)
        BY <1>5, <3>2
      <3>4. Issued(stock[u])' = Issued(0)
        BY <3>2 DEF Issued
      <3> QED BY <1>5, <3>3, <3>4
    <2> QED BY <2>1, <2>2
  <1> QED BY <1>3, <1>6, <1>7, <1>8, <1>9, <1>10, <1>12, <1>13, <1>14

\* A payment of amounts leaves the rights where they are.
LEMMA ReceiveAmountKeeps ==
    ASSUME IInv, NEW w \in Wallets, NEW v \in Wallets, NEW k \in Nat, ReceiveAmount(w, v, k)
    PROVE  IInv'
  <1>1. stock[w] # None /\ k \in 0 .. stock[w] /\ Validated(v, k, FALSE)
    BY DEF ReceiveAmount
  <1>2. UNCHANGED <<asset, inflated, supplies, burned, right, dbRight, ops, psbts, counted, repeated>>
    BY DEF ReceiveAmount, chain, ops
  <1>3. asset # None /\ k \in 0 .. Len(inflated) /\ TypeOK
    <2>1. asset # None /\ stock[w] \in 0 .. Len(inflated) /\ Len(inflated) \in Nat
      BY <1>1, WalletFacts, ChainFacts DEF IInv
    <2> QED BY <1>1, <2>1 DEF IInv
  <1>4. /\ \A r \in pending' : r \in pending \/ ~r.rights
        /\ \A u \in Wallets : stock[u] # None => stock'[u] = stock[u] /\ known'[u] = known[u]
        /\ stock' \in [Wallets -> 0 .. Len(inflated) \cup {None}]
        /\ known' \in [Wallets -> Amount \cup {None}]
        /\ pending' \subseteq [to : Wallets, k : 0 .. Len(inflated), rights : BOOLEAN]
        /\ published' = published /\ IssuedSupply' = IssuedSupply
        /\ NothingYet' /\ StockIsKnown' /\ NoExcess'
        /\ \A u \in Holders' : known'[u] # None => Issued(stock[u])' <= known'[u] \/ Lags(u)'
    BY <1>1, <1>2, <1>3, ValidatedFacts
  <1>5. TypeOK'
    BY <1>2, <1>3, <1>4 DEF TypeOK
  <1>6. ChainAddsUp'
    BY <1>2, <1>4 DEF IInv, ChainAddsUp
  <1>7. \A u \in Wallets : dbRight[u] # None => stock[u] # None
    BY WalletFacts
  <1>8. RightIsUnique'
    <2>1. \A u \in Wallets : dbRight[u] # None => stock'[u] # None
      BY <1>4, <1>7
    <2> QED BY <1>2, <1>4, <2>1 DEF IInv, RightIsUnique, Holds, NobodyHolds
  <1>9. PsbtsAreOld'
    <2>1. \A q \in psbts : q.by \in Wallets /\ stock'[q.by] # None
      BY <1>4, PsbtFacts
    <2> QED BY <1>2, <2>1 DEF IInv, PsbtsAreOld, Holds
  <1>10. NoDelay'
    <2>1. \A u \in Wallets : Holds(u) => known'[u] = known[u]
      BY <1>4, <1>7 DEF Holds
    <2>2. \A n \in 1 .. Len(inflated) : known'[inflated[n].by] = known[inflated[n].by]
      BY <1>3, <1>4, ChainFacts, PsbtFacts
    <2>3. NobodyHolds' <=> NobodyHolds
      BY <1>2 DEF NobodyHolds, Holds
    <2> QED BY <1>2, <1>4, <2>1, <2>2, <2>3 DEF IInv, NoDelay, Holds
  <1> QED BY <1>4, <1>5, <1>6, <1>8, <1>9, <1>10 DEF IInv

\* The rights leave the wallet that holds them.
LEMMA ReceiveRightsKeeps ==
    ASSUME IInv, NEW w \in Wallets, NEW v \in Wallets, ReceiveRights(w, v)
    PROVE  IInv'
  <1>1. /\ Holds(w) /\ Validated(v, Len(inflated), TRUE)
        /\ right' = [right EXCEPT !.version = @ + 1]
        /\ dbRight' = [dbRight EXCEPT ![w] = None]
    BY DEF ReceiveRights, Holds
  <1>2. UNCHANGED <<asset, inflated, supplies, burned, ops, psbts, counted, repeated>>
    BY DEF ReceiveRights, ops
  <1>3. /\ published = counted
        /\ \A n \in 1 .. Len(inflated) : inflated[n] \in counted
        /\ \A r \in pending : ~r.rights
    BY <1>1, HolderFacts
  <1>4. /\ TypeOK /\ Len(inflated) \in Nat /\ asset # None /\ asset.schema = "Ifa"
        /\ right \in Right /\ right.version \in Nat
    <2>1. dbRight[w] # None
      BY <1>1 DEF Holds
    <2> QED BY <2>1, WalletFacts, ChainFacts DEF IInv, TypeOK, RightIsUnique
  <1>5. /\ \A r \in pending' : r \in pending \/ (r.rights = TRUE /\ r.k = Len(inflated) /\ r.to = v)
        /\ \A u \in Wallets : stock[u] # None => stock'[u] = stock[u] /\ known'[u] = known[u]
        /\ stock' \in [Wallets -> 0 .. Len(inflated) \cup {None}]
        /\ known' \in [Wallets -> Amount \cup {None}]
        /\ pending' \subseteq [to : Wallets, k : 0 .. Len(inflated), rights : BOOLEAN]
        /\ published' = published /\ IssuedSupply' = IssuedSupply
        /\ NothingYet' /\ StockIsKnown' /\ NoExcess'
        /\ \A u \in Holders' : known'[u] # None => Issued(stock[u])' <= known'[u] \/ Lags(u)'
    <2>1. Len(inflated) \in 0 .. Len(inflated) /\ TRUE \in BOOLEAN
      BY <1>4
    <2> QED BY <1>1, <1>2, <1>4, <2>1, ValidatedFacts
  <1>6. /\ right' \in Right /\ right'.version = right.version + 1
        /\ right'.amount = right.amount
    BY <1>1, <1>4 DEF Right
  <1>7. dbRight' \in [Wallets -> Right \cup {None}]
    BY <1>1, <1>4 DEF TypeOK
  <1>8. TypeOK'
    BY <1>2, <1>4, <1>5, <1>6, <1>7 DEF TypeOK
  <1>9. ChainAddsUp'
    BY <1>2, <1>5, <1>6 DEF IInv, ChainAddsUp
  <1>10. \A u \in Wallets : dbRight'[u] # None =>
           /\ dbRight'[u] = dbRight[u] /\ dbRight[u].version \in Nat
           /\ dbRight[u].version <= right.version /\ stock[u] # None
    BY <1>1, <1>4, WalletFacts DEF TypeOK, IInv, RightIsUnique
  <1>11. NobodyHolds'
    BY <1>4, <1>6, <1>10 DEF NobodyHolds, Holds
  <1>12. RightIsUnique'
    <2>1. \A u \in Wallets : dbRight'[u] # None =>
            dbRight'[u].version <= right'.version /\ stock'[u] # None /\ asset'.schema = "Ifa"
      BY <1>2, <1>4, <1>5, <1>6, <1>10
    <2>2. \A r \in pending' : r.rights => r.k = Len(inflated') /\ published' = counted'
      BY <1>2, <1>3, <1>5
    <2>3. \A r, q \in pending' : r.rights /\ q.rights => r = q
      <3>1. \A r \in pending' : r.rights => r = [to |-> v, k |-> Len(inflated), rights |-> TRUE]
        BY <1>3, <1>5
      <3> QED BY <3>1
    <2> QED BY <1>2, <1>4, <1>11, <2>1, <2>2, <2>3 DEF RightIsUnique, NobodyHolds
  <1>13. PsbtsAreOld'
    <2>1. \A q \in psbts : /\ q.by \in Wallets /\ stock'[q.by] # None /\ asset.schema = "Ifa"
                           /\ q.on \in Nat /\ q.on <= right.version
      BY <1>4, <1>5, PsbtFacts, ChainFacts DEF IInv, PsbtsAreOld
    <2>2. \A q \in psbts : q.on <= right'.version /\ q.on # right'.version
      BY <1>4, <1>6, <2>1
    <2>3. \A n \in 1 .. Len(inflated) : inflated[n].on < right'.version
      BY <1>4, <1>6, <2>1, ChainFacts DEF IInv, PsbtsAreOld
    <2> QED BY <1>2, <2>1, <2>2, <2>3 DEF IInv, PsbtsAreOld
  <1>14. NoDelay'
    BY <1>2, <1>3, <1>5, <1>11 DEF NoDelay, NobodyHolds
  <1> QED BY <1>5, <1>8, <1>9, <1>12, <1>13, <1>14 DEF IInv

\* A transfer that settles brings its history, and perhaps the rights.
LEMMA SettleKeeps ==
    ASSUME IInv, NEW r \in pending, Settle(r)
    PROVE  IInv'
  <1> DEFINE v == r.to
             N == Len(inflated)
             after == MaxOf(stock[v], r.k)
  <1>1. UNCHANGED <<asset, inflated, supplies, burned, right, ops, psbts, counted, repeated>>
    BY DEF Settle, chain, ops
  <1>2. /\ TypeOK /\ N \in Nat /\ None \notin Int /\ MaxAmount \in Nat
        /\ v \in Wallets /\ r.k \in 0 .. N /\ r.rights \in BOOLEAN
        /\ right \in Right /\ right.version \in Nat /\ right # None
    BY ChainFacts, SupplyAssumption DEF IInv, TypeOK
  <1>3. stock[v] # None /\ stock[v] \in 0 .. N /\ asset # None
    BY <1>2, WalletFacts DEF IInv, StockIsKnown
  <1>4. after \in 0 .. N /\ after >= stock[v] /\ after >= r.k
    BY <1>2, <1>3 DEF MaxOf
  <1>5. /\ pending' = pending \ {r}
        /\ stock' = [stock EXCEPT ![v] = after]
        /\ dbRight' = [dbRight EXCEPT ![v] = IF r.rights THEN right ELSE @]
        /\ known' = [known EXCEPT ![v] =
                        IF asset.schema = "Ifa" THEN SupplySeen(@, Issued(stock'[v])) ELSE @]
    BY DEF Settle
  <1>6. \A u \in Wallets : /\ stock'[u] = IF u = v THEN after ELSE stock[u]
                           /\ dbRight'[u] = IF u = v /\ r.rights THEN right ELSE dbRight[u]
    BY <1>2, <1>5 DEF TypeOK
  <1>7. /\ Issued(after) \in Nat /\ Issued(after) <= IssuedSupply
        /\ Issued(after) \in 0 .. MaxAmount
        /\ IssuedSupply \in Nat /\ IssuedSupply' = IssuedSupply
    <2>1. /\ Issued(after) \in Nat /\ Issued(after) <= IssuedSupply
          /\ IssuedSupply \in Nat /\ IssuedSupply + right.amount = asset.max
          /\ asset.max \in 0 .. MaxAmount /\ right.amount \in 0 .. MaxAmount
      BY <1>2, <1>3, <1>4, SupplyFacts, ChainFacts DEF IInv
    <2>2. IssuedSupply' = IssuedSupply
      BY <1>1 DEF IssuedSupply, Issued
    <2> QED BY <1>2, <2>1, <2>2
  <1>8. asset.schema = "Ifa" =>
          /\ known[v] # None /\ known[v] \in 0 .. MaxAmount
          /\ known'[v] = MaxOf(known[v], Issued(after))
          /\ known'[v] \in 0 .. MaxAmount
          /\ known'[v] >= known[v] /\ known'[v] >= Issued(after)
    <2> SUFFICES ASSUME asset.schema = "Ifa"
                 PROVE  /\ known[v] # None /\ known[v] \in 0 .. MaxAmount
                        /\ known'[v] = MaxOf(known[v], Issued(after))
                        /\ known'[v] \in 0 .. MaxAmount
                        /\ known'[v] >= known[v] /\ known'[v] >= Issued(after)
      OBVIOUS
    <2>1. known[v] # None /\ known[v] \in 0 .. MaxAmount
      BY <1>2, <1>3, WalletFacts DEF IInv, StockIsKnown
    <2>2. known'[v] = MaxOf(known[v], Issued(after))
      <3>1. stock'[v] = after
        BY <1>2, <1>6
      <3>2. Issued(stock'[v]) = Issued(after)
        BY <3>1
      <3>3. known' = [known EXCEPT ![v] = SupplySeen(@, Issued(stock'[v]))]
        BY <1>5
      <3> QED BY <1>2, <3>2, <3>3 DEF SupplySeen, TypeOK
    <2> QED BY <1>2, <1>7, <2>1, <2>2 DEF MaxOf
  <1>9. asset.schema # "Ifa" => known' = known /\ known[v] = None
    BY <1>2, <1>5 DEF TypeOK, IInv, StockIsKnown
  <1>10. \A u \in Wallets : u # v => known'[u] = known[u]
    BY <1>5, <1>2 DEF TypeOK
  <1>11. \A u \in Wallets : /\ stock'[u] = None <=> stock[u] = None
                            /\ known'[u] = None <=> known[u] = None
    <2>1. \A u \in Wallets : stock'[u] = None <=> stock[u] = None
      BY <1>2, <1>3, <1>4, <1>6
    <2>2. known'[v] = None <=> known[v] = None
      BY <1>2, <1>8, <1>9
    <2> QED BY <1>10, <2>1, <2>2
  <1>12. published' = published
    BY <1>1 DEF published
  <1>13. TypeOK'
    <2>1. stock' \in [Wallets -> 0 .. N \cup {None}]
      BY <1>2, <1>4, <1>5 DEF TypeOK
    <2>2. known' \in [Wallets -> Amount \cup {None}]
      <3>1. known \in [Wallets -> Amount \cup {None}] /\ DOMAIN known' = Wallets
        BY <1>2, <1>5 DEF TypeOK
      <3>2. \A u \in Wallets : known'[u] \in Amount \cup {None}
        BY <1>8, <1>9, <1>10, <3>1 DEF Amount
      <3>3. known' = [u \in Wallets |-> known'[u]]
        BY <1>2, <1>5 DEF TypeOK
      <3> QED BY <3>2, <3>3
    <2>3. dbRight' \in [Wallets -> Right \cup {None}]
      BY <1>2, <1>5 DEF TypeOK
    <2> QED BY <1>1, <1>2, <1>5, <1>12, <2>1, <2>2, <2>3 DEF TypeOK
  <1>14. NothingYet' /\ ChainAddsUp'
    BY <1>1, <1>3, <1>7 DEF IInv, NothingYet, ChainAddsUp
  <1>15. r.rights =>
           /\ NobodyHolds /\ r.k = N /\ published = counted /\ asset.schema = "Ifa"
           /\ \A q \in pending' : ~q.rights
           /\ \A n \in 1 .. N : inflated[n] \in counted
    <2>1. \A q \in pending' : q \in pending /\ q # r
      BY <1>5
    <2>2. \A n \in 1 .. N : inflated[n] \in published
      BY <1>2, ChainFacts
    <2> QED BY <2>1, <2>2 DEF IInv, RightIsUnique
  <1>16. \A u \in Wallets : Holds(u)' => (u = v /\ r.rights /\ dbRight'[u] = right)
                                            \/ (~r.rights /\ Holds(u) /\ dbRight'[u] = dbRight[u])
    BY <1>1, <1>6, <1>15 DEF Holds, NobodyHolds
  <1>17. ~r.rights => dbRight' = dbRight
    BY <1>2, <1>5 DEF TypeOK
  <1>18. RightIsUnique'
    <2>1. \A u \in Wallets : dbRight'[u] # None =>
            dbRight'[u].version <= right.version /\ stock'[u] # None /\ asset.schema = "Ifa"
      <3> SUFFICES ASSUME NEW u \in Wallets, dbRight'[u] # None
                   PROVE  /\ dbRight'[u].version <= right.version
                          /\ stock'[u] # None /\ asset.schema = "Ifa"
        OBVIOUS
      <3>1. CASE dbRight'[u] = dbRight[u]
        BY <1>11, <3>1 DEF IInv, RightIsUnique
      <3>2. CASE u = v /\ r.rights /\ dbRight'[u] = right
        BY <1>2, <1>3, <1>11, <1>15, <3>2
      <3> QED BY <1>6, <3>1, <3>2
    <2>2. CASE r.rights
      BY <1>1, <1>15, <1>16, <2>1, <2>2 DEF RightIsUnique
    <2>3. CASE ~r.rights
      <3>1. \A q \in pending' : q \in pending
        BY <1>5
      <3> QED BY <1>1, <1>12, <1>17, <2>1, <2>3, <3>1 DEF IInv, RightIsUnique, Holds, NobodyHolds
    <2> QED BY <2>2, <2>3
  <1>19. PsbtsAreOld'
    <2>1. \A u \in Wallets : Holds(u) => Holds(u)'
      BY <1>1, <1>15, <1>17 DEF Holds, NobodyHolds
    <2>2. \A q \in psbts : q.by \in Wallets
      BY <1>2, ChainFacts
    <2> QED BY <1>1, <1>11, <2>1, <2>2 DEF IInv, PsbtsAreOld
  <1>20. StockIsKnown'
    <2>1. \A n \in 1 .. N : inflated[n] \in counted => n <= stock'[inflated[n].by]
      <3> SUFFICES ASSUME NEW n \in 1 .. N, inflated[n] \in counted
                   PROVE  n <= stock'[inflated[n].by]
        OBVIOUS
      <3>1. inflated[n].by \in Wallets /\ n <= stock[inflated[n].by]
        BY <1>2, ChainFacts DEF IInv, StockIsKnown
      <3>2. CASE inflated[n].by = v
        <4>1. n <= stock[v] /\ stock'[inflated[n].by] = after
          BY <1>6, <3>1, <3>2
        <4> QED BY <1>2, <1>3, <1>4, <4>1
      <3>3. CASE inflated[n].by # v
        BY <1>6, <3>1, <3>3
      <3> QED BY <3>2, <3>3
    <2>2. \A q \in pending' : q \in pending /\ q.to \in Wallets
      BY <1>2, <1>5, ChainFacts
    <2> QED BY <1>1, <1>11, <2>1, <2>2 DEF IInv, StockIsKnown
  <1>21. NoExcess'
    <2> SUFFICES ASSUME ~repeated, NEW u \in Wallets, stock[u] # None, known[u] # None
                 PROVE  known'[u] <= IssuedSupply
      BY <1>1, <1>7, <1>11 DEF NoExcess, Holders
    <2>1. known[u] <= IssuedSupply
      BY DEF IInv, NoExcess, Holders
    <2>2. CASE u = v
      <3>1. known'[v] = MaxOf(known[v], Issued(after))
        BY <1>8, <1>9, <2>2
      <3> QED BY <1>7, <2>1, <2>2, <3>1 DEF MaxOf
    <2>3. CASE u # v
      BY <1>10, <2>1, <2>3
    <2> QED BY <2>2, <2>3
  <1>22. NoDelay'
    <2>1. \A u \in Holders' : known'[u] # None => Issued(stock[u])' <= known'[u] \/ Lags(u)'
      <3> SUFFICES ASSUME NEW u \in Wallets, stock[u] # None, known[u] # None, ~Lags(u)
                   PROVE  Issued(stock[u])' <= known'[u]
        BY <1>1, <1>11 DEF Holders, Lags
      <3>1. CASE u = v
        <4>1. Issued(stock[u])' = Issued(after)
          BY <1>1, <1>6, <3>1 DEF Issued
        <4>2. asset.schema = "Ifa"
          BY <1>9, <3>1
        <4> QED BY <1>7, <1>8, <3>1, <4>1, <4>2
      <3>2. CASE u # v
        <4>1. Issued(stock[u])' = Issued(stock[u]) /\ known'[u] = known[u]
          BY <1>1, <1>6, <1>10, <3>2 DEF Issued
        <4> QED BY <4>1 DEF IInv, NoDelay, Holders
      <3> QED BY <3>1, <3>2
    <2>2. \A u \in Wallets : Holds(u)' => IssuedSupply <= known'[u]
      <3> SUFFICES ASSUME NEW u \in Wallets, Holds(u)'
                   PROVE  IssuedSupply <= known'[u]
        OBVIOUS
      <3>1. CASE u = v /\ r.rights
        <4>1. after = N
          BY <1>2, <1>3, <1>4, <1>15, <3>1
        <4>2. Issued(after) = IssuedSupply
          BY <4>1 DEF IssuedSupply
        <4> QED BY <1>8, <1>15, <3>1, <4>2
      <3>2. CASE ~r.rights /\ Holds(u)
        <4>1. IssuedSupply <= known[u] /\ known[u] \in Nat
          <5>1. known[u] # None
            BY <3>2, WalletFacts DEF Holds
          <5> QED BY <1>2, <3>2, <5>1, WalletFacts DEF IInv, NoDelay
        <4>2. CASE u = v
          <5>1. asset.schema = "Ifa"
            BY <3>2 DEF IInv, RightIsUnique, Holds
          <5> QED BY <1>7, <1>8, <4>1, <4>2, <5>1
        <4>3. CASE u # v
          BY <1>10, <4>1, <4>3
        <4> QED BY <4>2, <4>3
      <3> QED BY <1>16, <3>1, <3>2
    <2>3. \A n \in 1 .. N : inflated[n] \notin counted =>
            /\ n = N
            /\ NobodyHolds'
            /\ IssuedSupply <= known'[inflated[n].by] + inflated[n].amount
      <3> SUFFICES ASSUME NEW n \in 1 .. N, inflated[n] \notin counted
                   PROVE  /\ n = N
                          /\ NobodyHolds'
                          /\ IssuedSupply <= known'[inflated[n].by] + inflated[n].amount
        OBVIOUS
      <3>1. /\ n = N /\ NobodyHolds
            /\ IssuedSupply <= known[inflated[n].by] + inflated[n].amount
        BY DEF IInv, NoDelay
      <3>2. NobodyHolds'
        BY <1>15, <1>16, <3>1 DEF NobodyHolds
      <3>3. /\ inflated[n] \in psbts /\ inflated[n].by \in Wallets
            /\ inflated[n].amount \in Nat
        BY <1>2, ChainFacts
      <3>4. known[inflated[n].by] \in Nat
        BY <1>2, <3>3, PsbtFacts
      <3>5. CASE inflated[n].by = v
        <4>1. asset.schema = "Ifa"
          BY <3>3 DEF IInv, PsbtsAreOld
        <4>2. known'[v] \in Nat /\ known'[v] >= known[v]
          BY <1>2, <1>8, <4>1
        <4> QED BY <1>7, <3>1, <3>2, <3>3, <3>4, <3>5, <4>2
      <3>6. CASE inflated[n].by # v
        BY <1>10, <3>1, <3>2, <3>3, <3>6
      <3> QED BY <3>5, <3>6
    <2> QED BY <1>1, <1>7, <2>1, <2>2, <2>3 DEF NoDelay
  <1> QED BY <1>13, <1>14, <1>18, <1>19, <1>20, <1>21, <1>22 DEF IInv

-----------------------------------------------------------------------------
(* All steps.                                                               *)

\* The amounts of an issuance fit.
LEMMA CreateKeeps ==
    ASSUME IInv, NEW w \in Wallets,
           \/ CreateNiaContract(w) \/ CreateUdaContract(w)
           \/ CreateCfaContract(w) \/ CreateIfaContract(w)
    PROVE  IInv'
  <1>1. MaxAmount \in Nat \ {0} /\ 0 \in Amount /\ 1 \in Amount
    BY SupplyAssumption DEF Amount
  <1>2. \A s \in Amount : s \in Nat /\ s + 0 <= MaxAmount
    BY <1>1 DEF Amount
  <1>3. CASE CreateNiaContract(w)
    <2>1. PICK s \in Amount : Issue(w, "Nia", s, 0, None)
      BY <1>3 DEF CreateNiaContract, TotalIssueAmounts
    <2> QED BY <1>1, <1>2, <2>1, IssueKeeps DEF Schemas
  <1>4. CASE CreateUdaContract(w)
    <2>1. Issue(w, "Uda", 1, 0, None)
      BY <1>4 DEF CreateUdaContract
    <2> QED BY <1>1, <1>2, <2>1, IssueKeeps DEF Schemas
  <1>5. CASE CreateCfaContract(w)
    <2>1. PICK s \in Amount : Issue(w, "Cfa", s, 0, None)
      BY <1>5 DEF CreateCfaContract, TotalIssueAmounts
    <2> QED BY <1>1, <1>2, <2>1, IssueKeeps DEF Schemas
  <1>6. CASE CreateIfaContract(w)
    <2>1. PICK s \in Amount : \E i \in TotalInflationAmounts(s) : Issue(w, "Ifa", s, i, s)
      BY <1>1, <1>6 DEF CreateIfaContract, TotalIssueAmounts
    <2>2. PICK i \in TotalInflationAmounts(s) : Issue(w, "Ifa", s, i, s)
      BY <2>1
    <2>3. i \in Amount /\ s + i <= MaxAmount
      BY <1>2, <2>2 DEF TotalInflationAmounts
    <2> QED BY <2>2, <2>3, IssueKeeps DEF Schemas
  <1> QED BY <1>3, <1>4, <1>5, <1>6

LEMMA BurnKeeps ==
    ASSUME IInv, NEW w \in Wallets, Burn(w)
    PROVE  IInv'
  <1>1. /\ burned' = burned + 1
        /\ UNCHANGED <<asset, inflated, supplies, right, dbRight, ops, stock, known, pending>>
    BY DEF Burn
  <1>2. UNCHANGED <<psbts, counted, repeated>>
    BY <1>1 DEF ops
  <1>3. published' = published /\ IssuedSupply' = IssuedSupply
    BY <1>1 DEF published, IssuedSupply, Issued
  <1>4. TypeOK'
    BY <1>1, <1>2, <1>3 DEF IInv, TypeOK
  <1>5. NothingYet' /\ ChainAddsUp' /\ StockIsKnown' /\ NoExcess'
    BY <1>1, <1>2, <1>3 DEF IInv, NothingYet, ChainAddsUp, StockIsKnown, NoExcess, Holders
  <1>6. RightIsUnique' /\ PsbtsAreOld'
    BY <1>1, <1>2, <1>3 DEF IInv, RightIsUnique, PsbtsAreOld, Holds, NobodyHolds
  <1>7. NoDelay'
    BY <1>1, <1>2, <1>3 DEF IInv, NoDelay, Holders, Holds, NobodyHolds, Lags, Issued
  <1> QED BY <1>4, <1>5, <1>6, <1>7 DEF IInv

LEMMA InflateEndKeeps ==
    ASSUME IInv, NEW p \in psbts, InflateEnd(p)
    PROVE  IInv'
  <1>1. /\ InflationSaved(p) \/ InflationCut(p)
        /\ UNCHANGED <<asset, burned, psbts, pending>>
    BY DEF InflateEnd
  <1>2. CASE p \in published /\ UNCHANGED <<inflated, supplies, right>>
    BY <1>1, <1>2, NextEndKeeps
  <1>3. CASE /\ p.on = right.version
             /\ inflated' = Append(inflated, p)
             /\ supplies' = Append(supplies, IssuedSupply + p.amount)
             /\ right' = [version |-> right.version + 1, amount |-> right.amount - p.amount]
    BY <1>1, <1>3, FirstEndKeeps, FirstCutKeeps
  <1> QED BY <1>2, <1>3 DEF InflateEnd, BroadcastPsbt

LEMMA NextKeeps ==
    ASSUME IInv, [Next]_vars
    PROVE  IInv'
  <1>1. ASSUME NEW w \in Wallets,
               \/ CreateNiaContract(w) \/ CreateUdaContract(w)
               \/ CreateCfaContract(w) \/ CreateIfaContract(w)
        PROVE  IInv'
    BY <1>1, CreateKeeps
  <1>2. ASSUME NEW w \in Wallets, NEW x \in Amount, InflateBegin(w, x)
        PROVE  IInv'
    BY <1>2, InflateBeginKeeps
  <1>3. ASSUME NEW p \in psbts, InflateEnd(p)
        PROVE  IInv'
    BY <1>3, InflateEndKeeps
  <1>4. ASSUME NEW w \in Wallets, Burn(w)
        PROVE  IInv'
    BY <1>4, BurnKeeps
  <1>5. ASSUME NEW w \in Wallets, NEW v \in Wallets, NEW k \in 0 .. MaxPsbts,
               ReceiveAmount(w, v, k)
        PROVE  IInv'
    BY <1>5, ReceiveAmountKeeps, SupplyAssumption
  <1>6. ASSUME NEW w \in Wallets, NEW v \in Wallets, ReceiveRights(w, v)
        PROVE  IInv'
    BY <1>6, ReceiveRightsKeeps
  <1>7. ASSUME NEW r \in pending, Settle(r)
        PROVE  IInv'
    BY <1>7, SettleKeeps
  <1>8. CASE UNCHANGED vars
    <2>1. UNCHANGED <<asset, inflated, supplies, burned, right, dbRight, psbts, counted, repeated,
                      stock, known, pending>>
      BY <1>8 DEF vars, chain, ops
    <2>2. published' = published /\ IssuedSupply' = IssuedSupply
      BY <2>1 DEF published, IssuedSupply, Issued
    <2>3. TypeOK' /\ NothingYet' /\ ChainAddsUp' /\ StockIsKnown' /\ NoExcess'
      BY <2>1, <2>2 DEF IInv, TypeOK, NothingYet, ChainAddsUp, StockIsKnown, NoExcess, Holders
    <2>4. RightIsUnique' /\ PsbtsAreOld'
      BY <2>1, <2>2 DEF IInv, RightIsUnique, PsbtsAreOld, Holds, NobodyHolds
    <2>5. NoDelay'
      BY <2>1, <2>2 DEF IInv, NoDelay, Holders, Holds, NobodyHolds, Lags, Issued
    <2> QED BY <2>3, <2>4, <2>5 DEF IInv
  <1> QED BY <1>1, <1>2, <1>3, <1>4, <1>5, <1>6, <1>7, <1>8 DEF Next

\* What InflatorKnows and KnownIsReal say follows.
LEMMA IInvIsReal ==
    ASSUME IInv PROVE KnownIsReal
  <1> SUFFICES ASSUME ~repeated PROVE KnownIsReal
    BY DEF KnownIsReal
  <1>1. /\ TypeOK /\ right.amount \in 0 .. MaxAmount /\ MaxAmount \in Nat
        /\ \A p \in psbts : p.amount \in 0 .. MaxAmount
    BY ChainFacts DEF IInv
  <1>2. asset # None =>
          /\ IssuedSupply \in Nat /\ IssuedSupply + right.amount = asset.max
          /\ asset.settled <= IssuedSupply /\ asset.max \in 0 .. MaxAmount
    <2>1. ASSUME asset # None
          PROVE  asset.settled <= IssuedSupply
      <3>1. 0 \in 0 .. Len(inflated)
        BY <1>1, ChainFacts
      <3> QED BY <1>1, <2>1, <3>1, SupplyFacts DEF IInv
    <2> QED BY <1>1, <2>1, SupplyFacts DEF IInv
  <1>3. ASSUME NEW w \in Holders
        PROVE  Metadata(w).circulating <= IssuedSupply /\ IssuedSupply <= asset.max
    <2>1. asset # None /\ w \in Wallets
      BY WalletFacts DEF Holders
    <2>2. known[w] # None => known[w] <= IssuedSupply
      BY DEF IInv, NoExcess
    <2>3. IssuedSupply <= asset.max
      BY <1>1, <1>2, <2>1
    <2> QED BY <1>2, <2>1, <2>2, <2>3 DEF Metadata
  <1>4. ASSUME NEW p \in psbts, p.on = right.version
        PROVE  known[p.by] + p.amount <= MaxAmount
    <2>1. asset # None /\ known[p.by] \in 0 .. MaxAmount /\ p.by \in Holders /\ known[p.by] # None
      BY PsbtFacts DEF Holders
    <2>2. known[p.by] <= IssuedSupply
      BY <2>1 DEF IInv, NoExcess
    <2>3. p.amount <= right.amount
      BY <1>4 DEF IInv, PsbtsAreOld
    <2>4. asset.max <= MaxAmount
      BY <1>1, <1>2, <2>1
    <2> QED BY <1>1, <1>2, <2>1, <2>2, <2>3, <2>4
  <1> QED BY <1>3, <1>4 DEF KnownIsReal

LEMMA IInvKnows ==
    ASSUME IInv PROVE InflatorKnows
  <1> SUFFICES ASSUME published = counted, NEW w \in Holders
               PROVE  /\ known[w] # None => Issued(stock[w]) <= known[w]
                      /\ dbRight[w] # None /\ dbRight[w].version = right.version =>
                           IssuedSupply <= known[w]
    BY DEF InflatorKnows
  <1>1. ~Lags(w)
    <2>1. Len(inflated) > 0 => inflated[Len(inflated)] \in published
      BY ChainFacts DEF IInv
    <2> QED BY <2>1 DEF Lags
  <1>2. w \in Wallets
    BY DEF Holders
  <1> QED BY <1>1, <1>2 DEF IInv, NoDelay, Holds

\* The supply a wallet records is an amount, for any amounts and wallets
\* (get_total_issue_amount, get_total_inflation_amount, inflate_end_impl).
THEOREM SupplyTypes == Spec => []TypeOK
  <1>1. IInv => TypeOK
    BY DEF IInv
  <1> QED BY <1>1, InitEstablishes, NextKeeps, PTL DEF Spec

\* A wallet knows of no supply that was not issued, and the sum made after a
\* broadcast fits, as long as no end is repeated (wait_confirmations,
\* inflate_end_impl).
THEOREM NoSupplyIsInvented == Spec => []KnownIsReal
  <1> QED BY IInvIsReal, InitEstablishes, NextKeeps, PTL DEF Spec

\* Who holds the inflation rights knows the whole supply (wait_confirmations).
THEOREM HolderKnowsTheSupply == Spec => []InflatorKnows
  <1> QED BY IInvKnows, InitEstablishes, NextKeeps, PTL DEF Spec
=============================================================================
