--------------------------- MODULE Recursion_proofs ---------------------------
(***************************************************************************)
(* Theorems that rest on what recursive definitions compute for every input:   *)
(* the order of Catalogue's script, and with it what the seed leaves behind,     *)
(* what TrackLog derives from the points of a session, and the time TimeMath counts. *)
(***************************************************************************)
EXTENDS Catalogue, TrackLog, Timesheet, SequenceTheorems, FiniteSetTheorems, WellFoundedInduction, TLAPS

---------------------------------------------------------------------------
(* Induction over the natural numbers, from the order being well-founded; and that    *)
(* a function that steps from one number to the next exists.                      *)

LEMMA Least ==
  ASSUME NEW T, T \subseteq Nat, T # {}
  PROVE  \E m \in T : \A n \in T : m <= n
<1>1. PICK R : R = OpToRel(<, Nat)
  OBVIOUS
<1>2. IsWellFoundedOn(R, Nat)
  BY <1>1, NatLessThanWellFounded
<1>3. R = {ss \in Nat \X Nat : ss[1] < ss[2]}
  BY <1>1 DEF OpToRel
<1>4. PICK m \in T : \A n \in T : ~(<<n, m>> \in R)
  BY <1>2, WFMin
<1>5. \A n \in T : ~(n < m)
  BY <1>3, <1>4
<1> QED BY <1>5

LEMMA Induction ==
  ASSUME NEW S, 0 \in S, \A n \in Nat : n \in S => n + 1 \in S
  PROVE  Nat \subseteq S
<1> SUFFICES ASSUME Nat \ S # {} PROVE FALSE
  OBVIOUS
<1>1. PICK m \in Nat \ S : \A n \in Nat \ S : m <= n
  BY Least
<1>2. m - 1 \in Nat /\ m - 1 \in S
  BY <1>1
<1> QED BY <1>1, <1>2

(* f takes n steps from base *)
Iterates(f, base, step, n) ==
  f[0] = base /\ \A i \in 1 .. n : f[i] = step[<<i, f[i - 1]>>]

LEMMA Recursion ==
  ASSUME NEW A, NEW base \in A, NEW n \in Nat, NEW step \in [(1 .. n) \X A -> A]
  PROVE  \E f \in [0 .. n -> A] : Iterates(f, base, step, n)
<1>1. PICK S : S = {m \in 0 .. n : \E f \in [0 .. m -> A] : Iterates(f, base, step, m)}
  OBVIOUS
<1>2. 0 \in S
  <2>1. PICK f : f = [i \in 0 .. 0 |-> base]
    OBVIOUS
  <2>2. f \in [0 .. 0 -> A] /\ f[0] = base /\ 1 .. 0 = {}
    BY <2>1
  <2>3. Iterates(f, base, step, 0)
    BY <2>2 DEF Iterates
  <2> QED BY <1>1, <2>2, <2>3
<1>3. ASSUME NEW m \in Nat, m \in S, m + 1 \in 0 .. n PROVE m + 1 \in S
  <2>1. PICK f \in [0 .. m -> A] : Iterates(f, base, step, m)
    BY <1>1, <1>3
  <2>2. PICK last : last = step[<<m + 1, f[m]>>]
    OBVIOUS
  <2>3. last \in A
    <3>1. f[m] \in A
      BY <2>1
    <3>2. <<m + 1, f[m]>> \in (1 .. n) \X A
      BY <1>3, <3>1
    <3> QED BY <2>2, <3>2
  <2>4. PICK g : g = [i \in 0 .. m + 1 |-> IF i = m + 1 THEN last ELSE f[i]]
    OBVIOUS
  <2>5. g \in [0 .. m + 1 -> A] /\ g[m + 1] = last /\ \A i \in 0 .. m : g[i] = f[i]
    BY <2>1, <2>3, <2>4
  <2>6. g[0] = base
    BY <2>1, <2>5 DEF Iterates
  <2>7. ASSUME NEW i \in 1 .. m + 1 PROVE g[i] = step[<<i, g[i - 1]>>]
    <3>1. CASE i = m + 1
      <4>1. i - 1 = m /\ m \in 0 .. m
        BY <3>1
      <4> QED BY <2>2, <2>5, <3>1, <4>1
    <3>2. CASE i # m + 1
      <4>1. i \in 1 .. m /\ i \in 0 .. m /\ i - 1 \in 0 .. m
        BY <3>2
      <4> QED BY <2>1, <2>5, <4>1 DEF Iterates
    <3> QED BY <3>1, <3>2
  <2>8. Iterates(g, base, step, m + 1)
    BY <2>6, <2>7 DEF Iterates
  <2> QED BY <1>1, <1>3, <2>5, <2>8
<1>4. PICK U : U = {m \in Nat : m \in 0 .. n => m \in S}
  OBVIOUS
<1>5. 0 \in U
  BY <1>2, <1>4
<1>6. \A m \in Nat : m \in U => m + 1 \in U
  BY <1>3, <1>4
<1>7. n \in U
  BY <1>5, <1>6, Induction
<1>8. n \in S
  BY <1>4, <1>7
<1> QED BY <1>1, <1>8

Plans == {"starter", "professional", "business", "enterprise"}
Codes == STRING \cup Plans \cup Billing

Has(q, x) == \E j \in 1 .. Len(q) : q[j] = x
Gathers(q, ss, i) == \A x : Has(q, x) <=> \E k \in 1 .. i : Has(ss[k], x)

LEMMA Concatenated ==
  ASSUME NEW T, NEW p \in Seq(T), NEW q \in Seq(T)
  PROVE  p \o q \in Seq(T) /\ \A x : Has(p \o q, x) <=> Has(p, x) \/ Has(q, x)
<1>1. PICK r : r = p \o q
  OBVIOUS
<1>2. /\ r \in Seq(T) /\ Len(r) = Len(p) + Len(q) /\ Len(p) \in Nat /\ Len(q) \in Nat
      /\ \A i \in 1 .. Len(r) : r[i] = IF i <= Len(p) THEN p[i] ELSE q[i - Len(p)]
  BY <1>1, ConcatProperties, LenProperties
<1>3. ASSUME NEW x, Has(r, x) PROVE Has(p, x) \/ Has(q, x)
  <2>1. PICK i \in 1 .. Len(r) : r[i] = x
    BY <1>3 DEF Has
  <2>2. CASE i <= Len(p)
    BY <1>2, <2>1, <2>2 DEF Has
  <2>3. CASE ~(i <= Len(p))
    <3>1. i - Len(p) \in 1 .. Len(q) /\ q[i - Len(p)] = x
      BY <1>2, <2>1, <2>3
    <3> QED BY <3>1 DEF Has
  <2> QED BY <2>2, <2>3
<1>4. ASSUME NEW x, Has(p, x) PROVE Has(r, x)
  BY <1>2, <1>4 DEF Has
<1>5. ASSUME NEW x, Has(q, x) PROVE Has(r, x)
  <2>1. PICK i \in 1 .. Len(q) : q[i] = x
    BY <1>5 DEF Has
  <2>2. PICK k \in Int : k = i + Len(p)
    BY <1>2
  <2>3. k \in 1 .. Len(r) /\ ~(k <= Len(p)) /\ k - Len(p) = i
    BY <1>2, <2>2
  <2>4. r[k] = x
    BY <1>2, <2>1, <2>3
  <2> QED BY <2>3, <2>4 DEF Has
<1> QED BY <1>1, <1>2, <1>3, <1>4, <1>5

LEMMA Flattened ==
  ASSUME NEW T, NEW n \in Nat, NEW ss \in [1 .. n -> Seq(T)]
  PROVE  FlattenSeq(ss) \in Seq(T) /\ Gathers(FlattenSeq(ss), ss, n)
<1>1. ss \in Seq(Seq(T)) /\ Len(ss) = n
  OBVIOUS
<1>2. CASE n = 0
  <2>1. FlattenSeq(ss) = ss
    BY <1>1, <1>2 DEF FlattenSeq
  <2>2. ss = <<>>
    BY <1>1, <1>2
  <2>3. ss \in Seq(T) /\ 1 .. n = {}
    BY <1>2, <2>2
  <2> QED BY <1>1, <1>2, <2>1, <2>3 DEF Gathers, Has
<1>3. CASE n # 0
  <2>1. PICK step : step = [p \in (1 .. n) \X Seq(T) |-> IF p[1] = 1 THEN ss[1] ELSE p[2] \o ss[p[1]]]
    OBVIOUS
  <2>2. step \in [(1 .. n) \X Seq(T) -> Seq(T)]
    <3>1. ASSUME NEW p \in (1 .. n) \X Seq(T)
          PROVE (IF p[1] = 1 THEN ss[1] ELSE p[2] \o ss[p[1]]) \in Seq(T)
      <4>1. p[1] \in 1 .. n /\ p[2] \in Seq(T) /\ ss[1] \in Seq(T)
        BY <1>3
      <4>2. ss[p[1]] \in Seq(T)
        BY <4>1
      <4>3. p[2] \o ss[p[1]] \in Seq(T)
        BY <4>1, <4>2, Concatenated
      <4> QED BY <4>1, <4>3
    <3> QED BY <2>1, <3>1
  <2>3. PICK h \in [0 .. n -> Seq(T)] : Iterates(h, <<>>, step, n)
    BY <2>2, Recursion, EmptySeq
  <2>4. ASSUME NEW i \in 1 .. n
        PROVE h[i] = IF i = 1 THEN ss[i] ELSE h[i - 1] \o ss[i]
    <3>1. PICK q \in Seq(T) : q = h[i - 1]
      BY <2>3
    <3>2. <<i, q>> \in (1 .. n) \X Seq(T)
      OBVIOUS
    <3>3. h[i] = step[<<i, q>>]
      BY <2>3, <3>1 DEF Iterates
    <3> QED BY <2>1, <3>1, <3>2, <3>3
  <2>5. PICK g : g = [i \in 1 .. n |-> h[i]]
    OBVIOUS
  <2>6. g = [i \in 1 .. n |-> IF i = 1 THEN ss[i] ELSE g[i - 1] \o ss[i]]
    BY <2>4, <2>5
  <2>7. PICK f : f = CHOOSE k : k = [i \in 1 .. n |-> IF i = 1 THEN ss[i] ELSE k[i - 1] \o ss[i]]
    OBVIOUS
  <2>8. f = [i \in 1 .. n |-> IF i = 1 THEN ss[i] ELSE f[i - 1] \o ss[i]]
    BY <2>6, <2>7
  <2>9. FlattenSeq(ss) = f[n]
    BY <1>1, <1>3, <2>7 DEF FlattenSeq
  <2>10. PICK S : S = {m \in Nat : m \in 1 .. n => f[m] \in Seq(T) /\ Gathers(f[m], ss, m)}
    OBVIOUS
  <2>11. 0 \in S
    BY <2>10
  <2>12. ASSUME NEW m \in Nat, m \in S PROVE m + 1 \in S
    <3> SUFFICES ASSUME m + 1 \in 1 .. n
                 PROVE f[m + 1] \in Seq(T) /\ Gathers(f[m + 1], ss, m + 1)
      BY <2>10
    <3>1. f[m + 1] = IF m + 1 = 1 THEN ss[m + 1] ELSE f[m] \o ss[m + 1]
      <4>1. PICK k \in 1 .. n : k = m + 1 /\ k - 1 = m
        OBVIOUS
      <4>2. f[k] = IF k = 1 THEN ss[k] ELSE f[k - 1] \o ss[k]
        BY <2>8
      <4> QED BY <4>1, <4>2
    <3>2. ss[m + 1] \in Seq(T)
      OBVIOUS
    <3>3. CASE m = 0
      BY <3>1, <3>2, <3>3 DEF Gathers
    <3>4. CASE m # 0
      <4>1. f[m] \in Seq(T) /\ Gathers(f[m], ss, m)
        BY <2>10, <2>12, <3>4
      <4>2. f[m + 1] \in Seq(T) /\ \A x : Has(f[m + 1], x) <=> Has(f[m], x) \/ Has(ss[m + 1], x)
        BY <3>1, <3>2, <3>4, <4>1, Concatenated
      <4>3. \A x : Has(f[m], x) <=> \E k \in 1 .. m : Has(ss[k], x)
        BY <4>1 DEF Gathers
      <4>4. 1 .. m + 1 = (1 .. m) \cup {m + 1}
        OBVIOUS
      <4> QED BY <4>2, <4>3, <4>4 DEF Gathers
    <3> QED BY <3>3, <3>4
  <2>13. n \in S
    BY <2>11, <2>12, Induction
  <2> QED BY <1>3, <2>9, <2>10, <2>13
<1> QED BY <1>2, <1>3

(* The script: what a statement looks up by its key is written by an earlier one.  *)
StatementRow ==
  [kind: {"market", "feature", "plan", "grant", "price", "role"}, key: Seq(Codes)]
LooksUp(st) ==
  CASE st.kind = "grant" -> {Statement("feature", <<st.key[2]>>)}
    [] st.kind = "price" -> {Statement("market", <<st.key[1]>>), Statement("plan", <<st.key[2]>>)}
    [] OTHER -> {}
InOrder(q) ==
  /\ q \in Seq(StatementRow)
  /\ \A n \in 1 .. Len(q) : \A x \in LooksUp(q[n]) : \E m \in 1 .. n - 1 : q[m] = x

ScriptInOrder ==
  /\ Len(Script) \in Nat
  /\ \A n \in 1 .. Len(Script) :
       LET key == Script[n].key
           Earlier(kind, k) == \E m \in 1 .. n - 1 : Script[m] = Statement(kind, <<k>>)
       IN /\ Script[n].kind \in {"market", "feature", "plan", "grant", "price", "role"}
          /\ Script[n].kind = "grant" => Earlier("feature", key[2])
          /\ Script[n].kind = "price" => Earlier("market", key[1]) /\ Earlier("plan", key[2])

LEMMA Follows ==
  ASSUME NEW p, InOrder(p), NEW q \in Seq(StatementRow),
         \A st : Has(q, st) => \A x \in LooksUp(st) : Has(p, x)
  PROVE  InOrder(p \o q) /\ \A x : Has(p \o q, x) <=> Has(p, x) \/ Has(q, x)
<1>1. PICK r : r = p \o q
  OBVIOUS
<1>2. /\ r \in Seq(StatementRow) /\ Len(r) = Len(p) + Len(q) /\ Len(p) \in Nat /\ Len(q) \in Nat
      /\ \A i \in 1 .. Len(r) : r[i] = IF i <= Len(p) THEN p[i] ELSE q[i - Len(p)]
  BY <1>1, ConcatProperties, LenProperties DEF InOrder
<1>3. ASSUME NEW n \in 1 .. Len(r), NEW x \in LooksUp(r[n])
      PROVE  \E m \in 1 .. n - 1 : r[m] = x
  <2>1. CASE n <= Len(p)
    <3>1. n \in 1 .. Len(p) /\ r[n] = p[n]
      BY <1>2, <2>1
    <3>2. PICK m \in 1 .. n - 1 : p[m] = x
      BY <1>3, <3>1 DEF InOrder
    <3>3. m \in 1 .. Len(r) /\ m <= Len(p)
      BY <1>2, <2>1, <3>2
    <3> QED BY <1>2, <3>2, <3>3
  <2>2. CASE ~(n <= Len(p))
    <3>1. PICK i \in Int : i = n - Len(p)
      <4>1. n \in Int /\ Len(p) \in Int
        BY <1>2
      <4> QED BY <4>1
    <3>2. i \in 1 .. Len(q) /\ r[n] = q[i]
      BY <1>2, <2>2, <3>1
    <3>3. Has(p, x)
      BY <1>3, <3>2 DEF Has
    <3>4. PICK m \in 1 .. Len(p) : p[m] = x
      BY <3>3 DEF Has
    <3>5. m \in 1 .. Len(r) /\ m <= Len(p) /\ m \in 1 .. n - 1
      BY <1>2, <2>2, <3>4
    <3> QED BY <1>2, <3>4, <3>5
  <2> QED BY <2>1, <2>2
<1>4. \A x : Has(r, x) <=> Has(p, x) \/ Has(q, x)
  BY <1>1, Concatenated DEF InOrder
<1>5. InOrder(r)
  BY <1>2, <1>3 DEF InOrder
<1> QED BY <1>1, <1>4, <1>5

LEMMA StatementTyped ==
  ASSUME NEW kind \in {"market", "feature", "plan", "grant", "price", "role"},
         NEW a \in Codes, NEW b \in Codes, NEW c \in Codes
  PROVE  /\ Statement(kind, <<a>>) \in StatementRow /\ Statement(kind, <<a, b>>) \in StatementRow
         /\ Statement(kind, <<a, b, c>>) \in StatementRow
<1>1. <<a>> \in Seq(Codes)
  OBVIOUS
<1>2. <<a, b>> \in Seq(Codes)
  OBVIOUS
<1>3. <<a, b, c>> \in Seq(Codes)
  OBVIOUS
<1>4. \A key \in Seq(Codes) : Statement(kind, key) \in StatementRow
  BY DEF Statement, StatementRow
<1> QED BY <1>1, <1>2, <1>3, <1>4

LEMMA EachStatement ==
  ASSUME NEW kind \in {"market", "feature", "plan", "grant", "price", "role"}, NEW seq \in Seq(Codes)
  PROVE  /\ Each(kind, seq) \in Seq(StatementRow)
         /\ \A n \in 1 .. Len(seq) : Has(Each(kind, seq), Statement(kind, <<seq[n]>>))
         /\ \A st : Has(Each(kind, seq), st) => st.kind = kind
<1>1. PICK q : q = Each(kind, seq)
  OBVIOUS
<1>2. q = [n \in 1 .. Len(seq) |-> Statement(kind, <<seq[n]>>)]
  BY <1>1 DEF Each
<1>3. \A n \in 1 .. Len(seq) : Statement(kind, <<seq[n]>>) \in StatementRow /\ Statement(kind, <<seq[n]>>).kind = kind
  BY DEF Statement, StatementRow
<1>4. Len(seq) \in Nat /\ q \in [1 .. Len(seq) -> StatementRow]
  BY <1>2, <1>3, LenProperties
<1>5. q \in Seq(StatementRow) /\ Len(q) = Len(seq)
  BY <1>4
<1> QED BY <1>1, <1>2, <1>3, <1>5 DEF Has

LEMMA GrantStatements ==
  ASSUME NEW plan \in Plans
  PROVE  /\ GrantsOf(plan) \in Seq(StatementRow)
         /\ \A st : Has(GrantsOf(plan), st) =>
              \E n \in 1 .. Len(FeatureSeq) : st = Statement("grant", <<plan, FeatureSeq[n]>>)
<1>1. PICK n \in Nat : n = Len(FeatureSeq)
  BY CatalogueAssumption, LenProperties
<1>2. PICK ss : ss = [i \in 1 .. n |-> IF FeatureSeq[i] \notin PlanFeatures(plan) THEN <<>>
                                       ELSE <<Statement("grant", <<plan, FeatureSeq[i]>>)>>]
  OBVIOUS
<1>3. ASSUME NEW i \in 1 .. n
      PROVE  /\ ss[i] \in Seq(StatementRow)
             /\ \A st : Has(ss[i], st) => st = Statement("grant", <<plan, FeatureSeq[i]>>)
  <2>1. FeatureSeq[i] \in Codes /\ plan \in Codes
    BY <1>1, CatalogueAssumption DEF Codes
  <2>2. PICK st \in StatementRow : st = Statement("grant", <<plan, FeatureSeq[i]>>)
    BY <2>1, StatementTyped
  <2>3. CASE ss[i] = <<>>
    BY <2>3, EmptySeq DEF Has
  <2>4. CASE ss[i] = <<st>>
    BY <2>2, <2>4 DEF Has
  <2> QED BY <1>2, <2>2, <2>3, <2>4
<1>4. ss \in [1 .. n -> Seq(StatementRow)]
  BY <1>2, <1>3
<1>5. GrantsOf(plan) = FlattenSeq(ss)
  BY <1>1, <1>2 DEF GrantsOf
<1>6. FlattenSeq(ss) \in Seq(StatementRow) /\ Gathers(FlattenSeq(ss), ss, n)
  BY <1>4, Flattened
<1> QED BY <1>1, <1>3, <1>5, <1>6 DEF Gathers

LEMMA PlansStatements ==
  ASSUME NEW plan \in Plans
  PROVE  /\ PlanStatements(plan) \in Seq(StatementRow)
         /\ Has(PlanStatements(plan), Statement("plan", <<plan>>))
         /\ \A st : Has(PlanStatements(plan), st) =>
              \/ st = Statement("plan", <<plan>>)
              \/ \E n \in 1 .. Len(FeatureSeq) : st = Statement("grant", <<plan, FeatureSeq[n]>>)
<1>1. plan \in Codes
  BY DEF Codes
<1>2. PICK st \in StatementRow : st = Statement("plan", <<plan>>)
  BY <1>1, StatementTyped
<1>3. PICK p : p = <<st>>
  OBVIOUS
<1>4. p \in Seq(StatementRow) /\ \A x : Has(p, x) <=> x = st
  BY <1>3 DEF Has
<1>5. PlanStatements(plan) = p \o GrantsOf(plan)
  BY <1>2, <1>3 DEF PlanStatements
<1>6. GrantsOf(plan) \in Seq(StatementRow)
  BY GrantStatements
<1>7. /\ p \o GrantsOf(plan) \in Seq(StatementRow)
      /\ \A x : Has(p \o GrantsOf(plan), x) <=> Has(p, x) \/ Has(GrantsOf(plan), x)
  BY <1>4, <1>6, Concatenated
<1> QED BY <1>2, <1>4, <1>5, <1>7, GrantStatements

LEMMA PricesStatements ==
  ASSUME NEW m \in Codes
  PROVE  /\ PriceStatements(m) \in Seq(StatementRow)
         /\ \A st : Has(PriceStatements(m), st) =>
              \E i \in 1 .. Len(PlanSeq) : \E b \in Billing : st = Statement("price", <<m, PlanSeq[i], b>>)
<1>1. PICK n \in Nat : n = Len(PlanSeq)
  BY CatalogueAssumption, LenProperties
<1>2. PICK ss : ss = [i \in 1 .. n |->
    IF PlanSeq[i] \notin Priced THEN <<>>
    ELSE <<Statement("price", <<m, PlanSeq[i], "MONTHLY">>),
           Statement("price", <<m, PlanSeq[i], "ANNUAL">>)>>]
  OBVIOUS
<1>3. ASSUME NEW i \in 1 .. n
      PROVE  /\ ss[i] \in Seq(StatementRow)
             /\ \A st : Has(ss[i], st) => \E b \in Billing : st = Statement("price", <<m, PlanSeq[i], b>>)
  <2>1. PlanSeq[i] \in Codes
    BY <1>1, CatalogueAssumption DEF Plans, Codes
  <2>2. PICK st \in StatementRow : st = Statement("price", <<m, PlanSeq[i], "MONTHLY">>)
    BY <2>1, StatementTyped DEF Codes, Billing
  <2>3. PICK su \in StatementRow : su = Statement("price", <<m, PlanSeq[i], "ANNUAL">>)
    BY <2>1, StatementTyped DEF Codes, Billing
  <2>4. CASE ss[i] = <<>>
    BY <2>4, EmptySeq DEF Has
  <2>5. CASE ss[i] = <<st, su>>
    <3>1. ss[i] \in Seq(StatementRow) /\ \A x : Has(ss[i], x) => x = st \/ x = su
      BY <2>5 DEF Has
    <3> QED BY <2>2, <2>3, <3>1 DEF Billing
  <2> QED BY <1>2, <2>2, <2>3, <2>4, <2>5
<1>4. ss \in [1 .. n -> Seq(StatementRow)]
  BY <1>2, <1>3
<1>5. PriceStatements(m) = FlattenSeq(ss)
  BY <1>1, <1>2 DEF PriceStatements
<1>6. FlattenSeq(ss) \in Seq(StatementRow) /\ Gathers(FlattenSeq(ss), ss, n)
  BY <1>4, Flattened
<1>7. ASSUME NEW st, Has(FlattenSeq(ss), st)
      PROVE  \E i \in 1 .. n : \E b \in Billing : st = Statement("price", <<m, PlanSeq[i], b>>)
  <2>1. PICK k \in 1 .. n : Has(ss[k], st)
    BY <1>6, <1>7 DEF Gathers
  <2> QED BY <1>3, <2>1
<1> QED BY <1>1, <1>5, <1>6, <1>7

LEMMA ScriptOrdered == InOrder(Script)
<1>1. PICK plans : plans = [n \in 1 .. Len(PlanSeq) |-> PlanStatements(PlanSeq[n])]
  OBVIOUS
<1>2. PICK priced : priced = [n \in 1 .. Len(MarketSeq) |-> PriceStatements(MarketSeq[n])]
  OBVIOUS
<1>3. PICK a, b, c, d, e :
        /\ a = Each("market", MarketSeq) /\ b = Each("feature", FeatureSeq)
        /\ c = FlattenSeq(plans) /\ d = FlattenSeq(priced) /\ e = Each("role", RoleSeq)
  OBVIOUS
<1>4. Script = a \o b \o c \o d \o e
  BY <1>1, <1>2, <1>3 DEF Script
<1>5. \A i \in 1 .. Len(PlanSeq) : PlanSeq[i] \in Plans
  BY CatalogueAssumption DEF Plans
<1>6. MarketSeq \in Seq(Codes) /\ FeatureSeq \in Seq(Codes) /\ RoleSeq \in Seq(Codes)
  <2>1. ASSUME NEW s \in Seq(STRING) PROVE s \in Seq(Codes)
    BY DEF Codes
  <2> QED BY <2>1, CatalogueAssumption
<1>7. \A i \in 1 .. Len(MarketSeq) : MarketSeq[i] \in Codes
  BY <1>6
<1>8. Len(PlanSeq) \in Nat /\ Len(MarketSeq) \in Nat
  BY CatalogueAssumption, LenProperties
<1>9. /\ a \in Seq(StatementRow)
      /\ \A n \in 1 .. Len(MarketSeq) : Has(a, Statement("market", <<MarketSeq[n]>>))
      /\ \A st : Has(a, st) => st.kind = "market"
  BY <1>3, <1>6, EachStatement
<1>10. /\ b \in Seq(StatementRow)
       /\ \A n \in 1 .. Len(FeatureSeq) : Has(b, Statement("feature", <<FeatureSeq[n]>>))
       /\ \A st : Has(b, st) => st.kind = "feature"
  BY <1>3, <1>6, EachStatement
<1>11. e \in Seq(StatementRow) /\ \A st : Has(e, st) => st.kind = "role"
  BY <1>3, <1>6, EachStatement
<1>12. /\ c \in Seq(StatementRow)
       /\ \A i \in 1 .. Len(PlanSeq) : Has(c, Statement("plan", <<PlanSeq[i]>>))
       /\ \A st : Has(c, st) => \E i \in 1 .. Len(PlanSeq) :
            \/ st = Statement("plan", <<PlanSeq[i]>>)
            \/ \E n \in 1 .. Len(FeatureSeq) : st = Statement("grant", <<PlanSeq[i], FeatureSeq[n]>>)
  <2>1. \A i \in 1 .. Len(PlanSeq) :
          /\ plans[i] \in Seq(StatementRow)
          /\ Has(plans[i], Statement("plan", <<PlanSeq[i]>>))
          /\ \A st : Has(plans[i], st) =>
              \/ st = Statement("plan", <<PlanSeq[i]>>)
              \/ \E n \in 1 .. Len(FeatureSeq) : st = Statement("grant", <<PlanSeq[i], FeatureSeq[n]>>)
    BY <1>1, <1>5, PlansStatements
  <2>2. plans \in [1 .. Len(PlanSeq) -> Seq(StatementRow)]
    BY <1>1, <2>1
  <2>3. c \in Seq(StatementRow) /\ Gathers(c, plans, Len(PlanSeq))
    BY <1>3, <1>8, <2>2, Flattened
  <2> QED BY <2>1, <2>3 DEF Gathers
<1>13. /\ d \in Seq(StatementRow)
       /\ \A st : Has(d, st) => \E j \in 1 .. Len(MarketSeq) : \E i \in 1 .. Len(PlanSeq) : \E y \in Billing :
            st = Statement("price", <<MarketSeq[j], PlanSeq[i], y>>)
  <2>1. \A j \in 1 .. Len(MarketSeq) :
          /\ priced[j] \in Seq(StatementRow)
          /\ \A st : Has(priced[j], st) => \E i \in 1 .. Len(PlanSeq) : \E y \in Billing :
               st = Statement("price", <<MarketSeq[j], PlanSeq[i], y>>)
    BY <1>2, <1>7, PricesStatements
  <2>2. priced \in [1 .. Len(MarketSeq) -> Seq(StatementRow)]
    BY <1>2, <2>1
  <2>3. d \in Seq(StatementRow) /\ Gathers(d, priced, Len(MarketSeq))
    BY <1>3, <1>8, <2>2, Flattened
  <2>4. ASSUME NEW st, Has(d, st)
        PROVE  \E j \in 1 .. Len(MarketSeq) : \E i \in 1 .. Len(PlanSeq) : \E y \in Billing :
                 st = Statement("price", <<MarketSeq[j], PlanSeq[i], y>>)
    <3>1. PICK j \in 1 .. Len(MarketSeq) : Has(priced[j], st)
      BY <2>3, <2>4 DEF Gathers
    <3>2. PICK i \in 1 .. Len(PlanSeq), y \in Billing :
            st = Statement("price", <<MarketSeq[j], PlanSeq[i], y>>)
      BY <2>1, <3>1
    <3> QED BY <3>2
  <2> QED BY <2>3, <2>4
<1>14. InOrder(a)
  <2>1. \A n \in 1 .. Len(a) : a[n].kind = "market"
    BY <1>9 DEF Has
  <2> QED BY <1>9, <2>1 DEF InOrder, LooksUp
<1>15. InOrder(a \o b) /\ \A x : Has(a \o b, x) <=> Has(a, x) \/ Has(b, x)
  <2>1. \A st : Has(b, st) => LooksUp(st) = {}
    BY <1>10 DEF LooksUp
  <2> QED BY <1>10, <1>14, <2>1, Follows
<1>16. InOrder(a \o b \o c) /\ \A x : Has(a \o b \o c, x) <=> Has(a \o b, x) \/ Has(c, x)
  <2>1. ASSUME NEW st, Has(c, st), NEW x \in LooksUp(st) PROVE Has(a \o b, x)
    <3>1. PICK i \in 1 .. Len(PlanSeq) :
            \/ st = Statement("plan", <<PlanSeq[i]>>)
            \/ \E n \in 1 .. Len(FeatureSeq) : st = Statement("grant", <<PlanSeq[i], FeatureSeq[n]>>)
      BY <1>12, <2>1
    <3>2. CASE st = Statement("plan", <<PlanSeq[i]>>)
      BY <2>1, <3>2 DEF LooksUp, Statement
    <3>3. CASE \E n \in 1 .. Len(FeatureSeq) : st = Statement("grant", <<PlanSeq[i], FeatureSeq[n]>>)
      <4>1. PICK n \in 1 .. Len(FeatureSeq) : st = Statement("grant", <<PlanSeq[i], FeatureSeq[n]>>)
        BY <3>3
      <4>2. st.kind = "grant" /\ st.key[2] = FeatureSeq[n]
        BY <4>1 DEF Statement
      <4>3. x = Statement("feature", <<FeatureSeq[n]>>)
        BY <2>1, <4>2 DEF LooksUp
      <4> QED BY <1>10, <1>15, <4>3
    <3> QED BY <3>1, <3>2, <3>3
  <2> QED BY <1>12, <1>15, <2>1, Follows
<1>17. InOrder(a \o b \o c \o d)
  <2>1. ASSUME NEW st, Has(d, st), NEW x \in LooksUp(st) PROVE Has(a \o b \o c, x)
    <3>1. PICK j \in 1 .. Len(MarketSeq), i \in 1 .. Len(PlanSeq), y \in Billing :
            st = Statement("price", <<MarketSeq[j], PlanSeq[i], y>>)
      BY <1>13, <2>1
    <3>2. st.kind = "price" /\ st.key[1] = MarketSeq[j] /\ st.key[2] = PlanSeq[i]
      BY <3>1 DEF Statement
    <3>3. x = Statement("market", <<MarketSeq[j]>>) \/ x = Statement("plan", <<PlanSeq[i]>>)
      BY <2>1, <3>2 DEF LooksUp
    <3> QED BY <1>9, <1>12, <1>15, <1>16, <3>3
  <2> QED BY <1>13, <1>16, <2>1, Follows
<1>18. InOrder(a \o b \o c \o d \o e)
  <2>1. \A st : Has(e, st) => LooksUp(st) = {}
    BY <1>11 DEF LooksUp
  <2> QED BY <1>11, <1>17, <2>1, Follows
<1> QED BY <1>4, <1>18

LEMMA ScriptIsInOrder == ScriptInOrder
<1>1. Len(Script) \in Nat
  BY ScriptOrdered, LenProperties DEF InOrder
<1>2. ASSUME NEW n \in 1 .. Len(Script)
      PROVE  /\ Script[n].kind \in {"market", "feature", "plan", "grant", "price", "role"}
             /\ Script[n].kind = "grant" =>
                  \E m \in 1 .. n - 1 : Script[m] = Statement("feature", <<Script[n].key[2]>>)
             /\ Script[n].kind = "price" =>
                  /\ \E m \in 1 .. n - 1 : Script[m] = Statement("market", <<Script[n].key[1]>>)
                  /\ \E m \in 1 .. n - 1 : Script[m] = Statement("plan", <<Script[n].key[2]>>)
  <2>1. PICK st : st = Script[n]
    OBVIOUS
  <2>2. st \in StatementRow /\ \A x \in LooksUp(st) : \E m \in 1 .. n - 1 : Script[m] = x
    <3>1. PICK q : q = Script /\ InOrder(q)
      BY ScriptOrdered
    <3>2. n \in 1 .. Len(q) /\ st = q[n] /\ q \in Seq(StatementRow)
      BY <2>1, <3>1 DEF InOrder
    <3>3. st \in StatementRow
      BY <3>2
    <3>4. \A x \in LooksUp(q[n]) : \E m \in 1 .. n - 1 : q[m] = x
      BY <3>1, <3>2 DEF InOrder
    <3> QED BY <3>1, <3>2, <3>3, <3>4
  <2>3. st.kind \in {"market", "feature", "plan", "grant", "price", "role"}
    BY <2>2 DEF StatementRow
  <2> QED BY <2>1, <2>2, <2>3 DEF LooksUp
<1> QED BY <1>1, <1>2 DEF ScriptInOrder
-----------------------------------------------------------------------------
(* Catalogue.  A run that is under way has left behind what the statements before the   *)
(* one it is at are to leave, and nobody takes that away again.  That a statement finds   *)
(* what it looks up rests on the order of the script.                               *)

Key == {Script[n].key[j] : n \in 1 .. Len(Script), j \in 1 .. 3}
CatalogueRow ==
  [market: Key, plan: Key, interval: Key, amount: Version \cup {0},
   status: {"ACTIVE", "GRANDFATHERED", "RETIRED"}]
SystemRole == {RoleRow(r, release) : r \in Key, release \in Version \cup {0}}

Run ==
  [phase: {"idle", "statement", "create", "update", "organization", "demo", "complete", "failed"},
   release: Version \cup {0}, withDemo: BOOLEAN, at: Nat, row: Nat]

(* What statement n of the script is to leave behind. *)
Written(n) ==
  LET key == Script[n].key IN
  /\ Script[n].kind = "price" =>
       \E k \in DOMAIN prices : /\ prices[k].market = key[1] /\ prices[k].plan = key[2]
                                /\ prices[k].interval = key[3]
  /\ Script[n].kind = "role" => RowsOf(key[1]) # {}
  /\ Script[n].kind \notin {"price", "role"} => Script[n] \in reference

Left(q) ==
  /\ q.phase \in {"statement", "create", "update"} =>
       q.at # 0 /\ \A n \in 1 .. Len(Script) : n < q.at => Written(n)
  /\ q.phase \in {"create", "update"} => q.at <= Len(Script)
  /\ q.phase = "update" => Script[q.at].kind = "role" /\ q.row \in RowsOf(Script[q.at].key[1])
  /\ q.phase \in {"organization", "demo", "complete"} =>
       \A n \in 1 .. Len(Script) : Written(n)

(* As long as no two runs were under way at once, a role has one row. *)
OneEach ==
  /\ \A s, t \in Seed : Underway(s) /\ Underway(t) => s = t
  /\ \A m, n \in DOMAIN roles : roles[m].code = roles[n].code => m = n
  /\ \A s \in Seed : seeds[s].phase = "create" /\ Current(s).kind = "role" =>
       RowsOf(Current(s).key[1]) = {}

SeedingInv ==
  /\ prices \in Seq(CatalogueRow) /\ roles \in Seq(SystemRole)
  /\ seeds \in [Seed -> Run] /\ overlap \in BOOLEAN
  /\ \A s \in Seed : Left(seeds[s])
  /\ ~overlap => OneEach

(* Nothing that was written goes, or turns into something else. *)
Adds ==
  /\ reference \subseteq reference'
  /\ \A k \in DOMAIN prices :
       /\ k \in DOMAIN prices' /\ prices'[k].market = prices[k].market
       /\ prices'[k].plan = prices[k].plan /\ prices'[k].interval = prices[k].interval
  /\ \A k \in DOMAIN roles : k \in DOMAIN roles' /\ roles'[k].code = roles[k].code

LEMMA RowsStay ==
  ASSUME Adds, NEW r PROVE RowsOf(r) \subseteq RowsOf(r)'
BY DEF Adds, RowsOf

LEMMA WrittenStays ==
  ASSUME Adds, NEW n, Written(n) PROVE Written(n)'
<1>1. Script[n].kind = "price" => Written(n)'
  BY DEF Adds, Written
<1>2. Script[n].kind # "price" => Written(n)'
  BY RowsStay DEF Adds, Written
<1> QED BY <1>1, <1>2

LEMMA LeftStays ==
  ASSUME Adds, NEW q, Left(q) PROVE Left(q)'
<1>1. q.phase \in {"statement", "create", "update"} =>
        q.at # 0 /\ \A n \in 1 .. Len(Script) : n < q.at => Written(n)'
  BY WrittenStays DEF Left
<1>2. q.phase = "update" => Script[q.at].kind = "role" /\ q.row \in RowsOf(Script[q.at].key[1])'
  BY RowsStay DEF Left
<1>3. q.phase \in {"organization", "demo", "complete"} =>
        \A n \in 1 .. Len(Script) : Written(n)'
  BY WrittenStays DEF Left
<1> QED BY <1>1, <1>2, <1>3 DEF Left

LEMMA RunMoves ==
  ASSUME SeedingInv, NEW s \in Seed, NEW q \in Run, To(s, q), Adds, Left(q)',
         prices' \in Seq(CatalogueRow), roles' \in Seq(SystemRole), overlap' \in BOOLEAN,
         ~overlap' => OneEach'
  PROVE  SeedingInv'
<1>1. /\ seeds' \in [Seed -> Run] /\ seeds'[s] = q
      /\ \A t \in Seed \ {s} : seeds'[t] = seeds[t]
  BY DEF SeedingInv, To
<1>2. ASSUME NEW t \in Seed PROVE Left(seeds[t])'
  <2>1. PICK x : x = seeds'[t]
    OBVIOUS
  <2>2. Left(x)'
    BY <1>1, <2>1, LeftStays DEF SeedingInv
  <2> QED BY <2>1, <2>2
<1> QED BY <1>1, <1>2 DEF SeedingInv

(* A step that writes no role, of a run that was under way.                          *)
LEMMA RolesApart ==
  ASSUME SeedingInv, NEW s \in Seed, NEW q \in Run, To(s, q), Underway(s),
         UNCHANGED <<roles, overlap>>,
         q.phase = "create" /\ Script[q.at].kind = "role" => RowsOf(Script[q.at].key[1]) = {}
  PROVE  ~overlap' => OneEach'
<1> SUFFICES ASSUME ~overlap PROVE OneEach'
  OBVIOUS
<1>1. OneEach
  BY DEF SeedingInv
<1>2. /\ seeds'[s] = q /\ \A t \in Seed \ {s} : seeds'[t] = seeds[t]
  BY DEF SeedingInv, To
<1>3. \A t \in Seed : Underway(t)' => Underway(t)
  BY <1>2 DEF Underway
<1>4. \A t, u \in Seed : Underway(t)' /\ Underway(u)' => t = u
  BY <1>1, <1>3 DEF OneEach
<1>5. ASSUME NEW t \in Seed, (seeds[t].phase = "create" /\ Current(t).kind = "role")'
      PROVE  RowsOf(Current(t).key[1])' = {}
  <2>1. PICK x : x = seeds'[t]
    OBVIOUS
  <2>2. x.phase = "create" /\ Script[x.at].kind = "role"
    BY <1>5, <2>1 DEF Current
  <2>3. RowsOf(Script[x.at].key[1]) = {}
    <3>1. CASE t = s
      BY <1>2, <2>1, <2>2, <3>1
    <3>2. CASE t # s
      BY <1>1, <1>2, <2>1, <2>2, <3>2 DEF OneEach, Current
    <3> QED BY <3>1, <3>2
  <2>4. RowsOf(Script[x.at].key[1])' = {}
    BY <2>3 DEF RowsOf
  <2> QED BY <2>1, <2>4 DEF Current
<1>6. \A m, n \in DOMAIN roles' : roles'[m].code = roles'[n].code => m = n
  BY <1>1 DEF OneEach
<1> QED BY <1>4, <1>5, <1>6 DEF OneEach

LEMMA NextStatement ==
  ASSUME NEW b \in Run, NEW q, q = [b EXCEPT !.phase = "statement", !.at = b.at + 1]
  PROVE  q \in Run /\ q.phase = "statement" /\ q.at = b.at + 1 /\ b.at \in Nat
<1>1. PICK n : n = b.at + 1
  OBVIOUS
<1>2. b.at \in Nat
  BY DEF Run
<1>3. n \in Nat
  BY <1>1, <1>2
<1>4. q = [b EXCEPT !.phase = "statement", !.at = n]
  BY <1>1
<1>5. q \in Run /\ q.phase = "statement" /\ q.at = n
  BY <1>3, <1>4 DEF Run
<1> QED BY <1>1, <1>2, <1>5

LEMMA Advances ==
  ASSUME SeedingInv, ScriptInOrder, NEW s \in Seed, NEW b \in Run, b = seeds[s],
         b.phase \in {"statement", "create", "update"}, b.at <= Len(Script),
         NEW q \in Run, To(s, q), q.phase = "statement", q.at = b.at + 1,
         Adds, Written(b.at)', prices' \in Seq(CatalogueRow), roles' \in Seq(SystemRole),
         overlap' \in BOOLEAN, ~overlap' => OneEach'
  PROVE  SeedingInv'
<1>1. b.at \in Nat /\ Left(b)
  BY DEF Run, SeedingInv
<1>2. Left(b)'
  BY <1>1, LeftStays
<1>3. ASSUME NEW n \in 1 .. Len(Script), n < q.at PROVE Written(n)'
  <2>1. n < b.at \/ n = b.at
    BY <1>1, <1>3 DEF ScriptInOrder
  <2> QED BY <1>2, <2>1 DEF Left
<1>4. q.at # 0
  BY <1>1
<1>5. Left(q)'
  BY <1>3, <1>4 DEF Left
<1> QED BY <1>5, RunMoves

LEMMA Begins ==
  ASSUME SeedingInv, ScriptInOrder, NEW s \in Seed, NEW release \in Version,
         NEW withDemo \in BOOLEAN, BeginSeed(s, release, withDemo)
  PROVE  SeedingInv'
<1>1. PICK q : q = [phase |-> "statement", release |-> release, withDemo |-> withDemo,
                    at |-> 1, row |-> 0]
  OBVIOUS
<1>2. /\ To(s, q) /\ UNCHANGED <<reference, prices, roles, demo>>
      /\ overlap' = (overlap \/ \E t \in Seed : Underway(t))
  BY <1>1 DEF BeginSeed, tables
<1>3. q \in Run /\ q.phase = "statement" /\ q.at = 1
  BY <1>1 DEF Run
<1>4. Adds
  BY <1>2 DEF Adds
<1>5. Left(q)'
  BY <1>3 DEF Left, ScriptInOrder
<1>6. ASSUME ~overlap' PROVE OneEach'
  <2>1. OneEach /\ \A t \in Seed : ~Underway(t)
    BY <1>2, <1>6 DEF SeedingInv
  <2>2. seeds'[s] = q /\ \A t \in Seed \ {s} : seeds'[t] = seeds[t]
    BY <1>2 DEF SeedingInv, To
  <2>3. \A t \in Seed \ {s} : ~Underway(t)' /\ seeds'[t].phase # "create"
    BY <2>1, <2>2 DEF Underway
  <2>4. \A m, n \in DOMAIN roles' : roles'[m].code = roles'[n].code => m = n
    BY <1>2, <2>1 DEF OneEach
  <2>5. \A t \in Seed : seeds'[t].phase # "create"
    BY <1>3, <2>2, <2>3
  <2>6. \A t, u \in Seed : Underway(t)' /\ Underway(u)' => t = u
    BY <2>3
  <2> QED BY <2>4, <2>5, <2>6 DEF OneEach
<1> QED BY <1>2, <1>3, <1>4, <1>5, <1>6, RunMoves DEF SeedingInv

(* A step that only takes the run to another phase.                                  *)
LEMMA Enters ==
  ASSUME SeedingInv, NEW s \in Seed, NEW b \in Run, b = seeds[s], Underway(s),
         NEW q \in Run, To(s, q), Adds, Left(q)', UNCHANGED <<prices, roles, overlap>>,
         q.phase = "create" /\ Script[q.at].kind = "role" => RowsOf(Script[q.at].key[1]) = {}
  PROVE  SeedingInv'
BY RolesApart, RunMoves DEF SeedingInv

LEMMA Ceases ==
  ASSUME SeedingInv, NEW s \in Seed, Underway(s), Abort(s), UNCHANGED <<tables, overlap>>
  PROVE  SeedingInv'
<1>1. PICK b \in Run : b = seeds[s]
  BY DEF SeedingInv
<1>2. PICK q : q = [b EXCEPT !.phase = "failed"]
  OBVIOUS
<1>3. q \in Run /\ q.phase = "failed"
  BY <1>2 DEF Run
<1>4. To(s, q) /\ Adds /\ UNCHANGED <<prices, roles, overlap>>
  BY <1>1, <1>2 DEF Abort, Enter, Adds, tables
<1>5. Left(q)'
  BY <1>3 DEF Left
<1> QED BY <1>1, <1>3, <1>4, <1>5, Enters

LEMMA Upserts ==
  ASSUME SeedingInv, ScriptInOrder, NEW s \in Seed, Upsert(s) \/ UpsertGrant(s)
  PROVE  SeedingInv'
<1>1. PICK b \in Run : b = seeds[s]
  BY DEF SeedingInv
<1>2. PICK q : q = [b EXCEPT !.phase = "statement", !.at = b.at + 1]
  OBVIOUS
<1>3. /\ b.phase = "statement" /\ b.at <= Len(Script) /\ To(s, q)
      /\ Script[b.at].kind \in {"market", "feature", "plan", "grant"}
      /\ UNCHANGED <<prices, roles, overlap>> /\ reference \subseteq reference'
  <2>1. Advance(s) <=> To(s, q)
    BY <1>1, <1>2 DEF Advance
  <2>2. CASE Upsert(s)
    BY <1>1, <2>1, <2>2 DEF Upsert, Doing, Current
  <2>3. CASE UpsertGrant(s)
    BY <1>1, <2>1, <2>3 DEF UpsertGrant, Doing, Current
  <2> QED BY <2>2, <2>3
<1>4. q \in Run /\ q.phase = "statement" /\ q.at = b.at + 1
  BY <1>1, <1>2, NextStatement
<1>5. Left(b) /\ b.at \in 1 .. Len(Script) /\ Underway(s)
  <2>1. Left(b) /\ b.at \in Nat /\ Len(Script) \in Nat
    BY <1>1, <1>2, NextStatement DEF SeedingInv, ScriptInOrder
  <2>2. b.at # 0
    BY <1>3, <2>1 DEF Left
  <2> QED BY <1>1, <1>3, <2>1, <2>2 DEF Underway
<1>6. Script[b.at] \in reference'
  <2>1. CASE Upsert(s)
    BY <1>1, <2>1 DEF Upsert, Current
  <2>2. CASE UpsertGrant(s)
    <3>1. Script[b.at].kind = "grant"
      BY <1>1, <2>2 DEF UpsertGrant, Doing, Current
    <3>2. PICK m \in 1 .. b.at - 1 : Script[m] = Statement("feature", <<Script[b.at].key[2]>>)
      BY <1>5, <3>1 DEF ScriptInOrder
    <3>3. m \in 1 .. Len(Script) /\ m < b.at
      BY <1>5, <3>2 DEF ScriptInOrder
    <3>4. Written(m)
      BY <1>3, <1>5, <3>3 DEF Left
    <3>5. Script[m] \in reference
      BY <3>2, <3>4 DEF Written, Statement
    <3> QED BY <1>1, <2>2, <3>2, <3>5 DEF UpsertGrant, Current
  <2> QED BY <2>1, <2>2
<1>7. Adds /\ Written(b.at)'
  BY <1>3, <1>6 DEF Adds, Written
<1>8. ~overlap' => OneEach'
  BY <1>3, <1>4, <1>5, RolesApart
<1> QED BY <1>1, <1>3, <1>4, <1>7, <1>8, Advances DEF SeedingInv

LEMMA Finds ==
  ASSUME SeedingInv, ScriptInOrder, NEW s \in Seed, FindPrice(s) \/ FindRole(s)
  PROVE  SeedingInv'
<1>1. PICK b \in Run : b = seeds[s]
  BY DEF SeedingInv
<1>2. /\ b.phase = "statement" /\ b.at <= Len(Script) /\ Script[b.at].kind \in {"price", "role"}
      /\ UNCHANGED <<reference, prices, roles, overlap>>
  <2>1. CASE FindPrice(s)
    BY <1>1, <2>1 DEF FindPrice, Doing, Current, Kept
  <2>2. CASE FindRole(s)
    BY <1>1, <2>2 DEF FindRole, Doing, Current, tables
  <2> QED BY <2>1, <2>2
<1>3. /\ Left(b) /\ b.at \in 1 .. Len(Script) /\ Underway(s)
  BY <1>1, <1>2 DEF SeedingInv, Left, Run, ScriptInOrder, Underway
<1>4. Adds
  BY <1>2 DEF Adds
<1>5. ASSUME Enter(s, "create"),
             Script[b.at].kind = "role" => RowsOf(Script[b.at].key[1]) = {}
      PROVE  SeedingInv'
  <2>1. PICK q : q = [b EXCEPT !.phase = "create"]
    OBVIOUS
  <2>2. q \in Run /\ q.phase = "create" /\ q.at = b.at
    BY <1>1, <2>1 DEF Run
  <2>3. Left(q)
    BY <1>2, <1>3, <2>2 DEF Left
  <2>4. Left(q)' /\ To(s, q)
    BY <1>1, <1>4, <1>5, <2>1, <2>3, LeftStays DEF Enter
  <2> QED BY <1>1, <1>2, <1>3, <1>4, <1>5, <2>2, <2>4, Enters
<1>6. CASE FindPrice(s)
  <2>1. Script[b.at].kind = "price"
    BY <1>1, <1>6 DEF FindPrice, Doing, Current
  <2>2. PICK m, p, i : /\ m = Script[b.at].key[1] /\ p = Script[b.at].key[2]
                       /\ i = Script[b.at].key[3]
    OBVIOUS
  <2>3. {Statement("market", <<m>>), Statement("plan", <<p>>)} \subseteq reference
    <3>1. PICK j \in 1 .. b.at - 1 : Script[j] = Statement("market", <<m>>)
      BY <1>3, <2>1, <2>2 DEF ScriptInOrder
    <3>2. PICK k \in 1 .. b.at - 1 : Script[k] = Statement("plan", <<p>>)
      BY <1>3, <2>1, <2>2 DEF ScriptInOrder
    <3>3. Written(j) /\ Written(k)
      BY <1>2, <1>3, <3>1, <3>2 DEF Left, ScriptInOrder
    <3> QED BY <3>1, <3>2, <3>3 DEF Written, Statement
  <2>4. \/ Enter(s, "create")
        \/ Existing(m, p, i) # {} /\ Advance(s)
    BY <1>1, <1>6, <2>2, <2>3 DEF FindPrice, Current
  <2>5. CASE Enter(s, "create")
    BY <1>5, <2>1, <2>5
  <2>6. CASE Existing(m, p, i) # {} /\ Advance(s)
    <3>1. PICK q : q = [b EXCEPT !.phase = "statement", !.at = b.at + 1]
      OBVIOUS
    <3>2. q \in Run /\ q.phase = "statement" /\ q.at = b.at + 1 /\ To(s, q)
      BY <1>1, <2>6, <3>1, NextStatement DEF Advance
    <3>3. Written(b.at)
      BY <2>1, <2>2, <2>6 DEF Written, Existing, OnSale
    <3>4. Written(b.at)'
      BY <1>4, <3>3, WrittenStays
    <3>5. ~overlap' => OneEach'
      BY <1>2, <1>3, <3>2, RolesApart
    <3> QED BY <1>1, <1>2, <1>4, <3>2, <3>4, <3>5, Advances DEF SeedingInv
  <2> QED BY <2>4, <2>5, <2>6
<1>7. CASE FindRole(s)
  <2>1. PICK r : r = Script[b.at].key[1]
    OBVIOUS
  <2>2. /\ Script[b.at].kind = "role"
        /\ \/ RowsOf(r) = {} /\ Enter(s, "create")
           \/ \E n \in RowsOf(r) : To(s, [b EXCEPT !.phase = "update", !.row = n])
    BY <1>1, <1>7, <2>1 DEF FindRole, Doing, Current
  <2>3. CASE RowsOf(r) = {} /\ Enter(s, "create")
    BY <1>5, <2>1, <2>3
  <2>4. ASSUME NEW n \in RowsOf(r), To(s, [b EXCEPT !.phase = "update", !.row = n])
        PROVE  SeedingInv'
    <3>1. PICK q : q = [b EXCEPT !.phase = "update", !.row = n]
      OBVIOUS
    <3>2. n \in Nat
      BY <2>4, LenProperties DEF RowsOf, SeedingInv
    <3>3. q \in Run /\ q.phase = "update" /\ q.at = b.at /\ q.row = n
      BY <1>1, <3>1, <3>2 DEF Run
    <3>4. Left(q)
      BY <1>2, <1>3, <2>1, <2>2, <2>4, <3>3 DEF Left
    <3>5. Left(q)'
      BY <1>4, <3>4, LeftStays
    <3> QED BY <1>1, <1>2, <1>3, <1>4, <2>4, <3>1, <3>3, <3>5, Enters
  <2> QED BY <2>2, <2>3, <2>4
<1> QED BY <1>6, <1>7

LEMMA KeyOf ==
  ASSUME NEW n \in 1 .. Len(Script)
  PROVE  Script[n].key[1] \in Key /\ Script[n].key[2] \in Key /\ Script[n].key[3] \in Key
BY DEF Key

LEMMA PricesCreated ==
  ASSUME SeedingInv, ScriptInOrder, NEW s \in Seed, CreatePrice(s)
  PROVE  SeedingInv'
<1>1. PICK b \in Run : b = seeds[s]
  BY DEF SeedingInv
<1>2. PICK row : row = PriceRow(Script[b.at].key[1], Script[b.at].key[2], Script[b.at].key[3], b.release)
  OBVIOUS
<1>3. /\ b.phase = "create" /\ Script[b.at].kind = "price" /\ UNCHANGED <<reference, roles, demo, overlap>>
      /\ \/ prices' = Append(prices, row) /\ Advance(s)
         \/ UNCHANGED prices /\ Abort(s)
  BY <1>1, <1>2 DEF CreatePrice, Current
<1>4. Left(b) /\ b.at \in 1 .. Len(Script) /\ Underway(s) /\ b.release \in Version \cup {0}
  <2>1. Left(b) /\ b.at \in Nat /\ Len(Script) \in Nat /\ b.release \in Version \cup {0}
    BY <1>1 DEF Run, SeedingInv, ScriptInOrder
  <2>2. b.at # 0 /\ b.at <= Len(Script)
    BY <1>3, <2>1 DEF Left
  <2> QED BY <1>1, <1>3, <2>1, <2>2 DEF Underway
<1>5. CASE UNCHANGED prices /\ Abort(s)
  BY <1>3, <1>4, <1>5, Ceases DEF tables
<1>6. CASE prices' = Append(prices, row) /\ Advance(s)
  <2>1. row \in CatalogueRow
    BY <1>2, <1>4, KeyOf DEF PriceRow, CatalogueRow
  <2>2. /\ prices' \in Seq(CatalogueRow) /\ Len(prices) \in Nat /\ Len(prices') = Len(prices) + 1
        /\ DOMAIN prices = 1 .. Len(prices) /\ DOMAIN prices' = 1 .. Len(prices')
        /\ \A k \in 1 .. Len(prices) : prices'[k] = prices[k]
        /\ prices'[Len(prices) + 1] = row
    BY <1>6, <2>1, AppendProperties, LenProperties DEF SeedingInv
  <2>3. Adds
    BY <1>3, <2>2 DEF Adds
  <2>4. Written(b.at)'
    <3>1. Len(prices) + 1 \in DOMAIN prices'
      BY <2>2
    <3>2. /\ row.market = Script[b.at].key[1] /\ row.plan = Script[b.at].key[2]
          /\ row.interval = Script[b.at].key[3]
      BY <1>2 DEF PriceRow
    <3> QED BY <1>3, <2>2, <3>1, <3>2 DEF Written
  <2>5. PICK q : q = [b EXCEPT !.phase = "statement", !.at = b.at + 1]
    OBVIOUS
  <2>6. q \in Run /\ q.phase = "statement" /\ q.at = b.at + 1 /\ To(s, q)
    BY <1>1, <1>6, <2>5, NextStatement DEF Advance
  <2>7. ~overlap' => OneEach'
    BY <1>3, <1>4, <2>6, RolesApart
  <2> QED BY <1>1, <1>3, <1>4, <2>2, <2>3, <2>4, <2>6, <2>7, Advances DEF SeedingInv
<1> QED BY <1>3, <1>5, <1>6

LEMMA RolesWritten ==
  ASSUME SeedingInv, ScriptInOrder, NEW s \in Seed, WriteRole(s)
  PROVE  SeedingInv'
<1>1. PICK b \in Run : b = seeds[s]
  BY DEF SeedingInv
<1>2. PICK r, row : r = Script[b.at].key[1] /\ row = RoleRow(r, b.release)
  OBVIOUS
<1>3. PICK q : q = [b EXCEPT !.phase = "statement", !.at = b.at + 1, !.row = 0]
  OBVIOUS
<1>4. /\ \/ b.phase = "create" /\ Script[b.at].kind = "role" /\ roles' = Append(roles, row)
         \/ b.phase = "update" /\ roles' = [roles EXCEPT ![b.row] = row]
      /\ To(s, q) /\ UNCHANGED <<reference, prices, demo, overlap>>
  BY <1>1, <1>2, <1>3 DEF WriteRole, Current
<1>5. q \in Run /\ q.phase = "statement" /\ q.at = b.at + 1
  <2>1. PICK c : c = [b EXCEPT !.phase = "statement", !.at = b.at + 1]
    OBVIOUS
  <2>2. c \in Run /\ c.phase = "statement" /\ c.at = b.at + 1
    BY <1>1, <2>1, NextStatement
  <2>3. q = [c EXCEPT !.row = 0]
    BY <1>1, <1>3, <2>1 DEF Run
  <2> QED BY <2>2, <2>3 DEF Run
<1>6. /\ Left(b) /\ b.at \in 1 .. Len(Script) /\ Underway(s) /\ Script[b.at].kind = "role"
      /\ b.phase = "update" => b.row \in RowsOf(r)
  <2>1. Left(b) /\ b.at \in Nat /\ Len(Script) \in Nat
    BY <1>1 DEF Run, SeedingInv, ScriptInOrder
  <2>2. b.at # 0 /\ b.at <= Len(Script)
    BY <1>4, <2>1 DEF Left
  <2> QED BY <1>1, <1>2, <1>4, <2>1, <2>2 DEF Underway, Left
<1>7. row \in SystemRole /\ row.code = r
  <2>1. r \in Key /\ b.release \in Version \cup {0}
    BY <1>1, <1>2, <1>6, KeyOf DEF Run
  <2> QED BY <1>2, <2>1 DEF SystemRole, RoleRow
<1>8. Len(roles) \in Nat /\ DOMAIN roles = 1 .. Len(roles) /\ roles \in Seq(SystemRole)
  BY LenProperties DEF SeedingInv
<1>9. /\ roles' \in Seq(SystemRole)
      /\ \A k \in DOMAIN roles : k \in DOMAIN roles' /\ roles'[k].code = roles[k].code
      /\ \E k \in DOMAIN roles' : roles'[k].code = r
  <2>1. CASE b.phase = "create" /\ roles' = Append(roles, row)
    <3>1. /\ roles' \in Seq(SystemRole) /\ Len(roles') = Len(roles) + 1
          /\ \A k \in 1 .. Len(roles) : roles'[k] = roles[k]
          /\ roles'[Len(roles) + 1] = row /\ DOMAIN roles' = 1 .. Len(roles')
      BY <1>7, <1>8, <2>1, AppendProperties, LenProperties
    <3>2. Len(roles) + 1 \in DOMAIN roles'
      BY <1>8, <3>1
    <3> QED BY <1>7, <1>8, <2>1, <3>1, <3>2
  <2>2. CASE b.phase = "update" /\ roles' = [roles EXCEPT ![b.row] = row]
    <3>1. b.row \in 1 .. Len(roles) /\ roles[b.row].code = r
      BY <1>6, <1>8, <2>2 DEF RowsOf
    <3>2. /\ roles' \in Seq(SystemRole) /\ Len(roles') = Len(roles)
          /\ \A k \in 1 .. Len(roles) : roles'[k] = IF k = b.row THEN row ELSE roles[k]
          /\ DOMAIN roles' = 1 .. Len(roles')
      BY <1>7, <1>8, <2>2, <3>1, ExceptSeq, LenProperties
    <3> QED BY <1>7, <1>8, <2>2, <3>1, <3>2
  <2> QED BY <1>4, <2>1, <2>2
<1>10. Adds /\ Written(b.at)'
  <2>1. Adds
    BY <1>4, <1>9 DEF Adds
  <2> QED BY <1>2, <1>6, <1>9, <2>1 DEF Written, RowsOf
<1>11. ASSUME ~overlap' PROVE OneEach'
  <2>1. OneEach
    BY <1>4, <1>11 DEF SeedingInv
  <2>2. seeds'[s] = q /\ \A t \in Seed \ {s} : seeds'[t] = seeds[t]
    BY <1>4 DEF SeedingInv, To
  <2>3. \A t \in Seed \ {s} : ~Underway(t) /\ ~Underway(t)'
    BY <1>6, <2>1, <2>2 DEF OneEach, Underway
  <2>4. \A t \in Seed : seeds'[t].phase # "create"
    BY <1>5, <2>2, <2>3 DEF Underway
  <2>5. \A m, n \in DOMAIN roles' : roles'[m].code = roles'[n].code => m = n
    <3>1. CASE b.phase = "create" /\ roles' = Append(roles, row)
      <4>1. \A k \in DOMAIN roles : roles[k].code # r
        BY <1>1, <1>2, <1>6, <2>1, <3>1 DEF OneEach, Current, RowsOf
      <4>2. /\ Len(roles') = Len(roles) + 1 /\ DOMAIN roles' = 1 .. Len(roles')
            /\ \A k \in 1 .. Len(roles) : roles'[k] = roles[k]
            /\ roles'[Len(roles) + 1] = row
        BY <1>7, <1>8, <1>9, <3>1, AppendProperties, LenProperties
      <4> QED BY <1>7, <1>8, <2>1, <4>1, <4>2 DEF OneEach
    <3>2. CASE b.phase = "update" /\ roles' = [roles EXCEPT ![b.row] = row]
      <4>1. DOMAIN roles' = DOMAIN roles /\ \A k \in DOMAIN roles : roles'[k].code = roles[k].code
        BY <1>9, <3>2
      <4> QED BY <2>1, <4>1 DEF OneEach
    <3> QED BY <1>4, <3>1, <3>2
  <2>6. \A t, u \in Seed : Underway(t)' /\ Underway(u)' => t = u
    BY <2>3
  <2> QED BY <2>4, <2>5, <2>6 DEF OneEach
<1>12. b.phase \in {"statement", "create", "update"} /\ b.at <= Len(Script)
  BY <1>4, <1>6
<1> QED BY <1>1, <1>4, <1>5, <1>9, <1>10, <1>11, <1>12, Advances DEF SeedingInv

LEMMA DemoSteps ==
  ASSUME SeedingInv, ScriptInOrder, NEW s \in Seed, FindDemo(s) \/ CreateDemo(s) \/ WriteDemo(s)
  PROVE  SeedingInv'
<1>1. PICK b \in Run : b = seeds[s]
  BY DEF SeedingInv
<1>2. /\ UNCHANGED <<reference, prices, roles, overlap>> /\ Underway(s) /\ Left(b)
      /\ \/ Abort(s)
         \/ \E phase \in {"organization", "demo", "complete"} : Enter(s, phase)
      /\ \/ b.phase = "statement" /\ b.at > Len(Script)
         \/ b.phase \in {"organization", "demo"}
  BY <1>1 DEF SeedingInv, FindDemo, Finished, CreateDemo, WriteDemo, Underway, tables
<1>3. \A n \in 1 .. Len(Script) : Written(n)
  <2>1. CASE b.phase = "statement" /\ b.at > Len(Script)
    <3>1. b.at \in Nat /\ Len(Script) \in Nat
      BY <1>1 DEF Run, ScriptInOrder
    <3>2. \A n \in 1 .. Len(Script) : n < b.at
      BY <2>1, <3>1
    <3> QED BY <1>2, <2>1, <3>2 DEF Left
  <2>2. CASE b.phase \in {"organization", "demo"}
    BY <1>2, <2>2 DEF Left
  <2> QED BY <1>2, <2>1, <2>2
<1>4. Adds
  BY <1>2 DEF Adds
<1>5. ASSUME NEW phase \in {"organization", "demo", "complete", "failed"}, Enter(s, phase)
      PROVE  SeedingInv'
  <2>1. PICK q : q = [b EXCEPT !.phase = phase]
    OBVIOUS
  <2>2. q \in Run /\ q.phase = phase
    BY <1>1, <2>1 DEF Run
  <2>3. Left(q)
    BY <1>3, <2>2 DEF Left
  <2>4. Left(q)' /\ To(s, q)
    BY <1>1, <1>4, <1>5, <2>1, <2>3, LeftStays DEF Enter
  <2> QED BY <1>1, <1>2, <1>4, <2>2, <2>4, Enters
<1> QED BY <1>2, <1>5 DEF Abort

(* What a price row says once it is written, its status apart, is final; and so is all of it
   once it has left the sale.                                                       *)
SaysTheSame(old, new) ==
  /\ new.market = old.market /\ new.plan = old.plan /\ new.interval = old.interval
  /\ new.amount = old.amount
  /\ old.status # "ACTIVE" => new = old

PricesKept ==
  /\ prices' \in Seq(CatalogueRow) /\ Len(prices') \in Nat /\ Len(prices') >= Len(prices)
  /\ \A k \in 1 .. Len(prices) : SaysTheSame(prices[k], prices'[k])

LEMMA OperatorKeeps ==
  ASSUME prices \in Seq(CatalogueRow), NEW n \in DOMAIN prices, Reprice(n) \/ Withdraw(n)
  PROVE  PricesKept
<1>1. /\ n \in 1 .. Len(prices) /\ Len(prices) \in Nat /\ prices[n] \in CatalogueRow
      /\ prices[n].status = "ACTIVE"
  BY LenProperties, ElementOfSeq DEF Reprice, Withdraw
<1>2. ASSUME NEW status \in {"GRANDFATHERED", "RETIRED"}, NEW old,
             old = [prices EXCEPT ![n].status = status]
      PROVE  /\ old \in Seq(CatalogueRow) /\ Len(old) = Len(prices)
             /\ \A k \in 1 .. Len(prices) : SaysTheSame(prices[k], old[k])
  <2>1. PICK row : row = [prices[n] EXCEPT !.status = status]
    OBVIOUS
  <2>2. row \in CatalogueRow /\ SaysTheSame(prices[n], row)
    BY <1>1, <2>1 DEF CatalogueRow, SaysTheSame
  <2>3. old = [prices EXCEPT ![n] = row]
    BY <1>2, <2>1
  <2>4. /\ old \in Seq(CatalogueRow) /\ Len(old) = Len(prices)
        /\ \A k \in 1 .. Len(prices) : old[k] = IF k = n THEN row ELSE prices[k]
    BY <1>1, <2>2, <2>3, ExceptSeq
  <2>5. \A k \in 1 .. Len(prices) : SaysTheSame(prices[k], prices[k])
    BY DEF SaysTheSame
  <2> QED BY <2>2, <2>4, <2>5
<1>3. CASE Withdraw(n)
  BY <1>1, <1>2, <1>3 DEF Withdraw, PricesKept
<1>4. CASE Reprice(n)
  <2>1. PICK old : old = [prices EXCEPT ![n].status = "GRANDFATHERED"]
    OBVIOUS
  <2>2. PICK new : new = [prices[n] EXCEPT !.amount = NewAmount]
    OBVIOUS
  <2>3. new \in CatalogueRow
    BY <1>1, <2>2 DEF CatalogueRow, NewAmount
  <2>4. prices' = Append(old, new)
    BY <1>4, <2>1, <2>2 DEF Reprice
  <2>5. /\ old \in Seq(CatalogueRow) /\ Len(old) = Len(prices)
        /\ \A k \in 1 .. Len(prices) : SaysTheSame(prices[k], old[k])
    BY <1>2, <2>1
  <2>6. /\ prices' \in Seq(CatalogueRow) /\ Len(prices') = Len(prices) + 1
        /\ \A k \in 1 .. Len(prices) : prices'[k] = old[k]
    BY <2>3, <2>4, <2>5, AppendProperties
  <2> QED BY <1>1, <2>5, <2>6 DEF PricesKept
<1> QED BY <1>3, <1>4

LEMMA CreateKeeps ==
  ASSUME SeedingInv, ScriptInOrder, NEW s \in Seed, CreatePrice(s)
  PROVE  PricesKept
<1>1. PICK b \in Run : b = seeds[s]
  BY DEF SeedingInv
<1>2. PICK row : row = PriceRow(Script[b.at].key[1], Script[b.at].key[2], Script[b.at].key[3], b.release)
  OBVIOUS
<1>3. b.phase = "create" /\ (prices' = Append(prices, row) \/ UNCHANGED prices)
  BY <1>1, <1>2 DEF CreatePrice, Current
<1>4. b.at \in 1 .. Len(Script) /\ b.release \in Version \cup {0}
  <2>1. Left(b) /\ b.at \in Nat /\ Len(Script) \in Nat /\ b.release \in Version \cup {0}
    BY <1>1 DEF Run, SeedingInv, ScriptInOrder
  <2>2. b.at # 0 /\ b.at <= Len(Script)
    BY <1>3, <2>1 DEF Left
  <2> QED BY <2>1, <2>2
<1>5. row \in CatalogueRow
  BY <1>2, <1>4, KeyOf DEF PriceRow, CatalogueRow
<1>6. Len(prices) \in Nat /\ prices \in Seq(CatalogueRow)
  BY LenProperties DEF SeedingInv
<1>7. CASE UNCHANGED prices
  BY <1>6, <1>7 DEF PricesKept, SaysTheSame
<1>8. CASE prices' = Append(prices, row)
  BY <1>5, <1>6, <1>8, AppendProperties DEF PricesKept, SaysTheSame
<1> QED BY <1>3, <1>7, <1>8

LEMMA SameOnSale ==
  ASSUME NEW old \in CatalogueRow, NEW new \in CatalogueRow, SaysTheSame(old, new)
  PROVE  [new EXCEPT !.status = "ACTIVE"] = [old EXCEPT !.status = "ACTIVE"]
BY DEF CatalogueRow, SaysTheSame

LEMMA OperatorsSeeding ==
  ASSUME SeedingInv, NEW n \in DOMAIN prices, Reprice(n) \/ Withdraw(n)
  PROVE  SeedingInv'
<1>1. UNCHANGED <<reference, roles, seeds, overlap>>
  BY DEF Reprice, Withdraw
<1>2. PricesKept
  BY OperatorKeeps DEF SeedingInv
<1>3. Adds
  <2>1. /\ DOMAIN prices = 1 .. Len(prices) /\ Len(prices) \in Nat
        /\ DOMAIN prices' = 1 .. Len(prices') /\ Len(prices') \in Nat
    BY <1>2, LenProperties DEF SeedingInv, PricesKept
  <2> QED BY <1>1, <1>2, <2>1 DEF Adds, PricesKept, SaysTheSame
<1>4. ASSUME NEW s \in Seed PROVE Left(seeds[s])'
  <2>1. PICK x : x = seeds[s]
    OBVIOUS
  <2>2. Left(x)'
    BY <1>3, <2>1, LeftStays DEF SeedingInv
  <2> QED BY <1>1, <2>1, <2>2
<1>5. ~overlap' => OneEach'
  BY <1>1 DEF SeedingInv, OneEach, Underway, Current, RowsOf
<1> QED BY <1>1, <1>2, <1>4, <1>5 DEF SeedingInv, PricesKept

LEMMA SeedingInit == ScriptInOrder /\ CatalogueInit => SeedingInv
<1> SUFFICES ASSUME ScriptInOrder, CatalogueInit PROVE SeedingInv
  OBVIOUS
<1>1. NotRun \in Run /\ Left(NotRun) /\ NotRun.phase = "idle"
  BY DEF NotRun, Run, Left
<1>2. /\ prices = <<>> /\ roles = <<>> /\ seeds = [s \in Seed |-> NotRun] /\ overlap = FALSE
  BY DEF CatalogueInit
<1>3. prices \in Seq(CatalogueRow) /\ roles \in Seq(SystemRole) /\ DOMAIN roles = {}
  BY <1>2, EmptySeq
<1>4. OneEach
  BY <1>1, <1>2, <1>3 DEF OneEach, Underway
<1> QED BY <1>1, <1>2, <1>3, <1>4 DEF SeedingInv

LEMMA SeedingStep ==
  ASSUME ScriptInOrder, SeedingInv, [CatalogueNext]_catalogueVars
  PROVE  SeedingInv'
<1>1. CASE UNCHANGED catalogueVars
  <2>1. UNCHANGED <<reference, prices, roles, seeds, overlap>>
    BY <1>1 DEF catalogueVars, tables
  <2> QED BY <2>1 DEF SeedingInv, Left, Written, OneEach, Underway, Current, RowsOf
<1>2. ASSUME NEW s \in Seed, SeedStep(s) PROVE SeedingInv'
  <2>1. CASE Die(s)
    BY <2>1, Ceases DEF Die
  <2> QED BY <1>2, <2>1, Begins, Upserts, Finds, PricesCreated, RolesWritten, DemoSteps DEF SeedStep
<1> QED BY <1>1, <1>2, OperatorsSeeding DEF CatalogueNext

(* Whatever died half-way or ran beside it: a run that ended left all of the script behind   *)
(* it, and one row a role unless two runs overlapped.                                  *)
THEOREM SeedsWhole == CatalogueSpec => []ReferenceWhole
<1>1. SeedingInv => ReferenceWhole
  <2> SUFFICES ASSUME SeedingInv, NEW s \in Seed, seeds[s].phase = "complete",
                      NEW n \in 1 .. Len(Script)
               PROVE  LET key == Script[n].key IN
                      CASE Script[n].kind = "price" ->
                             \E k \in DOMAIN prices : /\ prices[k].market = key[1] /\ prices[k].plan = key[2]
                                                      /\ prices[k].interval = key[3]
                        [] Script[n].kind = "role" ->
                             /\ RowsOf(key[1]) # {}
                             /\ ~overlap => Cardinality(RowsOf(key[1])) = 1
                        [] OTHER -> Script[n] \in reference
    BY DEF ReferenceWhole, Ended
  <2>1. Written(n)
    BY DEF SeedingInv, Left
  <2>2. ASSUME NEW r, RowsOf(r) # {}, ~overlap PROVE Cardinality(RowsOf(r)) = 1
    <3>1. PICK m \in RowsOf(r) : TRUE
      BY <2>2
    <3>2. RowsOf(r) = {m}
      BY <2>2, <3>1 DEF SeedingInv, OneEach, RowsOf
    <3> QED BY <3>2, FS_Singleton
  <2>3. CASE Script[n].kind = "price"
    BY <2>1, <2>3 DEF Written
  <2>4. CASE Script[n].kind = "role"
    BY <2>1, <2>2, <2>4 DEF Written
  <2>5. CASE Script[n].kind \notin {"price", "role"}
    BY <2>1, <2>5 DEF Written
  <2> QED BY <2>3, <2>4, <2>5
<1>2. SeedingInv /\ [CatalogueNext]_catalogueVars => SeedingInv'
  BY SeedingStep, ScriptIsInOrder
<1>3. CatalogueInit => SeedingInv
  BY SeedingInit, ScriptIsInOrder
<1> QED BY <1>1, <1>2, <1>3, PTL DEF CatalogueSpec

(* No release's seed and no operator touches what a price row was sold at.               *)
THEOREM PricesAreFinal == CatalogueSpec => SoldPriceKept
<1>1. SeedingInv /\ [CatalogueNext]_catalogueVars =>
        [\A n \in DOMAIN prices :
           /\ n \in DOMAIN prices'
           /\ [prices'[n] EXCEPT !.status = "ACTIVE"] = [prices[n] EXCEPT !.status = "ACTIVE"]
           /\ prices[n].status # "ACTIVE" => prices'[n] = prices[n]]_prices
  <2> SUFFICES ASSUME SeedingInv, CatalogueNext, prices' # prices, NEW n \in DOMAIN prices
               PROVE  /\ n \in DOMAIN prices'
                      /\ [prices'[n] EXCEPT !.status = "ACTIVE"] = [prices[n] EXCEPT !.status = "ACTIVE"]
                      /\ prices[n].status # "ACTIVE" => prices'[n] = prices[n]
    BY DEF catalogueVars, tables
  <2>1. PricesKept
    <3>1. CASE \E s \in Seed : CreatePrice(s)
      BY <3>1, CreateKeeps, ScriptIsInOrder
    <3>2. CASE \E k \in DOMAIN prices : Reprice(k) \/ Withdraw(k)
      BY <3>2, OperatorKeeps DEF SeedingInv
    <3>3. CASE \E s \in Seed : SeedStep(s) /\ ~CreatePrice(s)
      BY <3>3 DEF SeedStep, BeginSeed, Upsert, UpsertGrant, FindPrice, Kept, FindRole, WriteRole,
                  FindDemo, CreateDemo, WriteDemo, Die, tables
    <3> QED BY <3>1, <3>2, <3>3 DEF CatalogueNext
  <2>2. /\ n \in 1 .. Len(prices) /\ Len(prices) \in Nat /\ prices[n] \in CatalogueRow
        /\ DOMAIN prices' = 1 .. Len(prices') /\ Len(prices') \in Nat
    BY <2>1, LenProperties, ElementOfSeq DEF SeedingInv, PricesKept
  <2>3. n \in DOMAIN prices' /\ prices'[n] \in CatalogueRow /\ SaysTheSame(prices[n], prices'[n])
    BY <2>1, <2>2, ElementOfSeq DEF PricesKept
  <2>4. [prices'[n] EXCEPT !.status = "ACTIVE"] = [prices[n] EXCEPT !.status = "ACTIVE"]
    BY <2>2, <2>3, SameOnSale
  <2> QED BY <2>3, <2>4 DEF SaysTheSame
<1>2. SeedingInv /\ [CatalogueNext]_catalogueVars => SeedingInv'
  BY SeedingStep, ScriptIsInOrder
<1>3. CatalogueInit => SeedingInv
  BY SeedingInit, ScriptIsInOrder
<1> QED BY <1>1, <1>2, <1>3, PTL DEF CatalogueSpec, SoldPriceKept
---------------------------------------------------------------------------
LEMMA Constants ==
  /\ MaxTime \in Nat /\ MaxAccuracy \in Nat /\ MaxSpeed \in Nat /\ MinSegment \in Nat
  /\ MaxGap \in Nat /\ StopRadius \in Nat /\ MinStop \in Nat /\ FenceRadius \in Nat
  /\ Hysteresis \in Nat /\ Debounce \in Nat /\ MinSustained \in Nat /\ Cooldown \in Nat
  /\ Debounce > 0 /\ MinSegment <= MaxSpeed
BY RouteAssumption

(* A sweep over the instants: it exists, and what holds before and survives each     *)
(* instant holds after all.                                                     *)
Sweeps(g, base, step, n) == g[-1] = base /\ \A t \in 0 .. n : g[t] = step[<<t, g[t - 1]>>]

LEMMA Swept ==
  ASSUME NEW A, NEW base \in A, NEW n \in Nat, NEW step \in [(0 .. n) \X A -> A]
  PROVE  \E g \in [-1 .. n -> A] : Sweeps(g, base, step, n)
<1>1. PICK next : next = [p \in (1 .. n + 1) \X A |-> step[<<p[1] - 1, p[2]>>]]
  OBVIOUS
<1>2. ASSUME NEW p \in (1 .. n + 1) \X A PROVE step[<<p[1] - 1, p[2]>>] \in A
  <2>1. <<p[1] - 1, p[2]>> \in (0 .. n) \X A
    OBVIOUS
  <2> QED BY <2>1
<1>3. next \in [(1 .. n + 1) \X A -> A]
  BY <1>1, <1>2
<1>4. PICK f \in [0 .. n + 1 -> A] : Iterates(f, base, next, n + 1)
  <2>1. PICK m \in Nat : m = n + 1
    OBVIOUS
  <2>2. \E f \in [0 .. m -> A] : Iterates(f, base, next, m)
    BY <1>3, <2>1, Recursion
  <2> QED BY <2>1, <2>2
<1>5. PICK g : g = [t \in -1 .. n |-> f[t + 1]]
  OBVIOUS
<1>6. g \in [-1 .. n -> A] /\ g[-1] = base
  BY <1>4, <1>5 DEF Iterates
<1>7. ASSUME NEW t \in 0 .. n PROVE g[t] = step[<<t, g[t - 1]>>]
  <2>1. t + 1 \in 1 .. n + 1 /\ (t + 1) - 1 = t /\ (t - 1) + 1 = t /\ t - 1 \in -1 .. n
    OBVIOUS
  <2>2. f[t + 1] = next[<<t + 1, f[t]>>]
    BY <1>4, <2>1 DEF Iterates
  <2>3. f[t] \in A
    BY <1>4
  <2>4. <<t + 1, f[t]>> \in (1 .. n + 1) \X A
    BY <2>1, <2>3
  <2>5. next[<<t + 1, f[t]>>] = step[<<t, f[t]>>]
    BY <1>1, <2>1, <2>4
  <2> QED BY <1>5, <2>1, <2>2, <2>5
<1> QED BY <1>6, <1>7 DEF Sweeps

LEMMA Sweeping ==
  ASSUME NEW n \in Nat, NEW S, -1 \in S, \A t \in 0 .. n : t - 1 \in S => t \in S
  PROVE  n \in S
<1>1. PICK U : U = {m \in Nat : m <= n + 1 => m - 1 \in S}
  OBVIOUS
<1>2. 0 \in U
  BY <1>1
<1>3. ASSUME NEW m \in Nat, m \in U PROVE m + 1 \in U
  <2> SUFFICES ASSUME m + 1 <= n + 1 PROVE (m + 1) - 1 \in S
    BY <1>1
  <2>1. m - 1 \in S /\ m \in 0 .. n
    BY <1>1, <1>3
  <2> QED BY <2>1
<1>4. n + 1 \in U
  BY <1>2, <1>3, Induction
<1>5. (n + 1) - 1 \in S
  BY <1>1, <1>4
<1> QED BY <1>5

Fix == [pos: Int, speed: Nat \cup {Null}, accuracy: Nat]
IsTrack(points) == DOMAIN points \subseteq Time /\ points \in [DOMAIN points -> Fix]
Maybe == Time \cup {Null}
---------------------------------------------------------------------------
Alert == [from: Time, to: Time]
Watcher == [from: Maybe, to: Maybe, previous: Maybe, ended: Maybe, alerts: SUBSET Alert]

Apart(alerts) ==
  \A a, b \in alerts : a.from < b.from => b.from - a.to >= Cooldown
Watched(points, w, t) ==
  /\ w.from # Null => Speeding(points, w.from) /\ w.to # Null /\ w.from <= w.to /\ w.to <= t
  /\ w.previous # Null => w.previous \in DOMAIN points /\ w.previous <= t
  /\ \A a \in w.alerts :
       /\ Speeding(points, a.from) /\ a.to - a.from >= MinSustained
       /\ w.ended # Null /\ a.to <= w.ended
  /\ Apart(w.alerts)

LEMMA FlushKeeps ==
  ASSUME NEW points, NEW t \in Int, NEW w \in Watcher, Watched(points, w, t)
  PROVE  Flush(w) \in Watcher /\ Watched(points, Flush(w), t) /\ Flush(w).from = Null
<1>1. w = [from |-> w.from, to |-> w.to, previous |-> w.previous, ended |-> w.ended,
           alerts |-> w.alerts]
  BY DEF Watcher
<1>2. w.from \in Maybe /\ w.to \in Maybe /\ w.previous \in Maybe /\ w.ended \in Maybe
      /\ w.alerts \in SUBSET Alert
  BY DEF Watcher
<1>3. CASE /\ w.from # Null /\ w.to - w.from >= MinSustained
           /\ w.ended = Null \/ w.from - w.ended >= Cooldown
  <2>1. PICK new : new = [from |-> w.from, to |-> w.to]
    OBVIOUS
  <2>2. new \in Alert /\ new.from = w.from /\ new.to = w.to
    BY <1>2, <1>3, <2>1 DEF Watched, Alert, Maybe
  <2>3. PICK more : more = w.alerts \cup {new}
    OBVIOUS
  <2>4. PICK v : v = [from |-> Null, to |-> Null, previous |-> w.previous, ended |-> w.to,
                      alerts |-> more]
    OBVIOUS
  <2>5. Flush(w) = v
    <3>1. [w EXCEPT !.alerts = @ \cup {[from |-> w.from, to |-> w.to]},
                    !.ended = w.to, !.from = Null, !.to = Null] = v
      <4>1. PICK u : u = [w EXCEPT !.alerts = @ \cup {[from |-> w.from, to |-> w.to]}]
        OBVIOUS
      <4>2. u = [from |-> w.from, to |-> w.to, previous |-> w.previous, ended |-> w.ended,
                 alerts |-> more]
        BY <1>1, <2>1, <2>3, <4>1
      <4>3. PICK x : x = [u EXCEPT !.ended = w.to]
        OBVIOUS
      <4>4. x = [from |-> w.from, to |-> w.to, previous |-> w.previous, ended |-> w.to,
                 alerts |-> more]
        BY <4>2, <4>3
      <4>5. PICK y : y = [x EXCEPT !.from = Null]
        OBVIOUS
      <4>6. y = [from |-> Null, to |-> w.to, previous |-> w.previous, ended |-> w.to,
                 alerts |-> more]
        BY <4>4, <4>5
      <4>7. [y EXCEPT !.to = Null] = v
        BY <2>4, <4>6
      <4> QED BY <4>1, <4>3, <4>5, <4>7, Zenon
    <3> QED BY <1>3, <3>1 DEF Flush
  <2>6. more \in SUBSET Alert
    BY <1>2, <2>2, <2>3
  <2>7. v \in Watcher
    BY <1>2, <2>4, <2>6 DEF Watcher, Maybe
  <2>8. \A a \in w.alerts : a.to \in Int /\ a.from \in Int /\ a.to - a.from >= 0
    BY <1>2, Constants DEF Watched, Alert, Time
  <2>9. w.from \in Int /\ w.to \in Int /\ w.ended \in Int
    BY <1>2, Constants DEF Maybe, Time, Null
  <2>10. ASSUME NEW a \in more
         PROVE  /\ Speeding(points, a.from) /\ a.to - a.from >= MinSustained
                /\ a.to <= w.to
    <3>1. CASE a = new
      BY <1>3, <2>2, <2>9, <3>1 DEF Watched
    <3>2. CASE a \in w.alerts
      <4>1. a.to <= w.ended /\ w.ended # Null /\ Speeding(points, a.from)
            /\ a.to - a.from >= MinSustained
        BY <3>2 DEF Watched
      <4>2. w.from <= w.to /\ w.from - w.ended >= Cooldown
        BY <1>3, <4>1 DEF Watched
      <4> QED BY <2>8, <2>9, <3>2, <4>1, <4>2, Constants
    <3> QED BY <2>3, <2>10, <3>1, <3>2
  <2>11. ASSUME NEW a \in more, NEW b \in more, a.from < b.from
         PROVE  b.from - a.to >= Cooldown
    <3>1. CASE a \in w.alerts /\ b \in w.alerts
      BY <2>11, <3>1 DEF Watched, Apart
    <3>2. CASE a \in w.alerts /\ b = new
      <4>1. a.to <= w.ended /\ w.ended # Null
        BY <3>2 DEF Watched
      <4> QED BY <1>3, <2>2, <2>8, <2>9, <3>2, <4>1, Constants
    <3>3. CASE a = new /\ b \in w.alerts
      <4>1. b.to <= w.ended /\ w.ended # Null
        BY <3>3 DEF Watched
      <4> QED BY <1>3, <2>2, <2>8, <2>9, <2>11, <3>3, <4>1, Constants
    <3>4. CASE a = new /\ b = new
      BY <2>2, <2>9, <2>11, <3>4
    <3> QED BY <2>3, <3>1, <3>2, <3>3, <3>4
  <2>12. Watched(points, v, t)
    <3>1. w.to # Null
      BY <1>3 DEF Watched
    <3> QED BY <2>4, <2>10, <2>11, <3>1 DEF Watched, Apart
  <2> QED BY <2>4, <2>5, <2>7, <2>12
<1>4. CASE ~(/\ w.from # Null /\ w.to - w.from >= MinSustained
             /\ w.ended = Null \/ w.from - w.ended >= Cooldown)
  <2>1. PICK v : v = [from |-> Null, to |-> Null, previous |-> w.previous, ended |-> w.ended,
                      alerts |-> w.alerts]
    OBVIOUS
  <2>2. Flush(w) = v
    <3>1. [w EXCEPT !.from = Null, !.to = Null] = v
      <4>1. PICK u : u = [w EXCEPT !.from = Null]
        OBVIOUS
      <4>2. u = [from |-> Null, to |-> w.to, previous |-> w.previous, ended |-> w.ended,
                 alerts |-> w.alerts]
        BY <1>1, <4>1
      <4>3. [u EXCEPT !.to = Null] = v
        BY <2>1, <4>2
      <4> QED BY <4>1, <4>3, Zenon
    <3> QED BY <1>4, <3>1 DEF Flush
  <2>3. v \in Watcher
    BY <1>2, <2>1 DEF Watcher, Maybe
  <2>4. Watched(points, v, t)
    BY <2>1 DEF Watched
  <2> QED BY <2>1, <2>2, <2>3, <2>4
<1> QED BY <1>3, <1>4

LEMMA WatchKeeps ==
  ASSUME NEW points, IsTrack(points), NEW t \in Time, NEW w \in Watcher,
         Watched(points, w, t - 1)
  PROVE  Watch(points, w, t) \in Watcher /\ Watched(points, Watch(points, w, t), t)
<1>1. w = [from |-> w.from, to |-> w.to, previous |-> w.previous, ended |-> w.ended,
           alerts |-> w.alerts]
  BY DEF Watcher
<1>2. w.from \in Maybe /\ w.to \in Maybe /\ w.previous \in Maybe /\ w.ended \in Maybe
      /\ w.alerts \in SUBSET Alert
  BY DEF Watcher
<1>3. t \in Int /\ w.to \in Int /\ w.from \in Int /\ w.previous \in Int
  BY <1>2, Constants DEF Time, Maybe, Null
<1>4. Watched(points, w, t)
  <2>1. (w.from # Null => w.to <= t) /\ (w.previous # Null => w.previous <= t)
    BY <1>3 DEF Watched
  <2> QED BY <2>1 DEF Watched
<1>5. PICK seen : seen = [from |-> w.from, to |-> w.to, previous |-> t, ended |-> w.ended,
                          alerts |-> w.alerts]
  OBVIOUS
<1>6. [w EXCEPT !.previous = t] = seen
  BY <1>1, <1>5
<1>7. seen \in Watcher
  BY <1>2, <1>5 DEF Watcher, Maybe
<1>8. t \in DOMAIN points => Watched(points, seen, t)
  BY <1>3, <1>4, <1>5 DEF Watched
<1>9. CASE t \in DOMAIN points
  <2>1. PICK v : v = [seen EXCEPT !.from = IF w.from = Null THEN t ELSE @, !.to = t]
    OBVIOUS
  <2>2. v = [from |-> IF w.from = Null THEN t ELSE w.from, to |-> t, previous |-> t,
             ended |-> w.ended, alerts |-> w.alerts]
    BY <1>5, <2>1
  <2>3. v \in Watcher
    BY <1>2, <2>2 DEF Watcher, Maybe
  <2>4. t # Null
    BY Constants DEF Time, Null
  <2>5. ASSUME Speeding(points, t) PROVE Watched(points, v, t)
    <3>1. Speeding(points, v.from) /\ v.to # Null /\ v.from <= v.to /\ v.to <= t
      BY <1>3, <1>4, <2>2, <2>4, <2>5 DEF Watched
    <3> QED BY <1>3, <1>4, <1>9, <2>2, <3>1 DEF Watched
  <2>6. \/ Watch(points, w, t) \in {w, seen, Flush(seen)}
        \/ /\ Watch(points, w, t) = v /\ points[t].accuracy <= SpeedAccuracy
           /\ KnowsSpeed(points, t, w.previous) /\ Exceeds(points, t, w.previous)
    <3>1. CASE t \notin DOMAIN points \/ points[t].accuracy > SpeedAccuracy
      BY <3>1 DEF Watch
    <3>2. CASE t \in DOMAIN points /\ ~(points[t].accuracy > SpeedAccuracy)
      <4>1. points[t].accuracy <= SpeedAccuracy
        BY <1>9, <3>2, RouteAssumption DEF IsTrack, Fix
      <4> QED BY <1>6, <2>1, <3>2, <4>1 DEF Watch
    <3> QED BY <1>9, <3>1, <3>2
  <2>7. ASSUME points[t].accuracy <= SpeedAccuracy,
               KnowsSpeed(points, t, w.previous), Exceeds(points, t, w.previous)
        PROVE  Speeding(points, t)
    <3>1. w.previous # Null => w.previous \in DOMAIN points /\ w.previous <= t - 1
      BY DEF Watched
    <3>2. w.previous \in {Null} \cup {x \in DOMAIN points : x < t}
      BY <1>3, <3>1
    <3> QED BY <1>9, <2>7, <3>2 DEF Speeding
  <2>8. Flush(seen) \in Watcher /\ Watched(points, Flush(seen), t)
    BY <1>3, <1>7, <1>8, <1>9, FlushKeeps
  <2> QED BY <1>4, <1>7, <1>8, <1>9, <2>3, <2>5, <2>6, <2>7, <2>8
<1>10. CASE t \notin DOMAIN points
  BY <1>4, <1>10 DEF Watch
<1> QED BY <1>9, <1>10

(* What detectSpeedAlerts reports of any track.                                  *)
LEMMA AlertsOf ==
  ASSUME NEW points, IsTrack(points)
  PROVE  /\ \A a \in DetectAlerts(points) :
              a \in Alert /\ Speeding(points, a.from) /\ a.to - a.from >= MinSustained
         /\ Apart(DetectAlerts(points))
<1>1. Unalerted \in Watcher /\ Watched(points, Unalerted, -1)
  BY DEF Unalerted, Watcher, Watched, Maybe, Apart
<1>3. Time = 0 .. MaxTime /\ MaxTime \in Nat
  BY Constants DEF Time
<1>4. PICK step : step = [p \in (0 .. MaxTime) \X Watcher |->
                            IF Watched(points, p[2], p[1] - 1) THEN Watch(points, p[2], p[1])
                            ELSE Unalerted]
  OBVIOUS
<1>5. ASSUME NEW p \in (0 .. MaxTime) \X Watcher
      PROVE  (IF Watched(points, p[2], p[1] - 1) THEN Watch(points, p[2], p[1])
              ELSE Unalerted) \in Watcher
  <2>1. p[1] \in Time /\ p[2] \in Watcher
    BY <1>3
  <2> QED BY <1>1, <2>1, WatchKeeps
<1>6. step \in [(0 .. MaxTime) \X Watcher -> Watcher]
  BY <1>4, <1>5
<1>7. PICK g \in [-1 .. MaxTime -> Watcher] :
        g[-1] = Unalerted /\ \A t \in 0 .. MaxTime : g[t] = step[<<t, g[t - 1]>>]
  <2>1. PICK base \in Watcher : base = Unalerted
    BY <1>1
  <2>2. PICK n \in Nat : n = MaxTime
    BY <1>3
  <2>3. PICK A : A = Watcher
    OBVIOUS
  <2>4. base \in A /\ step \in [(0 .. n) \X A -> A]
    BY <1>6, <2>1, <2>2, <2>3
  <2>5. \E g \in [-1 .. n -> A] : Sweeps(g, base, step, n)
    BY <2>2, <2>4, Swept
  <2> QED BY <2>1, <2>2, <2>3, <2>5 DEF Sweeps
<1>8. PICK S : S = {t \in -1 .. MaxTime : Watched(points, g[t], t)}
  OBVIOUS
<1>9. ASSUME NEW t \in 0 .. MaxTime, t - 1 \in S
      PROVE  t \in S /\ g[t] = Watch(points, g[t - 1], t)
  <2>1. t \in Time /\ g[t - 1] \in Watcher /\ Watched(points, g[t - 1], t - 1)
    BY <1>3, <1>8, <1>9
  <2>2. <<t, g[t - 1]>> \in (0 .. MaxTime) \X Watcher
    BY <2>1
  <2>3. g[t] = Watch(points, g[t - 1], t)
    BY <1>4, <1>7, <2>1, <2>2
  <2> QED BY <1>8, <2>1, <2>3, WatchKeeps
<1>10. -1 \in S
  BY <1>1, <1>3, <1>7, <1>8
<1>11. \A t \in 0 .. MaxTime : t - 1 \in S
  <2>1. ASSUME NEW t \in 0 .. MaxTime PROVE t - 1 \in S
    <3>1. \A u \in 0 .. t - 1 : u - 1 \in S => u \in S
      BY <1>3, <1>9
    <3>2. CASE t = 0
      BY <1>10, <3>2
    <3>3. CASE t # 0
      <4>1. t - 1 \in Nat
        BY <3>3
      <4> QED BY <1>10, <3>1, <4>1, Sweeping
    <3> QED BY <3>2, <3>3
  <2> QED BY <2>1
<1>12. g = [t \in -1 .. MaxTime |-> IF t = -1 THEN Unalerted ELSE Watch(points, g[t - 1], t)]
  BY <1>3, <1>7, <1>9, <1>11
<1>13. PICK after : after = CHOOSE k : k = [t \in -1 .. MaxTime |->
                      IF t = -1 THEN Unalerted ELSE Watch(points, k[t - 1], t)]
  OBVIOUS
<1>14. after = [t \in -1 .. MaxTime |-> IF t = -1 THEN Unalerted ELSE Watch(points, after[t - 1], t)]
  BY <1>12, <1>13
<1>15. PICK W : W = {t \in -1 .. MaxTime : after[t] \in Watcher /\ Watched(points, after[t], t)}
  OBVIOUS
<1>16. -1 \in W
  BY <1>1, <1>3, <1>14, <1>15
<1>17. ASSUME NEW t \in 0 .. MaxTime, t - 1 \in W PROVE t \in W
  <2>1. after[t] = Watch(points, after[t - 1], t)
    BY <1>3, <1>14
  <2> QED BY <1>3, <1>15, <1>17, <2>1, WatchKeeps
<1>18. MaxTime \in W
  BY <1>3, <1>16, <1>17, Sweeping
<1>19. PICK last : last = after[MaxTime]
  OBVIOUS
<1>20. last \in Watcher /\ Watched(points, last, MaxTime)
  BY <1>15, <1>18, <1>19
<1>21. Flush(last) \in Watcher /\ Watched(points, Flush(last), MaxTime)
  BY <1>3, <1>20, FlushKeeps
<1>22. DetectAlerts(points) = Flush(last).alerts
  BY <1>13, <1>19 DEF DetectAlerts
<1> QED BY <1>21, <1>22 DEF Watched, Watcher

---------------------------------------------------------------------------
(* The instants of P from which P lasts for Debounce among the instants of U.        *)
Lasting(U, P) ==
  {t \in P : \E c \in U : c - t >= Debounce /\ \A u \in U : t <= u /\ u <= c => u \in P}

Belief == [inside: BOOLEAN, pending: Maybe, opened: Maybe, visits: SUBSET [in: Time, out: Time]]

(* What contradicts a belief.                                                    *)
Against(b, near, far) == IF b.inside THEN far ELSE near

(* The pending point and all since contradict the belief, not yet for Debounce.       *)
Pending(U, near, far, b, t) ==
  b.pending # Null =>
    /\ b.pending \in U /\ b.pending <= t
    /\ \A u \in U : b.pending <= u /\ u <= t =>
         u - b.pending < Debounce /\ u \in Against(b, near, far)

Opened(U, near, far, b, t) ==
  b.inside =>
    /\ b.opened \in Lasting(U, near) /\ b.opened <= t
    /\ b.pending # Null => b.opened < b.pending
    /\ \A d \in Lasting(U, far) : b.opened <= d /\ d <= t => b.pending # Null /\ b.pending <= d

Found(U, near, b, t) ==
  \A s \in Lasting(U, near) : s <= t =>
    \/ \E v \in b.visits : v.in <= s /\ s < v.out
    \/ b.inside /\ b.opened <= s
    \/ ~b.inside /\ b.pending # Null /\ b.pending <= s

Rightly(U, near, far, rows) ==
  \A v \in rows :
    /\ v.in \in Lasting(U, near) /\ v.out \in Lasting(U, far) /\ v.in < v.out
    /\ \A d \in Lasting(U, far) : ~(v.in <= d /\ d < v.out)

Believed(U, near, far, b, t) ==
  /\ b \in Belief
  /\ Pending(U, near, far, b, t) /\ Opened(U, near, far, b, t)
  /\ Found(U, near, b, t) /\ Rightly(U, near, far, b.visits)

Points(U, near, far) ==
  U \subseteq Time /\ near \subseteq U /\ far \subseteq U /\ near \cap far = {}

(* What lasts from a point since the pending one goes on lasting at the next point.      *)
LEMMA LastsOn ==
  ASSUME NEW U, U \subseteq Time, NEW P \in SUBSET U, NEW p \in U, NEW x \in Lasting(U, P), NEW t \in U,
         p <= x, x < t, \A u \in U : p <= u /\ u < t => u - p < Debounce
  PROVE  t \in P
<1>1. PICK c \in U : c - x >= Debounce /\ \A u \in U : x <= u /\ u <= c => u \in P
  BY DEF Lasting
<1>2. x \in U
  BY DEF Lasting
<1>3. p \in Int /\ x \in Int /\ c \in Int /\ t \in Int /\ Debounce \in Nat
  BY <1>2, Constants DEF Time
<1>4. ~(c < t)
  BY <1>1, <1>2, <1>3
<1> QED BY <1>1, <1>3, <1>4

LEMMA Earlier ==
  ASSUME NEW U, U \subseteq Time, NEW t \in Time, NEW u \in U, u <= t, u # t
  PROVE  u <= t - 1
BY Constants DEF Time

LEMMA Unseen ==
  ASSUME NEW U, NEW near, NEW far, Points(U, near, far), NEW t \in Time, t \notin U,
         NEW b, Believed(U, near, far, b, t - 1)
  PROVE  Believed(U, near, far, b, t)
<1>1. \A u \in U : u <= t => u <= t - 1
  BY Earlier DEF Points
<1>2. \A u \in U : u \in Int
  BY Constants DEF Points, Time
<1>3. t \in Int
  BY Constants DEF Time
<1>4. \A x \in Lasting(U, near) \cup Lasting(U, far) : x \in U
  BY DEF Lasting, Points
<1>5. Pending(U, near, far, b, t)
  BY <1>1, <1>2, <1>3 DEF Believed, Pending
<1>6. Opened(U, near, far, b, t)
  BY <1>1, <1>2, <1>3, <1>4 DEF Believed, Opened
<1>7. Found(U, near, b, t)
  BY <1>1, <1>4 DEF Believed, Found
<1> QED BY <1>5, <1>6, <1>7 DEF Believed

LEMMA Cleared ==
  ASSUME NEW U, NEW near, NEW far, Points(U, near, far), NEW t \in U,
         NEW b, Believed(U, near, far, b, t - 1), t \notin Against(b, near, far)
  PROVE  Believed(U, near, far, [b EXCEPT !.pending = Null], t)
<1>1. PICK v : v = [b EXCEPT !.pending = Null]
  OBVIOUS
<1>2. /\ v \in Belief /\ v.inside = b.inside /\ v.pending = Null /\ v.opened = b.opened
      /\ v.visits = b.visits
  BY <1>1 DEF Believed, Belief, Maybe
<1>3. \A u \in U : u \in Int /\ u \in Time /\ (u <= t /\ u # t => u <= t - 1) /\ (u <= t - 1 => u < t)
  BY Constants DEF Points, Time
<1>4. U \subseteq Time /\ near \in SUBSET U /\ far \in SUBSET U
  BY DEF Points
<1>5. \A x \in Lasting(U, near) : x \in U /\ x \in near
  BY DEF Lasting, Points
<1>6. \A x \in Lasting(U, far) : x \in U /\ x \in far
  BY DEF Lasting, Points
<1>7. b.pending # Null => /\ b.pending \in U
                          /\ \A u \in U : b.pending <= u /\ u < t => u - b.pending < Debounce
  BY <1>3 DEF Believed, Pending
<1>8. Pending(U, near, far, v, t)
  BY <1>2 DEF Pending
<1>9. Opened(U, near, far, v, t)
  <2> SUFFICES ASSUME b.inside, NEW d \in Lasting(U, far), b.opened <= d, d <= t PROVE FALSE
    BY <1>2, <1>3, <1>5 DEF Believed, Opened
  <2>1. t \notin far
    BY DEF Against
  <2>2. d # t
    BY <1>6, <2>1
  <2>3. b.pending # Null /\ b.pending <= d
    BY <1>3, <1>6, <2>2 DEF Believed, Opened
  <2>4. d < t
    BY <1>3, <1>6, <2>2
  <2> QED BY <1>4, <1>7, <2>1, <2>3, <2>4, LastsOn
<1>10. Found(U, near, v, t)
  <2> SUFFICES ASSUME NEW s \in Lasting(U, near), s <= t
               PROVE  \/ \E w \in v.visits : w.in <= s /\ s < w.out
                      \/ v.inside /\ v.opened <= s
    BY DEF Found
  <2>1. CASE b.inside
    <3>1. b.opened <= t - 1 /\ b.opened \in U
      BY <1>5, <2>1 DEF Believed, Opened
    <3>2. CASE s = t
      BY <1>2, <1>3, <2>1, <3>1, <3>2
    <3>3. CASE s # t
      <4>1. s <= t - 1
        BY <1>3, <1>5, <3>3
      <4> QED BY <1>2, <2>1, <4>1 DEF Believed, Found
    <3> QED BY <3>2, <3>3
  <2>2. CASE ~b.inside
    <3>1. t \notin near
      BY <2>2 DEF Against
    <3>2. s # t /\ s <= t - 1 /\ s < t
      BY <1>3, <1>5, <3>1
    <3>3. ~(b.pending # Null /\ b.pending <= s)
      BY <1>4, <1>7, <3>1, <3>2, LastsOn
    <3> QED BY <1>2, <2>2, <3>2, <3>3 DEF Believed, Found
  <2> QED BY <2>1, <2>2
<1> QED BY <1>1, <1>2, <1>8, <1>9, <1>10 DEF Believed

LEMMA Contradicted ==
  ASSUME NEW U, NEW near, NEW far, Points(U, near, far), NEW t \in U,
         NEW b, Believed(U, near, far, b, t - 1), t \in Against(b, near, far), b.pending = Null
  PROVE  Believed(U, near, far, [b EXCEPT !.pending = t], t)
<1>1. PICK v : v = [b EXCEPT !.pending = t]
  OBVIOUS
<1>2. /\ v \in Belief /\ v.inside = b.inside /\ v.pending = t /\ v.opened = b.opened
      /\ v.visits = b.visits
  BY <1>1 DEF Believed, Belief, Maybe, Points
<1>3. \A u \in U : u \in Int /\ u # Null /\ (u <= t /\ u # t => u <= t - 1) /\ (u <= t - 1 => u < t)
  BY Constants DEF Points, Time, Null
<1>4. \A x \in Lasting(U, near) \cup Lasting(U, far) : x \in U
  BY DEF Lasting, Points
<1>5. Pending(U, near, far, v, t)
  <2>1. \A u \in U : t <= u /\ u <= t => u = t /\ u - t < Debounce
    BY <1>3, Constants
  <2> QED BY <1>2, <1>3, <2>1 DEF Pending, Against
<1>6. Opened(U, near, far, v, t)
  <2> SUFFICES ASSUME b.inside PROVE Opened(U, near, far, v, t)
    BY <1>2 DEF Opened
  <2>1. b.opened \in Lasting(U, near) /\ b.opened <= t - 1
    BY DEF Believed, Opened
  <2>2. b.opened < t /\ b.opened <= t
    BY <1>3, <1>4, <2>1
  <2>3. ASSUME NEW d \in Lasting(U, far), b.opened <= d, d <= t PROVE t <= d
    BY <1>3, <1>4, <2>3 DEF Believed, Opened
  <2> QED BY <1>2, <1>3, <2>1, <2>2, <2>3 DEF Opened
<1>7. Found(U, near, v, t)
  <2> SUFFICES ASSUME NEW s \in Lasting(U, near), s <= t
               PROVE  \/ \E w \in v.visits : w.in <= s /\ s < w.out
                      \/ v.inside /\ v.opened <= s
                      \/ ~v.inside /\ v.pending # Null /\ v.pending <= s
    BY DEF Found
  <2>1. CASE s # t
    BY <1>2, <1>3, <1>4, <2>1 DEF Believed, Found
  <2>2. CASE s = t
    <3>1. CASE b.inside
      <4>1. b.opened \in U /\ b.opened <= t - 1
        BY <1>4, <3>1 DEF Believed, Opened
      <4> QED BY <1>2, <1>3, <2>2, <3>1, <4>1
    <3>2. CASE ~b.inside
      BY <1>2, <1>3, <2>2, <3>2
    <3> QED BY <3>1, <3>2
  <2> QED BY <2>1, <2>2
<1> QED BY <1>1, <1>2, <1>5, <1>6, <1>7 DEF Believed

LEMMA Undecided ==
  ASSUME NEW U, NEW near, NEW far, Points(U, near, far), NEW t \in U,
         NEW b, Believed(U, near, far, b, t - 1), t \in Against(b, near, far), b.pending # Null,
         t - b.pending < Debounce
  PROVE  Believed(U, near, far, b, t)
<1>3. \A u \in U : u \in Int /\ u # Null /\ (u <= t /\ u # t => u <= t - 1) /\ (u <= t - 1 => u < t)
  BY Constants DEF Points, Time, Null
<1>4. \A x \in Lasting(U, near) \cup Lasting(U, far) : x \in U
  BY DEF Lasting, Points
<1>5. b.pending \in U /\ b.pending < t
  BY <1>3 DEF Believed, Pending
<1>6. Pending(U, near, far, b, t)
  BY <1>3, <1>5 DEF Believed, Pending
<1>7. Opened(U, near, far, b, t)
  <2> SUFFICES ASSUME b.inside PROVE Opened(U, near, far, b, t)
    BY DEF Opened
  <2>1. b.opened \in Lasting(U, near) /\ b.opened <= t - 1 /\ b.opened < b.pending
    BY DEF Believed, Opened
  <2>2. b.opened <= t
    BY <1>3, <1>4, <2>1
  <2>3. ASSUME NEW d \in Lasting(U, far), b.opened <= d, d <= t PROVE b.pending <= d
    <3>1. CASE d = t
      BY <1>3, <1>5, <3>1
    <3>2. CASE d # t
      BY <1>3, <1>4, <2>3, <3>2 DEF Believed, Opened
    <3> QED BY <3>1, <3>2
  <2> QED BY <2>1, <2>2, <2>3 DEF Opened
<1>8. Found(U, near, b, t)
  <2> SUFFICES ASSUME NEW s \in Lasting(U, near), s <= t
               PROVE  \/ \E w \in b.visits : w.in <= s /\ s < w.out
                      \/ b.inside /\ b.opened <= s
                      \/ ~b.inside /\ b.pending # Null /\ b.pending <= s
    BY DEF Found
  <2>1. CASE s # t
    BY <1>3, <1>4, <2>1 DEF Believed, Found
  <2>2. CASE s = t
    <3>1. CASE b.inside
      <4>1. b.opened \in U /\ b.opened <= t - 1
        BY <1>4, <3>1 DEF Believed, Opened
      <4> QED BY <1>3, <2>2, <3>1, <4>1
    <3>2. CASE ~b.inside
      BY <1>3, <1>5, <2>2, <3>2
    <3> QED BY <3>1, <3>2
  <2> QED BY <2>1, <2>2
<1> QED BY <1>6, <1>7, <1>8 DEF Believed

LEMMA Departed ==
  ASSUME NEW U, NEW near, NEW far, Points(U, near, far), NEW t \in U,
         NEW b, Believed(U, near, far, b, t - 1), t \in Against(b, near, far), b.pending # Null,
         t - b.pending >= Debounce, b.inside
  PROVE  Believed(U, near, far, Confirm(b), t)
<1>1. PICK row : row = [in |-> b.opened, out |-> b.pending]
  OBVIOUS
<1>2. PICK more : more = b.visits \cup {row}
  OBVIOUS
<1>3. PICK v : v = [inside |-> FALSE, pending |-> Null, opened |-> Null, visits |-> more]
  OBVIOUS
<1>4. Confirm(b) = v
  <2>1. Confirm(b) = [Unvisited EXCEPT !.visits = b.visits \cup {[in |-> b.opened, out |-> b.pending]}]
    BY DEF Confirm
  <2>2. PICK no, none, rest : /\ no = FALSE /\ none = Null
                             /\ rest = [inside |-> no, pending |-> none, opened |-> none,
                                        visits |-> {}]
    OBVIOUS
  <2>3. [rest EXCEPT !.visits = more]
          = [inside |-> no, pending |-> none, opened |-> none, visits |-> more]
    BY <2>2
  <2>4. rest = Unvisited
    BY <2>2 DEF Unvisited
  <2> QED BY <1>1, <1>2, <1>3, <2>1, <2>2, <2>3, <2>4
<1>5. \A u \in U : u \in Int /\ u # Null /\ u \in Time /\ (u <= t /\ u # t => u <= t - 1) /\ (u <= t - 1 => u < t)
  BY Constants DEF Points, Time, Null
<1>6. \A x \in Lasting(U, near) : x \in U /\ x \in near
  BY DEF Lasting, Points
<1>7. \A x \in Lasting(U, far) : x \in U /\ x \in far
  BY DEF Lasting, Points
<1>8. b.pending \in U /\ b.pending < t /\ \A u \in U : b.pending <= u /\ u <= t => u \in far
  BY <1>5 DEF Believed, Pending, Against
<1>9. /\ b.opened \in Lasting(U, near) /\ b.opened <= t - 1 /\ b.opened < b.pending
      /\ \A d \in Lasting(U, far) : b.opened <= d /\ d <= t - 1 => b.pending <= d
  BY DEF Believed, Opened
<1>10. b.pending \in Lasting(U, far)
  BY <1>5, <1>8 DEF Lasting
<1>11. row \in [in: Time, out: Time] /\ row.in = b.opened /\ row.out = b.pending
  BY <1>1, <1>5, <1>6, <1>8, <1>9
<1>12. v \in Belief
  BY <1>2, <1>3, <1>11 DEF Believed, Belief, Maybe
<1>13. Rightly(U, near, far, more)
  <2>1. ASSUME NEW d \in Lasting(U, far) PROVE ~(row.in <= d /\ d < row.out)
    BY <1>5, <1>7, <1>8, <1>9, <1>11
  <2>2. row.in \in Lasting(U, near) /\ row.out \in Lasting(U, far) /\ row.in < row.out
    BY <1>9, <1>10, <1>11
  <2> QED BY <1>2, <2>1, <2>2 DEF Believed, Rightly
<1>14. Found(U, near, v, t)
  <2> SUFFICES ASSUME NEW s \in Lasting(U, near), s <= t
               PROVE  \E w \in more : w.in <= s /\ s < w.out
    BY <1>3 DEF Found
  <2>1. s \notin far
    BY <1>6 DEF Points
  <2>2. s < b.pending /\ s <= t - 1
    BY <1>5, <1>6, <1>8, <2>1
  <2>3. (\E w \in b.visits : w.in <= s /\ s < w.out) \/ b.opened <= s
    BY <2>2 DEF Believed, Found
  <2> QED BY <1>2, <1>11, <2>2, <2>3
<1>15. Pending(U, near, far, v, t) /\ Opened(U, near, far, v, t)
  BY <1>3 DEF Pending, Opened
<1> QED BY <1>3, <1>4, <1>12, <1>13, <1>14, <1>15 DEF Believed

LEMMA Arrived ==
  ASSUME NEW U, NEW near, NEW far, Points(U, near, far), NEW t \in U,
         NEW b, Believed(U, near, far, b, t - 1), t \in Against(b, near, far), b.pending # Null,
         t - b.pending >= Debounce, ~b.inside
  PROVE  Believed(U, near, far, Confirm(b), t)
<1>1. PICK v : v = [inside |-> TRUE, pending |-> Null, opened |-> b.pending, visits |-> b.visits]
  OBVIOUS
<1>2. b \in Belief /\ b = [inside |-> b.inside, pending |-> b.pending, opened |-> b.opened, visits |-> b.visits]
  BY DEF Believed, Belief
<1>3. Confirm(b) = v
  <2>1. PICK x : x = [b EXCEPT !.inside = TRUE]
    OBVIOUS
  <2>2. x = [inside |-> TRUE, pending |-> b.pending, opened |-> b.opened, visits |-> b.visits]
    BY <1>2, <2>1
  <2>3. PICK y : y = [x EXCEPT !.opened = b.pending]
    OBVIOUS
  <2>4. y = [inside |-> TRUE, pending |-> b.pending, opened |-> b.pending, visits |-> b.visits]
    BY <2>2, <2>3
  <2>5. PICK z : z = [y EXCEPT !.pending = Null]
    OBVIOUS
  <2>6. z = [inside |-> TRUE, pending |-> Null, opened |-> b.pending, visits |-> b.visits]
    BY <2>4, <2>5
  <2>7. [b EXCEPT !.inside = TRUE, !.opened = b.pending, !.pending = Null] = z
    BY <2>1, <2>3, <2>5, Zenon
  <2> QED BY <1>1, <2>6, <2>7 DEF Confirm
<1>4. v \in Belief
  BY <1>1, <1>2 DEF Belief, Maybe
<1>5. \A u \in U : u \in Int /\ u # Null /\ (u <= t /\ u # t => u <= t - 1) /\ (u <= t - 1 => u < t)
  BY Constants DEF Points, Time, Null
<1>6. \A x \in Lasting(U, far) : x \in U /\ x \in far
  BY DEF Lasting, Points
<1>7. b.pending \in U /\ b.pending < t /\ \A u \in U : b.pending <= u /\ u <= t => u \in near
  BY <1>5 DEF Believed, Pending, Against
<1>8. b.pending \in Lasting(U, near)
  BY <1>5, <1>7 DEF Lasting
<1>9. Opened(U, near, far, v, t)
  <2>1. ASSUME NEW d \in Lasting(U, far), b.pending <= d, d <= t PROVE FALSE
    BY <1>6, <1>7, <2>1 DEF Points
  <2> QED BY <1>1, <1>5, <1>7, <1>8, <2>1 DEF Opened
<1>10. Found(U, near, v, t)
  <2> SUFFICES ASSUME NEW s \in Lasting(U, near), s <= t
               PROVE  (\E w \in b.visits : w.in <= s /\ s < w.out) \/ b.pending <= s
    BY <1>1 DEF Found
  <2>1. s \in U
    BY DEF Lasting, Points
  <2>2. CASE s = t
    BY <1>5, <1>7, <2>2
  <2>3. CASE s # t
    BY <1>5, <2>1, <2>3 DEF Believed, Found
  <2> QED BY <2>2, <2>3
<1>11. Pending(U, near, far, v, t) /\ Rightly(U, near, far, v.visits)
  BY <1>1 DEF Believed, Pending
<1> QED BY <1>3, <1>4, <1>9, <1>10, <1>11 DEF Believed

---------------------------------------------------------------------------
Near(points, f) == {t \in Usable(points) : Dist(points[t].pos, f) <= FenceRadius}
Far(points, f) == {t \in Usable(points) : Dist(points[t].pos, f) > FenceRadius + Hysteresis}

LEMMA InReach ==
  ASSUME NEW points, IsTrack(points), NEW f \in Int
  PROVE  /\ \A t \in DOMAIN points : Dist(points[t].pos, f) \in Int
         /\ Points(Usable(points), Near(points, f), Far(points, f))
<1>1. \A t \in DOMAIN points : points[t].pos \in Int
  BY DEF IsTrack, Fix
<1>2. \A t \in DOMAIN points : Dist(points[t].pos, f) \in Int
  BY <1>1 DEF Dist
<1>3. Usable(points) \subseteq DOMAIN points /\ Usable(points) \subseteq Time
  BY DEF Usable, IsTrack
<1>4. Near(points, f) \subseteq Usable(points) /\ Far(points, f) \subseteq Usable(points)
  BY DEF Near, Far
<1>5. Near(points, f) \cap Far(points, f) = {}
  BY <1>2, <1>3, Constants DEF Near, Far
<1> QED BY <1>2, <1>3, <1>4, <1>5 DEF Points

(* A point's revision of the belief about a fence.                               *)
LEMMA ReviseKeeps ==
  ASSUME NEW points, IsTrack(points), NEW f \in Int, NEW t \in Time,
         NEW b, Believed(Usable(points), Near(points, f), Far(points, f), b, t - 1)
  PROVE  Believed(Usable(points), Near(points, f), Far(points, f), Revise(points, f, b, t), t)
<1>1. PICK U, near, far : U = Usable(points) /\ near = Near(points, f) /\ far = Far(points, f)
  OBVIOUS
<1>2. Points(U, near, far) /\ Believed(U, near, far, b, t - 1)
  BY <1>1, InReach
<1>3. CASE t \notin U
  <2>1. Revise(points, f, b, t) = b
    BY <1>1, <1>3 DEF Revise
  <2> QED BY <1>1, <1>2, <1>3, <2>1, Unseen
<1>4. ASSUME t \in U
      PROVE  Observed(points, t, f, b.inside) = b.inside <=> t \notin Against(b, near, far)
  <2>1. b.inside \in BOOLEAN
    BY DEF Believed, Belief
  <2>2. PICK d \in Int : d = Dist(points[t].pos, f)
    BY <1>1, <1>4, InReach DEF Usable
  <2>3. CASE b.inside
    <3>1. t \in far <=> d > FenceRadius + Hysteresis
      BY <1>1, <1>4, <2>2 DEF Far
    <3>2. Observed(points, t, f, b.inside) <=> d <= FenceRadius + Hysteresis
      BY <2>2, <2>3 DEF Observed
    <3>3. Observed(points, t, f, b.inside) \in BOOLEAN
      BY DEF Observed
    <3>4. (d > FenceRadius + Hysteresis) <=> ~(d <= FenceRadius + Hysteresis)
      BY Constants
    <3> QED BY <2>1, <2>3, <3>1, <3>2, <3>3, <3>4 DEF Against
  <2>4. CASE ~b.inside
    <3>1. t \in near <=> d <= FenceRadius
      BY <1>1, <1>4, <2>2 DEF Near
    <3>2. Observed(points, t, f, b.inside) <=> d <= FenceRadius
      BY <2>2, <2>4, Constants DEF Observed
    <3>3. Observed(points, t, f, b.inside) \in BOOLEAN
      BY DEF Observed
    <3> QED BY <2>1, <2>4, <3>1, <3>2, <3>3 DEF Against
  <2> QED BY <2>3, <2>4
<1>5. CASE t \in U /\ t \notin Against(b, near, far)
  <2>1. Revise(points, f, b, t) = [b EXCEPT !.pending = Null]
    BY <1>1, <1>4, <1>5 DEF Revise
  <2> QED BY <1>1, <1>2, <1>5, <2>1, Cleared
<1>6. CASE t \in U /\ t \in Against(b, near, far)
  <2>1. CASE b.pending = Null
    <3>1. Revise(points, f, b, t) = [b EXCEPT !.pending = t]
      BY <1>1, <1>4, <1>6, <2>1 DEF Revise
    <3> QED BY <1>1, <1>2, <1>6, <2>1, <3>1, Contradicted
  <2>2. CASE b.pending # Null /\ t - b.pending < Debounce
    <3>1. Revise(points, f, b, t) = b
      BY <1>1, <1>4, <1>6, <2>2 DEF Revise
    <3> QED BY <1>1, <1>2, <1>6, <2>2, <3>1, Undecided
  <2>3. CASE b.pending # Null /\ ~(t - b.pending < Debounce)
    <3>1. Revise(points, f, b, t) = Confirm(b)
      BY <1>1, <1>4, <1>6, <2>3 DEF Revise
    <3>2. t - b.pending >= Debounce
      <4>1. b.pending \in Int /\ t \in Int
        BY Constants DEF Believed, Belief, Maybe, Time, Null
      <4> QED BY <2>3, <4>1, Constants
    <3> QED BY <1>1, <1>2, <1>6, <2>3, <3>1, <3>2, Departed, Arrived
  <2> QED BY <2>1, <2>2, <2>3
<1> QED BY <1>3, <1>5, <1>6

(* The belief after every point, as VisitsForFence computes it.                       *)
LEMMA BeliefAtLast ==
  ASSUME NEW points, IsTrack(points), NEW f \in Int
  PROVE  \E b : /\ Believed(Usable(points), Near(points, f), Far(points, f), b, MaxTime)
                /\ VisitsForFence(points, f) =
                     b.visits \cup (IF b.inside THEN {[in |-> b.opened, out |-> Null]} ELSE {})
<1>1. PICK U, near, far : U = Usable(points) /\ near = Near(points, f) /\ far = Far(points, f)
  OBVIOUS
<1>2. Time = 0 .. MaxTime /\ MaxTime \in Nat
  BY Constants DEF Time
<1>3. Believed(U, near, far, Unvisited, -1) /\ Unvisited \in Belief
  <2>1. PICK none, no, rest : none = {} /\ no = FALSE
                 /\ rest = [inside |-> no, pending |-> Null, opened |-> Null, visits |-> none]
    OBVIOUS
  <2>2. rest = Unvisited
    BY <2>1 DEF Unvisited
  <2>3. rest.inside = FALSE /\ rest.pending = Null /\ rest.opened = Null /\ rest.visits = {}
    BY <2>1
  <2>4. rest \in Belief
    BY <2>1 DEF Belief, Maybe
  <2>5. \A s \in Lasting(U, near) : ~(s <= -1)
    BY <1>1, <1>2, InReach DEF Lasting, Points
  <2>6. Pending(U, near, far, rest, -1) /\ Opened(U, near, far, rest, -1)
    BY <2>3 DEF Pending, Opened
  <2>7. Found(U, near, rest, -1) /\ Rightly(U, near, far, rest.visits)
    BY <2>3, <2>5 DEF Found, Rightly
  <2> QED BY <2>2, <2>4, <2>6, <2>7 DEF Believed
<1>4. ASSUME NEW t \in 0 .. MaxTime, NEW b, Believed(U, near, far, b, t - 1)
      PROVE  Believed(U, near, far, Revise(points, f, b, t), t) /\ Revise(points, f, b, t) \in Belief
  BY <1>1, <1>2, <1>4, ReviseKeeps DEF Believed
<1>5. PICK step : step = [p \in (0 .. MaxTime) \X Belief |->
                            IF Believed(U, near, far, p[2], p[1] - 1) THEN Revise(points, f, p[2], p[1])
                            ELSE Unvisited]
  OBVIOUS
<1>6. step \in [(0 .. MaxTime) \X Belief -> Belief]
  <2>1. ASSUME NEW p \in (0 .. MaxTime) \X Belief
        PROVE  (IF Believed(U, near, far, p[2], p[1] - 1) THEN Revise(points, f, p[2], p[1])
                ELSE Unvisited) \in Belief
    BY <1>3, <1>4
  <2> QED BY <1>5, <2>1
<1>7. PICK g \in [-1 .. MaxTime -> Belief] : Sweeps(g, Unvisited, step, MaxTime)
  <2>1. PICK base \in Belief : base = Unvisited
    BY <1>3
  <2>2. PICK n \in Nat : n = MaxTime
    BY <1>2
  <2>3. PICK A : A = Belief
    OBVIOUS
  <2>4. base \in A /\ step \in [(0 .. n) \X A -> A]
    BY <1>6, <2>1, <2>2, <2>3
  <2>5. \E g \in [-1 .. n -> A] : Sweeps(g, base, step, n)
    BY <2>4, Swept
  <2> QED BY <2>1, <2>2, <2>3, <2>5
<1>8. PICK S : S = {t \in -1 .. MaxTime : Believed(U, near, far, g[t], t)}
  OBVIOUS
<1>9. ASSUME NEW t \in 0 .. MaxTime, t - 1 \in S
      PROVE  t \in S /\ g[t] = Revise(points, f, g[t - 1], t)
  <2>1. g[t - 1] \in Belief /\ Believed(U, near, far, g[t - 1], t - 1)
    BY <1>8, <1>9
  <2>2. <<t, g[t - 1]>> \in (0 .. MaxTime) \X Belief
    BY <2>1
  <2>3. g[t] = Revise(points, f, g[t - 1], t)
    BY <1>5, <1>7, <2>1, <2>2 DEF Sweeps
  <2> QED BY <1>2, <1>4, <1>8, <2>1, <2>3
<1>10. -1 \in S
  BY <1>2, <1>3, <1>7, <1>8 DEF Sweeps
<1>11. \A t \in 0 .. MaxTime : t - 1 \in S
  <2>1. ASSUME NEW t \in 0 .. MaxTime PROVE t - 1 \in S
    <3>1. \A u \in 0 .. t - 1 : u - 1 \in S => u \in S
      BY <1>2, <1>9
    <3>2. CASE t = 0
      BY <1>10, <3>2
    <3>3. CASE t # 0
      <4>1. t - 1 \in Nat
        BY <3>3
      <4> QED BY <1>10, <3>1, <4>1, Sweeping
    <3> QED BY <3>2, <3>3
  <2> QED BY <2>1
<1>12. g = [t \in -1 .. MaxTime |-> IF t = -1 THEN Unvisited ELSE Revise(points, f, g[t - 1], t)]
  BY <1>2, <1>7, <1>9, <1>11 DEF Sweeps
<1>13. PICK after : after = CHOOSE k : k = [t \in -1 .. MaxTime |->
                      IF t = -1 THEN Unvisited ELSE Revise(points, f, k[t - 1], t)]
  OBVIOUS
<1>14. after = [t \in -1 .. MaxTime |-> IF t = -1 THEN Unvisited ELSE Revise(points, f, after[t - 1], t)]
  BY <1>12, <1>13
<1>15. PICK W : W = {t \in -1 .. MaxTime : Believed(U, near, far, after[t], t)}
  OBVIOUS
<1>16. -1 \in W
  BY <1>2, <1>3, <1>14, <1>15
<1>17. ASSUME NEW t \in 0 .. MaxTime, t - 1 \in W PROVE t \in W
  <2>1. after[t] = Revise(points, f, after[t - 1], t)
    BY <1>2, <1>14
  <2> QED BY <1>2, <1>4, <1>15, <1>17, <2>1
<1>18. MaxTime \in W
  BY <1>2, <1>16, <1>17, Sweeping
<1>19. PICK b : b = after[MaxTime]
  OBVIOUS
<1>20. Believed(U, near, far, b, MaxTime)
  BY <1>15, <1>18, <1>19
<1>21. VisitsForFence(points, f)
         = b.visits \cup (IF b.inside THEN {[in |-> b.opened, out |-> Null]} ELSE {})
  BY <1>13, <1>19 DEF VisitsForFence
<1> QED BY <1>1, <1>20, <1>21

(* What detectGeofenceVisits reports of any track, for one fence.                    *)
Covers(v, t) == v.in <= t /\ (v.out = Null \/ t < v.out)
Supported(points, f, rows) ==
  LET U == Usable(points)  stays == Lasting(U, Near(points, f))  departures == Lasting(U, Far(points, f))
  IN
  /\ \A v \in rows : /\ v.in \in stays
                     /\ v.out # Null => v.out \in departures /\ v.in < v.out
                     /\ \A t \in departures : ~Covers(v, t)
  /\ \A t \in stays : \E v \in rows : Covers(v, t)

LEMMA VisitsOf ==
  ASSUME NEW points, IsTrack(points), NEW f \in Int
  PROVE  Supported(points, f, VisitsForFence(points, f))
<1>1. PICK U, near, far, rows : /\ U = Usable(points) /\ near = Near(points, f) /\ far = Far(points, f)
                                /\ rows = VisitsForFence(points, f)
  OBVIOUS
<1>2. PICK b : /\ Believed(U, near, far, b, MaxTime)
               /\ rows = b.visits \cup (IF b.inside THEN {[in |-> b.opened, out |-> Null]} ELSE {})
  BY <1>1, BeliefAtLast
<1>3. \A u \in U : u \in Int /\ u # Null /\ u <= MaxTime
  BY <1>1, InReach, Constants DEF Points, Time, Null
<1>4. \A x \in Lasting(U, near) \cup Lasting(U, far) : x \in U
  BY <1>1, InReach DEF Lasting, Points
<1>5. ASSUME NEW P, NEW x \in Lasting(U, P), x \in U, b.pending # Null, b.pending <= x PROVE FALSE
  <2>1. PICK c \in U : c - x >= Debounce
    BY <1>5 DEF Lasting
  <2>2. b.pending \in U /\ \A u \in U : b.pending <= u /\ u <= MaxTime => u - b.pending < Debounce
    BY <1>2, <1>5 DEF Believed, Pending
  <2> QED BY <1>3, <1>5, <2>1, <2>2, Constants
<1>6. ASSUME NEW v \in b.visits
      PROVE  /\ v.in \in Lasting(U, near) /\ v.out \in Lasting(U, far) /\ v.in < v.out
             /\ v.out # Null /\ v.out \in Int
             /\ \A t \in Lasting(U, far) : ~Covers(v, t)
  BY <1>2, <1>3, <1>4 DEF Believed, Rightly, Covers
<1>7. ASSUME b.inside
      PROVE  /\ b.opened \in Lasting(U, near)
             /\ \A d \in Lasting(U, far) : ~(b.opened <= d)
  BY <1>2, <1>3, <1>4, <1>5, <1>7 DEF Believed, Opened
<1>8. ASSUME NEW v \in rows, v \notin b.visits
      PROVE  b.inside /\ v.in = b.opened /\ v.out = Null
  BY <1>2, <1>8
<1>9. ASSUME NEW v \in rows
      PROVE  /\ v.in \in Lasting(U, near)
             /\ v.out # Null => v.out \in Lasting(U, far) /\ v.in < v.out
             /\ \A t \in Lasting(U, far) : ~Covers(v, t)
  <2>1. CASE v \in b.visits
    BY <1>6, <2>1
  <2>2. CASE v \notin b.visits
    BY <1>7, <1>8, <2>2 DEF Covers
  <2> QED BY <2>1, <2>2
<1>10. ASSUME NEW s \in Lasting(U, near) PROVE \E v \in rows : Covers(v, s)
  <2>1. s \in U /\ s <= MaxTime
    BY <1>3, <1>4
  <2>2. \/ \E v \in b.visits : v.in <= s /\ s < v.out
        \/ b.inside /\ b.opened <= s
    BY <1>2, <1>5, <2>1 DEF Believed, Found
  <2>3. CASE \E v \in b.visits : v.in <= s /\ s < v.out
    BY <1>2, <2>3 DEF Covers
  <2>4. CASE b.inside /\ b.opened <= s
    <3>1. PICK v : v = [in |-> b.opened, out |-> Null]
      OBVIOUS
    <3>2. v \in rows /\ v.in = b.opened /\ v.out = Null
      BY <1>2, <2>4, <3>1
    <3> QED BY <2>4, <3>2 DEF Covers
  <2> QED BY <2>2, <2>3, <2>4
<1> QED BY <1>1, <1>9, <1>10 DEF Supported

---------------------------------------------------------------------------
LEMMA BagsJoin ==
  ASSUME NEW A, NEW B, NEW C, NEW log0, log0 = A (+) SetToBag(B) (+) SetToBag(C)
  PROVE  /\ BagToSet(log0) = DOMAIN A \cup B \cup C
         /\ \A e \in DOMAIN A : e \notin B /\ e \notin C /\ A[e] \in Nat => log0[e] = A[e]
         /\ \A e \in C : e \notin DOMAIN A /\ e \notin B => log0[e] = 1
<1>1. PICK b : b = SetToBag(B)
  OBVIOUS
<1>2. PICK c : c = SetToBag(C)
  OBVIOUS
<1>3. DOMAIN b = B /\ (\A e \in B : b[e] = 1) /\ DOMAIN c = C /\ (\A e \in C : c[e] = 1)
  BY <1>1, <1>2 DEF SetToBag
<1>4. PICK d : d = A (+) b
  OBVIOUS
<1>5. DOMAIN d = DOMAIN A \cup B
  BY <1>3, <1>4 DEF (+)
<1>6. \A e \in DOMAIN A : e \notin B /\ A[e] \in Nat => d[e] = A[e]
  BY <1>3, <1>4 DEF (+)
<1>7. log0 = d (+) c
  BY <1>1, <1>2, <1>4
<1>8. DOMAIN log0 = DOMAIN d \cup C
  BY <1>3, <1>7 DEF (+)
<1>9. \A e \in DOMAIN d : e \notin C /\ d[e] \in Nat => log0[e] = d[e]
  BY <1>3, <1>7 DEF (+)
<1>10. \A e \in C : e \notin DOMAIN d => log0[e] = 1
  BY <1>3, <1>7 DEF (+)
<1> QED BY <1>5, <1>6, <1>8, <1>9, <1>10 DEF BagToSet

LEMMA Appending ==
  ASSUME IsTrack(track), NEW batch \in Batches
  PROVE  IsTrack(Appended(batch))
<1>1. PICK all : all = Appended(batch)
  OBVIOUS
<1>2. PICK d \in Time \X Time : batch \in [d[1] .. d[2] -> Readings]
  BY DEF Batches
<1>3. DOMAIN batch \subseteq Time
  BY <1>2, Constants DEF Time
<1>4. \A t \in DOMAIN batch : batch[t] \in Fix
  BY <1>2, TrackLogAssumption DEF Fix
<1>5. \A t \in DOMAIN track : track[t] \in Fix
  BY DEF IsTrack
<1>6. DOMAIN all = DOMAIN track \cup DOMAIN batch
  BY <1>1 DEF Appended
<1>7. \A t \in DOMAIN all : all[t] = IF t \in DOMAIN track THEN track[t] ELSE batch[t]
  BY <1>1 DEF Appended
<1>8. \A t \in DOMAIN all : all[t] \in Fix
  BY <1>4, <1>5, <1>6, <1>7
<1>9. all = [t \in DOMAIN all |-> all[t]]
  BY <1>1 DEF Appended
<1>10. all \in [DOMAIN all -> Fix]
  BY <1>8, <1>9
<1>11. DOMAIN track \subseteq Time
  BY DEF IsTrack
<1> QED BY <1>1, <1>3, <1>6, <1>10, <1>11 DEF IsTrack

Rows(computed, f) == {v \in computed : v.fence = f}

LEMMA Detected ==
  ASSUME NEW points, IsTrack(points), NEW f \in Fence
  PROVE  Supported(points, f, Rows(DetectVisits(points, Fence), f))
<1>1. PICK found, rows : found = VisitsForFence(points, f) /\ rows = Rows(DetectVisits(points, Fence), f)
  OBVIOUS
<1>2. f \in Int /\ Supported(points, f, found)
  BY <1>1, VisitsOf, TrackLogAssumption
<1>3. ASSUME NEW v \in rows PROVE \E w \in found : v.in = w.in /\ v.out = w.out
  <2>1. v \in DetectVisits(points, Fence) /\ v.fence = f
    BY <1>1 DEF Rows
  <2>2. PICK h \in Fence : v \in {[fence |-> h, in |-> w.in, out |-> w.out] : w \in VisitsForFence(points, h)}
    BY <2>1 DEF DetectVisits
  <2>3. PICK w \in VisitsForFence(points, h) : v = [fence |-> h, in |-> w.in, out |-> w.out]
    BY <2>2
  <2>4. h = f /\ v.in = w.in /\ v.out = w.out
    BY <2>1, <2>3
  <2> QED BY <1>1, <2>4
<1>4. ASSUME NEW w \in found PROVE \E v \in rows : v.in = w.in /\ v.out = w.out
  <2>1. PICK v : v = [fence |-> f, in |-> w.in, out |-> w.out]
    OBVIOUS
  <2>2. v \in DetectVisits(points, Fence)
    BY <1>1, <2>1 DEF DetectVisits
  <2>3. v.fence = f /\ v.in = w.in /\ v.out = w.out
    BY <2>1
  <2> QED BY <1>1, <2>2, <2>3 DEF Rows
<1>5. PICK stays, departures : /\ stays = Lasting(Usable(points), Near(points, f))
                               /\ departures = Lasting(Usable(points), Far(points, f))
  OBVIOUS
<1>6. /\ \A w \in found : /\ w.in \in stays
                          /\ w.out # Null => w.out \in departures /\ w.in < w.out
                          /\ \A t \in departures : ~Covers(w, t)
      /\ \A t \in stays : \E w \in found : Covers(w, t)
  BY <1>2, <1>5 DEF Supported
<1>7. \A v \in rows : /\ v.in \in stays
                      /\ v.out # Null => v.out \in departures /\ v.in < v.out
                      /\ \A t \in departures : ~Covers(v, t)
  BY <1>3, <1>6 DEF Covers
<1>8. ASSUME NEW t \in stays PROVE \E v \in rows : Covers(v, t)
  <2>1. PICK w \in found : Covers(w, t)
    BY <1>6
  <2>2. PICK v \in rows : v.in = w.in /\ v.out = w.out
    BY <1>4
  <2> QED BY <2>1, <2>2 DEF Covers
<1> QED BY <1>1, <1>5, <1>7, <1>8 DEF Supported

LEMMA FencesKnown ==
  ASSUME NEW points, NEW v \in DetectVisits(points, Fence)
  PROVE  v.fence \in Fence
<1>1. PICK h \in Fence : v \in {[fence |-> h, in |-> w.in, out |-> w.out] : w \in VisitsForFence(points, h)}
  BY DEF DetectVisits
<1>2. PICK w \in VisitsForFence(points, h) : v = [fence |-> h, in |-> w.in, out |-> w.out]
  BY <1>1
<1> QED BY <1>2

(* A visit ends after it began.                                                 *)
LEMMA EndsLater ==
  ASSUME NEW points, IsTrack(points), NEW v \in DetectVisits(points, Fence), v.out # Null
  PROVE  v.in < v.out
<1>1. v.fence \in Fence
  BY FencesKnown
<1>2. v \in Rows(DetectVisits(points, Fence), v.fence)
  BY DEF Rows
<1> QED BY <1>1, <1>2, Detected DEF Supported

(* syncVisits leaves what was computed.                                            *)
LEMMA Synced ==
  ASSUME NEW computed, SyncVisits(computed) PROVE visits' = computed
BY DEF SyncVisits, Entered, Remaining

LogInv ==
  /\ IsTrack(track) /\ visits = DetectVisits(track, Fence)
  /\ CrossingsLogged /\ AlertsLogged /\ EventsGrounded

LEMMA LogInitial == Init => LogInv
<1> SUFFICES ASSUME Init PROVE LogInv
  OBVIOUS
<1>1. PICK none : none = {}
  OBVIOUS
<1>2. track = [t \in none |-> Null] /\ visits = none /\ log = SetToBag(none)
  BY <1>1 DEF Init, EmptyBag
<1>3. DOMAIN track = none /\ IsTrack(track)
  BY <1>1, <1>2 DEF IsTrack
<1>4. BagToSet(log) = none
  BY <1>2 DEF SetToBag, BagToSet
<1>5. DetectVisits(track, Fence) = {}
  <2> SUFFICES ASSUME NEW v \in DetectVisits(track, Fence) PROVE FALSE
    OBVIOUS
  <2>1. v.fence \in Fence /\ v \in Rows(DetectVisits(track, Fence), v.fence)
    BY FencesKnown DEF Rows
  <2>2. v.in \in Lasting(Usable(track), Near(track, v.fence))
    BY <1>3, <2>1, Detected DEF Supported
  <2> QED BY <1>1, <1>3, <2>2 DEF Lasting, Near, Usable
<1>6. DetectAlerts(track) = {}
  BY <1>1, <1>3, AlertsOf DEF Speeding
<1> QED BY <1>1, <1>2, <1>3, <1>4, <1>5, <1>6
        DEF LogInv, CrossingsLogged, AlertsLogged, EventsGrounded

(* What a track shows at an instant, a longer one shows too.                        *)
LEMMA ShownStays ==
  ASSUME NEW points, NEW all, DOMAIN points \subseteq DOMAIN all,
         \A t \in DOMAIN points : all[t] = points[t]
  PROVE  /\ \A f, t : t \in Near(points, f) => t \in Near(all, f)
         /\ \A f, t : t \in Far(points, f) => t \in Far(all, f)
         /\ \A t : Speeding(points, t) => Speeding(all, t)
<1>1. ASSUME NEW t, Speeding(points, t) PROVE Speeding(all, t)
  <2>1. t \in DOMAIN points /\ points[t].accuracy <= SpeedAccuracy
    BY <1>1 DEF Speeding
  <2>2. PICK u \in {Null} \cup {x \in DOMAIN points : x < t} :
          KnowsSpeed(points, t, u) /\ Exceeds(points, t, u)
    BY <1>1 DEF Speeding
  <2>3. all[t] = points[t] /\ u \in {Null} \cup {x \in DOMAIN all : x < t}
    BY <2>1, <2>2
  <2>4. u # Null => all[u] = points[u]
    BY <2>2
  <2>5. KnowsSpeed(all, t, u) /\ Exceeds(all, t, u)
    <3>1. CASE points[t].speed # Null
      BY <2>2, <2>3, <3>1 DEF KnowsSpeed, Exceeds
    <3>2. CASE points[t].speed = Null
      BY <2>2, <2>3, <2>4, <3>2 DEF KnowsSpeed, Exceeds
    <3> QED BY <3>1, <3>2
  <2> QED BY <2>1, <2>3, <2>5 DEF Speeding
<1> QED BY <1>1 DEF Near, Far, Usable

LEMMA Ingests ==
  ASSUME LogInv, NEW batch \in Batches, Ingest(batch)
  PROVE  LogInv'
<1>1. PICK all, computed, crossings, alerts :
        /\ all = Appended(batch) /\ computed = DetectVisits(all, Fence)
        /\ crossings = Crossings(computed) /\ alerts = DetectAlerts(all)
  OBVIOUS
<1>2. PICK new : new = NewAlerts(alerts)
  OBVIOUS
<1>3. track' = all /\ visits' = computed /\ log' = log (+) SetToBag(crossings) (+) SetToBag(new)
  BY <1>1, <1>2, Synced DEF Ingest
<1>4. IsTrack(all)
  BY <1>1, Appending DEF LogInv
<1>5. PICK was, after : was = log /\ after = log'
  OBVIOUS
<1>6. after = was (+) SetToBag(crossings) (+) SetToBag(new)
  BY <1>3, <1>5
<1>7. /\ BagToSet(after) = DOMAIN was \cup crossings \cup new
      /\ \A e \in DOMAIN was : e \notin crossings /\ e \notin new /\ was[e] \in Nat => after[e] = was[e]
      /\ \A e \in new : e \notin DOMAIN was /\ e \notin crossings => after[e] = 1
  BY <1>6, BagsJoin
<1>8. BagToSet(log') = BagToSet(log) \cup crossings \cup new
  BY <1>5, <1>7 DEF BagToSet
<1>9. \A e : BagIn(e, log) => BagIn(e, log')
  BY <1>8 DEF BagIn
<1>10. \A e \in crossings : BagIn(e, log') /\ e.type \in {"GEOFENCE_ENTER", "GEOFENCE_EXIT"}
  BY <1>1, <1>8 DEF BagIn, Crossings, Event
<1>11. \A e \in new : BagIn(e, log') /\ ~BagIn(e, log) /\ e.type = "SPEED_EXCEEDED"
  BY <1>2, <1>8 DEF BagIn, NewAlerts, Event, Logged
<1>12. CrossingsLogged'
  <2> SUFFICES ASSUME NEW v \in computed
               PROVE  /\ BagIn(Event("GEOFENCE_ENTER", v.fence, v.in), log')
                      /\ v.out # Null => \E e \in BagToSet(log') :
                           e.type = "GEOFENCE_EXIT" /\ e.fence = v.fence /\ e.at > v.in
    BY <1>3 DEF CrossingsLogged, Logged
  <2>1. CASE v \in Entered(computed)
    <3>1. Event("GEOFENCE_ENTER", v.fence, v.in) \in crossings
      BY <1>1, <2>1 DEF Crossings
    <3>2. ASSUME v.out # Null PROVE \E e \in crossings :
                           e.type = "GEOFENCE_EXIT" /\ e.fence = v.fence /\ e.at > v.in
      <4>1. v.in < v.out
        BY <1>1, <1>4, <3>2, EndsLater
      <4>2. PICK e : e = Event("GEOFENCE_EXIT", v.fence, v.out)
        OBVIOUS
      <4>3. e \in crossings
        BY <1>1, <2>1, <3>2, <4>2 DEF Crossings
      <4>4. e.type = "GEOFENCE_EXIT" /\ e.fence = v.fence /\ e.at = v.out
        BY <4>2 DEF Event
      <4> QED BY <4>1, <4>3, <4>4
    <3> QED BY <1>8, <1>10, <3>1, <3>2
  <2>2. CASE v \notin Entered(computed)
    <3>1. PICK w \in visits : SameVisit(v, w)
      BY <2>2 DEF Entered
    <3>2. /\ BagIn(Event("GEOFENCE_ENTER", w.fence, w.in), log)
          /\ w.out # Null => \E e \in BagToSet(log) :
               e.type = "GEOFENCE_EXIT" /\ e.fence = w.fence /\ e.at > w.in
      BY <3>1 DEF LogInv, CrossingsLogged, Logged
    <3>3. v.fence = w.fence /\ v.in = w.in
      BY <3>1 DEF SameVisit
    <3>4. CASE v.out # Null /\ w.out = Null
      <4>1. v.in < v.out
        BY <1>1, <1>4, <3>4, EndsLater
      <4>2. PICK e : e = Event("GEOFENCE_EXIT", v.fence, v.out)
        OBVIOUS
      <4>3. v \in NewlyClosed(computed)
        BY <3>1, <3>4 DEF NewlyClosed
      <4>4. e \in crossings
        BY <1>1, <4>2, <4>3 DEF Crossings
      <4>5. e.type = "GEOFENCE_EXIT" /\ e.fence = v.fence /\ e.at = v.out
        BY <4>2 DEF Event
      <4> QED BY <1>8, <1>9, <3>2, <3>3, <4>1, <4>4, <4>5
    <3>5. CASE ~(v.out # Null /\ w.out = Null)
      BY <1>8, <1>9, <3>2, <3>3, <3>5
    <3> QED BY <3>4, <3>5
  <2> QED BY <2>1, <2>2
<1>13. AlertsLogged'
  <2>1. \A a \in alerts : BagIn(Event("SPEED_EXCEEDED", Null, a.from), log')
    BY <1>2, <1>9, <1>11 DEF NewAlerts, Logged
  <2>2. ASSUME NEW e \in BagToSet(log'), e.type = "SPEED_EXCEEDED" PROVE log'[e] = 1
    <3>1. e \notin crossings
      BY <1>10, <2>2
    <3>2. CASE e \in new
      <4>1. e \notin DOMAIN log
        BY <1>11, <3>2 DEF BagIn, BagToSet
      <4> QED BY <1>5, <1>7, <3>1, <3>2, <4>1
    <3>3. CASE e \notin new
      <4>1. e \in BagToSet(log)
        BY <1>8, <2>2, <3>1, <3>3
      <4>2. log[e] = 1 /\ e \in DOMAIN log
        BY <2>2, <4>1 DEF LogInv, AlertsLogged, BagToSet
      <4> QED BY <1>5, <1>7, <3>1, <3>3, <4>2
    <3> QED BY <3>2, <3>3
  <2>3. \A a, b \in alerts :
          /\ a.to - a.from >= MinSustained
          /\ a.from < b.from => b.from - a.to >= Cooldown
    BY <1>1, <1>4, AlertsOf DEF Apart
  <2> QED BY <1>1, <1>3, <2>1, <2>2, <2>3 DEF AlertsLogged, Logged
<1>14. EventsGrounded'
  <2>1. DOMAIN track \subseteq DOMAIN all /\ \A t \in DOMAIN track : all[t] = track[t]
    BY <1>1 DEF Appended
  <2>2. ASSUME NEW v \in computed
        PROVE  v.in \in Near(all, v.fence) /\ (v.out # Null => v.out \in Far(all, v.fence))
    <3>1. v.fence \in Fence /\ v \in Rows(computed, v.fence)
      BY <1>1, FencesKnown DEF Rows
    <3> QED BY <1>1, <1>4, <3>1, Detected DEF Supported, Lasting
  <2>3. ASSUME NEW e \in crossings
        PROVE  \/ e.type = "GEOFENCE_ENTER" /\ e.at \in Near(all, e.fence)
               \/ e.type = "GEOFENCE_EXIT" /\ e.at \in Far(all, e.fence)
    <3>1. CASE e \in {Event("GEOFENCE_ENTER", v.fence, v.in) : v \in Entered(computed)}
      <4>1. PICK v \in Entered(computed) : e = Event("GEOFENCE_ENTER", v.fence, v.in)
        BY <3>1
      <4> QED BY <2>2, <4>1 DEF Event, Entered
    <3>2. CASE e \in {Event("GEOFENCE_EXIT", v.fence, v.out) :
                        v \in NewlyClosed(computed) \cup {w \in Entered(computed) : w.out # Null}}
      <4>1. PICK v \in NewlyClosed(computed) \cup {w \in Entered(computed) : w.out # Null} :
              e = Event("GEOFENCE_EXIT", v.fence, v.out)
        BY <3>2
      <4>2. v \in computed /\ v.out # Null
        BY <4>1 DEF NewlyClosed, Entered
      <4> QED BY <2>2, <4>1, <4>2 DEF Event
    <3> QED BY <1>1, <2>3, <3>1, <3>2 DEF Crossings
  <2>4. ASSUME NEW e \in new PROVE e.type = "SPEED_EXCEEDED" /\ Speeding(all, e.at)
    <3>1. PICK a \in alerts : e = Event("SPEED_EXCEEDED", Null, a.from)
      BY <1>2, <2>4 DEF NewAlerts
    <3>2. Speeding(all, a.from)
      BY <1>1, <1>4, AlertsOf
    <3> QED BY <3>1, <3>2 DEF Event
  <2>5. ASSUME NEW e \in BagToSet(log)
        PROVE  \/ e.type = "GEOFENCE_ENTER" /\ e.at \in Near(all, e.fence)
               \/ e.type = "GEOFENCE_EXIT" /\ e.at \in Far(all, e.fence)
               \/ e.type = "SPEED_EXCEEDED" /\ Speeding(all, e.at)
    <3>1. \/ e.type = "GEOFENCE_ENTER" /\ e.at \in Near(track, e.fence)
          \/ e.type = "GEOFENCE_EXIT" /\ e.at \in Far(track, e.fence)
          \/ e.type = "SPEED_EXCEEDED" /\ Speeding(track, e.at)
      BY <2>5 DEF LogInv, EventsGrounded, Within, Beyond, Near, Far
    <3> QED BY <2>1, <3>1, ShownStays
  <2>6. \A f, t : /\ (t \in Near(all, f)) = (t \in Within(f)')
                  /\ (t \in Far(all, f)) = (t \in Beyond(f)')
    BY <1>3 DEF Within, Beyond, Near, Far
  <2> QED BY <1>3, <1>8, <2>3, <2>4, <2>5, <2>6 DEF EventsGrounded
<1> QED BY <1>1, <1>3, <1>4, <1>12, <1>13, <1>14 DEF LogInv

LEMMA LogInductive == LogInv /\ [Next]_vars => LogInv'
<1> SUFFICES ASSUME LogInv, [Next]_vars PROVE LogInv'
  OBVIOUS
<1>1. ASSUME UNCHANGED <<track, visits, log>> PROVE LogInv'
  BY <1>1 DEF LogInv, CrossingsLogged, AlertsLogged, EventsGrounded, Within, Beyond, Logged
<1>2. ASSUME NEW at \in TripTimes, StartTrip(at) \/ EndTrip(at) PROVE LogInv'
  BY <1>1, <1>2 DEF StartTrip, EndTrip
<1>3. CASE UNCHANGED vars
  BY <1>1, <1>3 DEF vars
<1> QED BY <1>2, <1>3, Ingests DEF Next

LEMMA AlwaysLogged == Spec => []LogInv
BY LogInitial, LogInductive, PTL DEF Spec

(* In whatever order and batches the phone delivers its points: the visits on record are    *)
(* those the points support, each one's arrival and end and the start of each speeding     *)
(* stretch have been logged, no start twice, and every event is dated at a stored fix        *)
(* that shows it.  A visit or a start that later points took back keeps its event.          *)
THEOREM OfficeReadsThePoints == Spec => []LogHonest
<1>1. LogInv => VisitsSupported
  <2> SUFFICES ASSUME LogInv PROVE VisitsSupported
    OBVIOUS
  <2>1. ASSUME NEW f \in Fence
        PROVE  /\ Supported(track, f, {v \in visits : v.fence = f})
               /\ Sustained(Within(f)) = Lasting(Usable(track), Near(track, f))
               /\ Sustained(Beyond(f)) = Lasting(Usable(track), Far(track, f))
    BY <2>1, Detected DEF LogInv, Rows, Sustained, Lasting, Near, Within, Far, Beyond
  <2> QED BY <2>1 DEF VisitsSupported, Supported, Covers
<1>2. LogInv => LogHonest
  BY <1>1 DEF LogInv, LogHonest
<1> QED BY <1>2, AlwaysLogged, PTL

---------------------------------------------------------------------------
LEMMA OneFewer ==
  ASSUME NEW S, IsFiniteSet(S), NEW s \in SUBSET S, NEW x \in s
  PROVE  /\ x \in S /\ s \ {x} \in SUBSET S
         /\ Cardinality(s) \in Nat /\ Cardinality(s \ {x}) = Cardinality(s) - 1
<1>1. IsFiniteSet(s)
  BY FS_Subset
<1> QED BY <1>1, FS_RemoveElement, FS_CardinalityType

(* g folds every subset of S: step takes the element pick takes from it to what the    *)
(* others gave.                                                                     *)
Picked(g, S, pick, step, base) ==
  \A s \in SUBSET S : g[s] = IF s = {} THEN base ELSE step[<<pick[s], g[s \ {pick[s]}]>>]

LEMMA FoldExists ==
  ASSUME NEW S, IsFiniteSet(S), NEW T, NEW base \in T, NEW step \in [S \X T -> T],
         NEW pick, \A s \in SUBSET S : s # {} => pick[s] \in s
  PROVE  \E g \in [SUBSET S -> T] : Picked(g, S, pick, step, base)
<1>1. PICK A : A = [SUBSET S -> T]
  OBVIOUS
<1>2. PICK n \in Nat : n = Cardinality(S)
  BY FS_CardinalityType
<1>3. PICK all : all = [p \in (1 .. n + 1) \X A |->
        [s \in SUBSET S |-> IF s = {} THEN base ELSE step[<<pick[s], p[2][s \ {pick[s]}]>>]]]
  OBVIOUS
<1>4. all \in [(1 .. n + 1) \X A -> A]
  <2>1. ASSUME NEW p \in (1 .. n + 1) \X A, NEW s \in SUBSET S
        PROVE  (IF s = {} THEN base ELSE step[<<pick[s], p[2][s \ {pick[s]}]>>]) \in T
    <3>1. CASE s # {}
      <4>1. pick[s] \in S /\ s \ {pick[s]} \in SUBSET S
        BY <3>1
      <4>2. p[2] \in [SUBSET S -> T]
        BY <1>1
      <4>3. p[2][s \ {pick[s]}] \in T
        BY <4>1, <4>2
      <4>4. <<pick[s], p[2][s \ {pick[s]}]>> \in S \X T
        BY <4>1, <4>3
      <4> QED BY <3>1, <4>4
    <3> QED BY <3>1
  <2>2. ASSUME NEW p \in (1 .. n + 1) \X A
        PROVE  [s \in SUBSET S |-> IF s = {} THEN base ELSE step[<<pick[s], p[2][s \ {pick[s]}]>>]] \in A
    BY <1>1, <2>1
  <2> QED BY <1>3, <2>2
<1>5. PICK first \in A : first = [s \in SUBSET S |-> base]
  BY <1>1
<1>6. PICK h \in [0 .. n + 1 -> A] : Iterates(h, first, all, n + 1)
  <2>1. PICK m \in Nat : m = n + 1
    OBVIOUS
  <2>2. \E h \in [0 .. m -> A] : Iterates(h, first, all, m)
    BY <1>4, <2>1, Recursion
  <2> QED BY <2>1, <2>2
<1>7. ASSUME NEW i \in 0 .. n, NEW s \in SUBSET S
      PROVE  h[i + 1][s] = IF s = {} THEN base ELSE step[<<pick[s], h[i][s \ {pick[s]}]>>]
  <2>1. PICK j \in 1 .. n + 1 : j = i + 1 /\ j - 1 = i
    OBVIOUS
  <2>2. PICK g \in A : g = h[i]
    BY <1>6
  <2>3. <<j, g>> \in (1 .. n + 1) \X A
    OBVIOUS
  <2>4. h[j] = all[<<j, g>>]
    BY <1>6, <2>1, <2>2 DEF Iterates
  <2>5. h[j] = [x \in SUBSET S |-> IF x = {} THEN base ELSE step[<<pick[x], g[x \ {pick[x]}]>>]]
    BY <1>3, <2>3, <2>4
  <2> QED BY <2>1, <2>2, <2>5
<1>8. PICK M : M = {m \in Nat : m <= n =>
                      \A s \in SUBSET S : Cardinality(s) <= m => h[m + 1][s] = h[m][s]}
  OBVIOUS
<1>9. 0 \in M
  <2>1. ASSUME NEW s \in SUBSET S, Cardinality(s) <= 0 PROVE s = {}
    <3>1. IsFiniteSet(s)
      BY FS_Subset
    <3>2. Cardinality(s) \in Nat
      BY <3>1, FS_CardinalityType
    <3> QED BY <2>1, <3>1, <3>2, FS_EmptySet
  <2>2. h[0] = first
    BY <1>6 DEF Iterates
  <2>3. {} \in SUBSET S /\ first[{}] = base
    BY <1>5
  <2>4. h[0 + 1][{}] = base
    <3>1. PICK i \in 0 .. n : i = 0
      OBVIOUS
    <3>2. PICK e \in SUBSET S : e = {}
      OBVIOUS
    <3>3. h[i + 1][e] = IF e = {} THEN base ELSE step[<<pick[e], h[i][e \ {pick[e]}]>>]
      BY <1>7
    <3> QED BY <3>1, <3>2, <3>3
  <2> QED BY <1>8, <2>1, <2>2, <2>3, <2>4
<1>10. ASSUME NEW m \in Nat, m \in M PROVE m + 1 \in M
  <2> SUFFICES ASSUME m + 1 <= n, NEW s \in SUBSET S, Cardinality(s) <= m + 1
               PROVE  h[(m + 1) + 1][s] = h[m + 1][s]
    BY <1>8
  <2>1. m + 1 \in 0 .. n /\ m \in 0 .. n /\ m <= n
    OBVIOUS
  <2>2. h[(m + 1) + 1][s] = IF s = {} THEN base ELSE step[<<pick[s], h[m + 1][s \ {pick[s]}]>>]
    BY <1>7, <2>1
  <2>3. h[m + 1][s] = IF s = {} THEN base ELSE step[<<pick[s], h[m][s \ {pick[s]}]>>]
    BY <1>7, <2>1
  <2>4. CASE s # {}
    <3>1. PICK t \in SUBSET S : t = s \ {pick[s]}
      OBVIOUS
    <3>2. Cardinality(t) <= m
      <4>1. PICK x \in s : x = pick[s]
        BY <2>4
      <4>2. Cardinality(s) \in Nat /\ Cardinality(s \ {x}) = Cardinality(s) - 1
        BY OneFewer
      <4> QED BY <3>1, <4>1, <4>2
    <3>3. h[m + 1][t] = h[m][t]
      BY <1>8, <1>10, <2>1, <3>2
    <3> QED BY <2>2, <2>3, <3>1, <3>3
  <2> QED BY <2>2, <2>3, <2>4
<1>11. n \in M
  BY <1>9, <1>10, Induction
<1>12. PICK g \in A : g = h[n]
  BY <1>6
<1>13. ASSUME NEW s \in SUBSET S
       PROVE  g[s] = IF s = {} THEN base ELSE step[<<pick[s], g[s \ {pick[s]}]>>]
  <2>1. Cardinality(s) <= n
    BY <1>2, FS_Subset
  <2>2. h[n + 1][s] = h[n][s]
    BY <1>8, <1>11, <2>1
  <2>3. n \in 0 .. n
    OBVIOUS
  <2> QED BY <1>7, <1>12, <2>2, <2>3
<1> QED BY <1>1, <1>12, <1>13 DEF Picked

LEMMA MaxOfCount ==
  ASSUME NEW n \in Nat
  PROVE  /\ \A s \in SUBSET (1 .. n) : s # {} => Max(s) \in s
         /\ \A i \in 1 .. n : Max(1 .. i) = i /\ (1 .. i) \ {i} = 1 .. i - 1
<1>1. ASSUME NEW s \in SUBSET (1 .. n), s # {} PROVE Max(s) \in s
  <2>1. PICK T : T = {n - x : x \in s}
    OBVIOUS
  <2>2. \A x \in s : x \in Int /\ 1 <= x /\ x <= n
    OBVIOUS
  <2>3. T \subseteq Nat
    BY <2>1, <2>2
  <2> T # {}
    BY <1>1, <2>1
  <2>4. PICK m \in T : \A k \in T : m <= k
    BY <2>3, Least
  <2>5. PICK x \in s : m = n - x
    BY <2>1, <2>4
  <2>6. ASSUME NEW y \in s PROVE x >= y
    <3>1. n - y \in T
      BY <2>1
    <3>2. m <= n - y
      BY <2>4, <3>1
    <3> QED BY <2>2, <2>5, <3>2
  <2>7. \E z \in s : \A y \in s : z >= y
    BY <2>6
  <2> QED BY <2>7 DEF Max
<1>2. ASSUME NEW i \in 1 .. n PROVE Max(1 .. i) = i /\ (1 .. i) \ {i} = 1 .. i - 1
  <2>1. i \in 1 .. i /\ \A y \in 1 .. i : i >= y
    OBVIOUS
  <2>2. Max(1 .. i) \in 1 .. i /\ \A y \in 1 .. i : Max(1 .. i) >= y
    BY <2>1 DEF Max
  <2> QED BY <2>1, <2>2
<1> QED BY <1>1, <1>2

First(s) == CHOOSE x \in s : TRUE
(* add is the sum of w over every subset of S, one element after the other.              *)
AddsUp(add, S, w) ==
  \A s \in SUBSET S : add[s] = IF s = {} THEN 0 ELSE w[First(s)] + add[s \ {First(s)}]

LEMMA Taken ==
  ASSUME NEW S, IsFiniteSet(S), NEW s \in SUBSET S, s # {}
  PROVE  /\ First(s) \in s /\ First(s) \in S /\ s \ {First(s)} \in SUBSET S
         /\ Cardinality(s) \in Nat /\ Cardinality(s \ {First(s)}) = Cardinality(s) - 1
         /\ IsFiniteSet(s)
<1>1. First(s) \in s
  BY DEF First
<1>2. IsFiniteSet(s)
  BY FS_Subset
<1> QED BY <1>1, <1>2, FS_RemoveElement, FS_CardinalityType

LEMMA SumExists ==
  ASSUME NEW S, IsFiniteSet(S), NEW w \in [S -> Nat]
  PROVE  \E add \in [SUBSET S -> Nat] : AddsUp(add, S, w)
<1>1. PICK step \in [S \X Nat -> Nat] : step = [p \in S \X Nat |-> w[p[1]] + p[2]]
  <2>1. PICK step : step = [p \in S \X Nat |-> w[p[1]] + p[2]]
    OBVIOUS
  <2>2. \A p \in S \X Nat : w[p[1]] + p[2] \in Nat
    OBVIOUS
  <2> QED BY <2>1, <2>2
<1>2. PICK pick : pick = [s \in SUBSET S |-> First(s)]
  OBVIOUS
<1>3. \A s \in SUBSET S : s # {} => pick[s] \in s
  BY <1>2, Taken
<1>4. 0 \in Nat
  OBVIOUS
<1>5. PICK add \in [SUBSET S -> Nat] : Picked(add, S, pick, step, 0)
  BY <1>3, <1>4, FoldExists
<1>6. ASSUME NEW s \in SUBSET S, s # {} PROVE add[s] = w[First(s)] + add[s \ {First(s)}]
  <2>1. PICK x \in S : x = First(s) /\ x = pick[s]
    BY <1>2, <1>6, Taken
  <2>2. PICK rest \in Nat : rest = add[s \ {x}]
    BY <1>5
  <2>3. add[s] = step[<<x, rest>>]
    BY <1>5, <1>6, <2>1, <2>2 DEF Picked
  <2>4. <<x, rest>> \in S \X Nat
    OBVIOUS
  <2>5. step[<<x, rest>>] = w[x] + rest
    BY <1>1, <2>4
  <2> QED BY <2>1, <2>2, <2>3, <2>5
<1>7. add[{}] = 0
  BY <1>5 DEF Picked
<1> QED BY <1>5, <1>6, <1>7 DEF AddsUp

Totals(points, T, add) == MapThenSumSet(LAMBDA s : Length(points, s), T) = add[T]

(* MapThenSumSet adds up the lengths of the steps.                                   *)
LEMMA LengthsSummed ==
  ASSUME NEW points, NEW T, IsFiniteSet(T), \A s \in T : Length(points, s) \in Nat
  PROVE  \E w \in [T -> Nat] : /\ w = [s \in T |-> Length(points, s)]
                               /\ \E add : AddsUp(add, T, w) /\ Totals(points, T, add)
<1>1. PICK w : w = [s \in T |-> Length(points, s)]
  OBVIOUS
<1>2. w \in [T -> Nat]
  BY <1>1
<1>3. PICK g \in [SUBSET T -> Nat] : AddsUp(g, T, w)
  BY <1>2, SumExists
<1>4. \A s \in SUBSET T : s # {} => w[First(s)] = Length(points, First(s))
  BY <1>1, Taken
<1>5. g = [s \in SUBSET T |-> IF s = {} THEN 0 ELSE Length(points, First(s)) + g[s \ {First(s)}]]
  <2>1. \A s \in SUBSET T : g[s] = IF s = {} THEN 0 ELSE Length(points, First(s)) + g[s \ {First(s)}]
    BY <1>3, <1>4 DEF AddsUp
  <2> QED BY <2>1
<1>6. PICK add : add = CHOOSE k : k = [s \in SUBSET T |->
                     IF s = {} THEN 0 ELSE Length(points, First(s)) + k[s \ {First(s)}]]
  OBVIOUS
<1>7. add = [s \in SUBSET T |-> IF s = {} THEN 0 ELSE Length(points, First(s)) + add[s \ {First(s)}]]
  BY <1>5, <1>6
<1>8. AddsUp(add, T, w)
  BY <1>4, <1>7 DEF AddsUp
<1>9. Totals(points, T, add)
  BY <1>6 DEF Totals, MapThenSumSet, MapThenFoldSet, First
<1> QED BY <1>1, <1>2, <1>8, <1>9

---------------------------------------------------------------------------
LEMMA MinOf ==
  ASSUME NEW S, S \subseteq Time, S # {}
  PROVE  Min(S) \in S /\ \A y \in S : Min(S) <= y
<1>1. S \subseteq Nat
  BY Constants DEF Time
<1>2. \E x \in S : \A y \in S : x <= y
  BY <1>1, Least
<1> QED BY <1>2 DEF Min

LEMMA MaxOf ==
  ASSUME NEW S, S \subseteq Time, S # {}
  PROVE  Max(S) \in S /\ \A y \in S : y <= Max(S)
<1>1. PICK T : T = {MaxTime - x : x \in S}
  OBVIOUS
<1>2. \A x \in S : x \in Int /\ 0 <= x /\ x <= MaxTime
  BY Constants DEF Time
<1>3. T \subseteq Nat /\ T # {}
  BY <1>1, <1>2, Constants
<1>4. PICK m \in T : \A n \in T : m <= n
  BY <1>3, Least
<1>5. PICK x \in S : m = MaxTime - x
  BY <1>1, <1>4
<1>6. ASSUME NEW y \in S PROVE x >= y
  <2>1. MaxTime - y \in T
    BY <1>1
  <2>2. m <= MaxTime - y
    BY <1>4, <2>1
  <2> QED BY <1>2, <1>5, <2>2, Constants
<1>7. \E z \in S : \A y \in S : z >= y
  BY <1>6
<1>8. Max(S) \in S /\ \A y \in S : Max(S) >= y
  BY <1>7 DEF Max
<1> QED BY <1>2, <1>8

(* Two steps of a set of instants are apart.                                        *)
LEMMA StepsApart ==
  ASSUME NEW S, S \subseteq Time, NEW s \in Steps(S), NEW x \in Steps(S)
  PROVE  /\ s[1] \in S /\ s[2] \in S /\ s[1] < s[2] /\ s[1] \in Int /\ s[2] \in Int
         /\ s = <<s[1], s[2]>>
         /\ s # x => s[2] <= x[1] \/ x[2] <= s[1]
<1>1. \A u \in S : u \in Int
  BY Constants DEF Time
<1>2. /\ s \in S \X S /\ s[1] < s[2] /\ \A u \in S : u <= s[1] \/ u >= s[2]
      /\ x \in S \X S /\ x[1] < x[2] /\ \A u \in S : u <= x[1] \/ u >= x[2]
  BY DEF Steps
<1>3. s[1] \in S /\ s[2] \in S /\ x[1] \in S /\ x[2] \in S
  BY <1>2
<1>4. s = <<s[1], s[2]>> /\ x = <<x[1], x[2]>>
  BY <1>2
<1>5. s[1] = x[1] /\ s[2] = x[2] => s = x
  BY <1>4
<1> QED BY <1>1, <1>2, <1>3, <1>4, <1>5

LEMMA Lengths ==
  ASSUME NEW points, IsTrack(points), NEW s \in Steps(Usable(points))
  PROVE  Length(points, s) \in Nat /\ Span(s) \in Nat /\ Span(s) >= 1
<1>1. Usable(points) \subseteq Time /\ \A t \in Usable(points) : points[t].pos \in Int
  BY DEF IsTrack, Fix, Usable
<1>2. s[1] \in Usable(points) /\ s[2] \in Usable(points) /\ s[1] < s[2] /\ s[1] \in Int /\ s[2] \in Int
  BY <1>1, StepsApart
<1>3. PICK a, b : a = s[1] /\ b = s[2]
  OBVIOUS
<1>4. PICK p, q : p = points[a].pos /\ q = points[b].pos
  OBVIOUS
<1>5. p \in Int /\ q \in Int
  BY <1>1, <1>2, <1>3, <1>4
<1>6. Dist(p, q) \in Nat
  BY <1>5 DEF Dist
<1>7. Length(points, s) = Dist(p, q)
  BY <1>3, <1>4 DEF Length
<1>8. Span(s) = b - a /\ a \in Int /\ b \in Int /\ a < b
  BY <1>2, <1>3 DEF Span
<1> QED BY <1>6, <1>7, <1>8

Covered(T) == {u \in Time : \E s \in T : s[1] <= u /\ u < s[2]}

LEMMA CoveredFinite ==
  ASSUME NEW T PROVE IsFiniteSet(Covered(T)) /\ Cardinality(Covered(T)) \in Nat
<1>1. IsFiniteSet(0 .. MaxTime)
  BY Constants, FS_Interval
<1>2. Covered(T) \in SUBSET (0 .. MaxTime)
  BY DEF Covered, Time
<1> QED BY <1>1, <1>2, FS_Subset, FS_CardinalityType

(* One step more covers its span more.                                              *)
LEMMA CoversMore ==
  ASSUME NEW S, S \subseteq Time, NEW T \in SUBSET Steps(S), NEW x \in T
  PROVE  Cardinality(Covered(T)) = Cardinality(Covered(T \ {x})) + Span(x)
<1>1. PICK a, b : a = x[1] /\ b = x[2]
  OBVIOUS
<1>2. a \in Time /\ b \in Time /\ a < b /\ a \in Int /\ b \in Int /\ Span(x) = b - a
  BY <1>1, StepsApart DEF Span
<1>3. PICK old, new, all : /\ old = Covered(T \ {x}) /\ new = a .. b - 1 /\ all = Covered(T)
  OBVIOUS
<1>4. new \subseteq Time
  BY <1>2, <1>3, Constants DEF Time
<1>5. \A u \in new : a <= u /\ u < b
  BY <1>2, <1>3
<1>6. \A u \in Time : a <= u /\ u < b => u \in new
  BY <1>2, <1>3, Constants DEF Time
<1>7. all = old \cup new
  BY <1>1, <1>3, <1>4, <1>5, <1>6 DEF Covered
<1>8. old \cap new = {}
  <2> SUFFICES ASSUME NEW u \in old, u \in new PROVE FALSE
    OBVIOUS
  <2>1. PICK s \in T \ {x} : s[1] <= u /\ u < s[2]
    BY <1>3 DEF Covered
  <2>2. u \in Int /\ a <= u /\ u < b
    BY <1>3, <1>5
  <2>3. s[1] \in Int /\ s[2] \in Int /\ (s[2] <= a \/ b <= s[1])
    BY <1>1, <2>1, StepsApart
  <2> QED BY <1>2, <2>1, <2>2, <2>3
<1>9. IsFiniteSet(new) /\ Cardinality(new) = b - a
  BY <1>2, <1>3, FS_Interval
<1>10. IsFiniteSet(old) /\ Cardinality(old) \in Nat
  BY <1>3, CoveredFinite
<1>11. Cardinality(old \cap new) = 0
  BY <1>8, FS_EmptySet
<1>12. Cardinality(all) = Cardinality(old) + Cardinality(new) - Cardinality(old \cap new)
  BY <1>7, <1>9, <1>10, FS_Union
<1> QED BY <1>2, <1>3, <1>9, <1>10, <1>11, <1>12

LEMMA Times ==
  ASSUME NEW m \in Nat, NEW a \in Nat, NEW b \in Nat
  PROVE  m * (a + b) = m * a + m * b /\ m * a \in Nat /\ (a <= b => m * a <= m * b)
OBVIOUS

LEMMA DistanceBounded ==
  ASSUME NEW points, IsTrack(points), Usable(points) # {}
  PROVE  Distance(points) <= MaxSpeed * (Max(Usable(points)) - Min(Usable(points)))
<1>1. PICK S, T, first, last : /\ S = Usable(points) /\ T = Travelled(points)
                               /\ first = Min(S) /\ last = Max(S)
  OBVIOUS
<1>2. S \subseteq Time /\ S # {} /\ T \in SUBSET Steps(S)
  BY <1>1 DEF IsTrack, Usable, Travelled
<1>3. first \in S /\ last \in S /\ \A u \in S : first <= u /\ u <= last
  BY <1>1, <1>2, MinOf, MaxOf
<1>4. IsFiniteSet(T)
  <2>1. IsFiniteSet(0 .. MaxTime)
    BY Constants, FS_Interval
  <2>2. IsFiniteSet((0 .. MaxTime) \X (0 .. MaxTime))
    BY <2>1, FS_Product
  <2>3. T \in SUBSET ((0 .. MaxTime) \X (0 .. MaxTime))
    BY <1>2 DEF Steps, Time
  <2> QED BY <2>2, <2>3, FS_Subset
<1>5. \A s \in T : /\ Length(points, s) \in Nat /\ Span(s) \in Nat
                   /\ Length(points, s) <= MaxSpeed * Span(s)
  <2> SUFFICES ASSUME NEW s \in T
               PROVE  /\ Length(points, s) \in Nat /\ Span(s) \in Nat
                      /\ Length(points, s) <= MaxSpeed * Span(s)
    OBVIOUS
  <2>0. s \in Steps(Usable(points))
    BY <1>1, <1>2
  <2>1. Length(points, s) \in Nat /\ Span(s) \in Nat
    BY <2>0, Lengths
  <2>2. ~(Length(points, s) > MaxSpeed * Span(s))
    BY <1>1 DEF Travelled, Teleports
  <2>3. MaxSpeed * Span(s) \in Nat
    BY <2>1, Constants, Times
  <2> QED BY <2>1, <2>2, <2>3
<1>6. \A s \in T : Length(points, s) \in Nat
  BY <1>5
<1>7. PICK w \in [T -> Nat] : /\ w = [s \in T |-> Length(points, s)]
                              /\ \E add : AddsUp(add, T, w) /\ Totals(points, T, add)
  BY <1>4, <1>6, LengthsSummed
<1>8. PICK add : AddsUp(add, T, w) /\ Totals(points, T, add)
  BY <1>7
<1>9. PICK M : M = {m \in Nat : \A s \in SUBSET T : Cardinality(s) = m =>
                      add[s] \in Nat /\ add[s] <= MaxSpeed * Cardinality(Covered(s))}
  OBVIOUS
<1>10. 0 \in M
  <2> SUFFICES ASSUME NEW s \in SUBSET T, Cardinality(s) = 0
               PROVE  add[s] \in Nat /\ add[s] <= MaxSpeed * Cardinality(Covered(s))
    BY <1>9
  <2>1. s = {}
    BY <1>4, FS_Subset, FS_EmptySet
  <2>2. add[s] = 0
    BY <1>8, <2>1 DEF AddsUp
  <2>3. Cardinality(Covered(s)) \in Nat
    BY CoveredFinite
  <2> QED BY <2>2, <2>3, Constants, Times
<1>11. ASSUME NEW m \in Nat, m \in M PROVE m + 1 \in M
  <2> SUFFICES ASSUME NEW s \in SUBSET T, Cardinality(s) = m + 1
               PROVE  add[s] \in Nat /\ add[s] <= MaxSpeed * Cardinality(Covered(s))
    BY <1>9
  <2>1. s # {}
    BY FS_EmptySet
  <2>2. PICK x \in s : x = First(s)
    BY <1>4, <2>1, Taken
  <2>3. PICK t \in SUBSET T : t = s \ {x}
    OBVIOUS
  <2>4. Cardinality(t) = m
    BY <1>4, <2>1, <2>2, <2>3, Taken
  <2>5. add[t] \in Nat /\ add[t] <= MaxSpeed * Cardinality(Covered(t))
    BY <1>9, <1>11, <2>4
  <2>6. add[s] = Length(points, x) + add[t]
    BY <1>7, <1>8, <2>1, <2>2, <2>3 DEF AddsUp
  <2>7. Cardinality(Covered(s)) = Cardinality(Covered(t)) + Span(x)
    BY <1>2, <2>2, <2>3, CoversMore
  <2>8. PICK c \in Nat, y \in Nat : c = Cardinality(Covered(t)) /\ y = Span(x)
    BY <1>5, <2>2, CoveredFinite
  <2>9. MaxSpeed * (c + y) = MaxSpeed * c + MaxSpeed * y /\ MaxSpeed * c \in Nat /\ MaxSpeed * y \in Nat
    BY <2>8, Constants, Times
  <2>10. Length(points, x) \in Nat /\ Length(points, x) <= MaxSpeed * y
    BY <1>5, <2>2, <2>8
  <2> QED BY <2>5, <2>6, <2>7, <2>8, <2>9, <2>10
<1>12. PICK m \in Nat : m = Cardinality(T)
  BY <1>4, FS_CardinalityType
<1>13. m \in M
  BY <1>10, <1>11, Induction
<1>14. add[T] \in Nat /\ add[T] <= MaxSpeed * Cardinality(Covered(T))
  BY <1>9, <1>12, <1>13
<1>15. Cardinality(Covered(T)) <= last - first /\ last - first \in Nat
  <2>1. first \in Int /\ last \in Int /\ first <= last
    BY <1>2, <1>3, Constants DEF Time
  <2>2. Covered(T) \in SUBSET (first .. last - 1)
    <3> SUFFICES ASSUME NEW u \in Covered(T) PROVE u \in first .. last - 1
      OBVIOUS
    <3>1. PICK s \in T : s[1] <= u /\ u < s[2]
      BY DEF Covered
    <3>2. s[1] \in S /\ s[2] \in S /\ s[1] \in Int /\ s[2] \in Int
      BY <1>2, StepsApart
    <3>3. u \in Int
      BY Constants DEF Covered, Time
    <3>4. first <= s[1] /\ s[2] <= last
      BY <1>3, <3>2
    <3> QED BY <2>1, <3>1, <3>2, <3>3, <3>4
  <2>3. IsFiniteSet(first .. last - 1) /\ Cardinality(first .. last - 1) = last - first
    BY <2>1, FS_Interval
  <2> QED BY <2>1, <2>2, <2>3, FS_Subset
<1>16. PICK c \in Nat, d \in Nat : c = Cardinality(Covered(T)) /\ d = last - first
  BY <1>15, CoveredFinite
<1>17. MaxSpeed * c <= MaxSpeed * d /\ MaxSpeed * c \in Nat /\ MaxSpeed * d \in Nat
  BY <1>15, <1>16, Constants, Times
<1>18. add[T] <= MaxSpeed * d
  BY <1>14, <1>16, <1>17
<1>19. Distance(points) = add[T]
  BY <1>1, <1>8 DEF Distance, Totals
<1> QED BY <1>1, <1>16, <1>18, <1>19

---------------------------------------------------------------------------
(* Stops: the usable point before another, and the anchor a point takes after it.     *)
Before(S, t) == Max({u \in S : u < t})
Takes(points, t, a) ==
  IF Dist(points[a].pos, points[t].pos) > StopRadius \/ t - Before(Usable(points), t) > MaxGap
    THEN t ELSE a
Anchors(points, of) ==
  \A t \in Usable(points) :
    of[t] = IF t = Min(Usable(points)) THEN t
            ELSE Takes(points, t, of[Before(Usable(points), t)])

LEMMA Neighbour ==
  ASSUME NEW S, S \subseteq Time, NEW t \in S
  PROVE  /\ t \in Nat /\ t <= MaxTime
         /\ (\A u \in S : t <= u) => t = Min(S)
         /\ t # Min(S) => /\ Before(S, t) \in S /\ Before(S, t) < t
                          /\ \A u \in S : u <= Before(S, t) \/ u >= t
         /\ \A p \in S : p < t /\ (\A u \in S : u <= p \/ u >= t)
                         => t # Min(S) /\ Before(S, t) = p
<1>1. \A u \in S : u \in Nat /\ u <= MaxTime
  BY Constants DEF Time
<1>2. PICK m \in S : m = Min(S) /\ \A u \in S : m <= u
  BY MinOf
<1>3. PICK T : T = {u \in S : u < t}
  OBVIOUS
<1>4. T \subseteq Time /\ T \subseteq S
  BY <1>3
<1>5. Before(S, t) = Max(T)
  BY <1>3 DEF Before
<1>6. T # {} => Max(T) \in T /\ \A u \in T : u <= Max(T)
  BY <1>4, MaxOf
<1>7. (\A u \in S : t <= u) => t = m
  BY <1>1, <1>2
<1>8. ASSUME t # m
      PROVE  Max(T) \in S /\ Max(T) < t /\ \A u \in S : u <= Max(T) \/ u >= t
  <2>1. m \in T
    BY <1>1, <1>2, <1>3, <1>8
  <2>2. Max(T) \in T /\ \A u \in T : u <= Max(T)
    BY <1>6, <2>1
  <2>3. \A u \in S : u \in T \/ u >= t
    BY <1>1, <1>3
  <2> QED BY <1>3, <2>2, <2>3
<1>9. ASSUME NEW p \in S, p < t, \A u \in S : u <= p \/ u >= t
      PROVE  t # m /\ Max(T) = p
  <2>1. p \in T
    BY <1>3, <1>9
  <2>2. PICK x : x = Max(T)
    OBVIOUS
  <2>3. x \in T /\ p <= x
    BY <1>6, <2>1, <2>2
  <2>4. x \in S /\ x < t /\ x \in Nat /\ p \in Nat /\ t \in Nat
    BY <1>1, <1>3, <2>3
  <2>5. x <= p
    BY <1>9, <2>4
  <2>6. t # m
    BY <1>1, <1>2, <1>9
  <2> QED BY <2>2, <2>3, <2>4, <2>5, <2>6
<1> QED BY <1>1, <1>2, <1>5, <1>7, <1>8, <1>9

(* The anchors detectStops hands from point to point exist.                          *)
LEMMA AnchorsExist ==
  ASSUME NEW points, IsTrack(points)
  PROVE  \E of \in [Usable(points) -> Usable(points)] : Anchors(points, of)
<1>1. PICK S : S = Usable(points)
  OBVIOUS
<1>2. S \subseteq Time
  BY <1>1 DEF IsTrack, Usable
<1>3. Time = 0 .. MaxTime /\ MaxTime \in Nat /\ \A u \in S : u \in Nat /\ u <= MaxTime
  BY <1>2, Constants DEF Time
<1>4. PICK A : A = S \cup {Null}
  OBVIOUS
<1>5. \A u \in S : u # Null
  BY <1>3 DEF Null
<1>6. PICK step : step = [q \in (0 .. MaxTime) \X A |->
                            IF q[1] \notin S THEN q[2]
                            ELSE IF q[2] = Null THEN q[1] ELSE Takes(points, q[1], q[2])]
  OBVIOUS
<1>7. ASSUME NEW t, NEW a PROVE Takes(points, t, a) \in {t, a}
  BY DEF Takes
<1>8. ASSUME NEW q \in (0 .. MaxTime) \X A
      PROVE  (IF q[1] \notin S THEN q[2]
              ELSE IF q[2] = Null THEN q[1] ELSE Takes(points, q[1], q[2])) \in A
  <2>1. q[2] \in A /\ (q[1] \in S => q[1] \in A)
    BY <1>4
  <2>2. Takes(points, q[1], q[2]) \in {q[1], q[2]}
    BY <1>7
  <2> QED BY <2>1, <2>2
<1>9. PICK g \in [-1 .. MaxTime -> A] :
        g[-1] = Null /\ \A t \in 0 .. MaxTime : g[t] = step[<<t, g[t - 1]>>]
  <2>1. PICK base \in A : base = Null
    BY <1>4
  <2>2. PICK n \in Nat : n = MaxTime
    BY <1>3
  <2>3. step \in [(0 .. n) \X A -> A]
    BY <1>6, <1>8, <2>2
  <2>4. \E g \in [-1 .. n -> A] : Sweeps(g, base, step, n)
    BY <2>3, Swept
  <2> QED BY <2>1, <2>2, <2>4 DEF Sweeps
<1>10. \A t \in 0 .. MaxTime :
         /\ t \notin S => g[t] = g[t - 1]
         /\ t \in S => g[t] = IF g[t - 1] = Null THEN t ELSE Takes(points, t, g[t - 1])
  <2>1. ASSUME NEW t \in 0 .. MaxTime PROVE <<t, g[t - 1]>> \in (0 .. MaxTime) \X A
    <3>1. t - 1 \in -1 .. MaxTime
      BY <1>3
    <3> QED BY <1>9, <3>1
  <2> QED BY <1>6, <1>9, <2>1
<1>11. PICK K : K = {t \in -1 .. MaxTime :
         \/ g[t] = Null /\ \A u \in S : u > t
         \/ /\ g[t] \in S
            /\ \E p \in S : p <= t /\ (\A u \in S : u <= p \/ u > t) /\ g[t] = g[p]}
  OBVIOUS
<1>12. -1 \in K
  BY <1>3, <1>9, <1>11
<1>13. ASSUME NEW t \in 0 .. MaxTime, t - 1 \in K PROVE t \in K
  <2>1. CASE t \in S
    <3>1. g[t] \in S
      <4>1. g[t - 1] = Null \/ g[t - 1] \in S
        BY <1>11, <1>13
      <4>2. Takes(points, t, g[t - 1]) \in {t, g[t - 1]}
        BY <1>7
      <4> QED BY <1>5, <1>10, <2>1, <4>1, <4>2
    <3>2. \A u \in S : u <= t \/ u > t
      BY <1>3
    <3> QED BY <1>3, <1>11, <2>1, <3>1, <3>2
  <2>2. CASE t \notin S
    <3>1. g[t] = g[t - 1]
      BY <1>10, <2>2
    <3>2. \A u \in S : u > t - 1 => u > t
      BY <1>3, <2>2
    <3>3. CASE g[t - 1] = Null /\ \A u \in S : u > t - 1
      BY <1>3, <1>11, <3>1, <3>2, <3>3
    <3>4. CASE /\ g[t - 1] \in S
               /\ \E p \in S : /\ p <= t - 1 /\ (\A u \in S : u <= p \/ u > t - 1)
                               /\ g[t - 1] = g[p]
      <4>1. PICK p \in S : /\ p <= t - 1 /\ (\A u \in S : u <= p \/ u > t - 1)
                           /\ g[t - 1] = g[p]
        BY <3>4
      <4>2. p <= t /\ (\A u \in S : u <= p \/ u > t) /\ g[t] = g[p]
        BY <1>3, <3>1, <3>2, <4>1
      <4> QED BY <1>3, <1>11, <3>1, <3>4, <4>2
    <3> QED BY <1>11, <1>13, <3>3, <3>4
  <2> QED BY <2>1, <2>2
<1>14. \A n \in Nat : n <= MaxTime => n \in K
  <2>1. ASSUME NEW n \in Nat, n <= MaxTime PROVE n \in K
    <3>1. \A t \in 0 .. n : t - 1 \in K => t \in K
      BY <1>3, <1>13, <2>1
    <3> QED BY <1>12, <3>1, Sweeping
  <2> QED BY <2>1
<1>15. PICK of : of = [t \in S |-> g[t]]
  OBVIOUS
<1>16. \A t \in S : g[t] \in S
  <2>1. ASSUME NEW t \in S PROVE g[t] \in S
    <3>1. t \in K
      BY <1>3, <1>14
    <3>2. t \in Int /\ ~(t > t)
      BY <1>3
    <3> QED BY <1>11, <3>1, <3>2
  <2> QED BY <2>1
<1>17. ASSUME NEW t \in S
       PROVE  of[t] = IF t = Min(S) THEN t ELSE Takes(points, t, of[Before(S, t)])
  <2>1. t - 1 \in K /\ t \in 0 .. MaxTime /\ t \in Nat
    <3>1. CASE t = 0
      BY <1>3, <1>12, <3>1
    <3>2. CASE t # 0
      <4>1. t - 1 \in Nat /\ t - 1 <= MaxTime /\ t \in 0 .. MaxTime
        BY <1>3, <3>2
      <4> QED BY <1>3, <1>14, <4>1
    <3> QED BY <3>1, <3>2
  <2>2. g[t] = IF g[t - 1] = Null THEN t ELSE Takes(points, t, g[t - 1])
    BY <1>10, <2>1
  <2>3. CASE g[t - 1] = Null /\ \A u \in S : u > t - 1
    <3>1. \A u \in S : t <= u
      BY <1>3, <2>1, <2>3
    <3>2. t = Min(S)
      BY <1>2, <3>1, Neighbour
    <3> QED BY <1>15, <2>2, <2>3, <3>2
  <2>4. CASE /\ g[t - 1] \in S
             /\ \E p \in S : p <= t - 1 /\ (\A u \in S : u <= p \/ u > t - 1) /\ g[t - 1] = g[p]
    <3>1. PICK p \in S : p <= t - 1 /\ (\A u \in S : u <= p \/ u > t - 1) /\ g[t - 1] = g[p]
      BY <2>4
    <3>2. p < t /\ \A u \in S : u <= p \/ u >= t
      BY <1>3, <2>1, <3>1
    <3>3. t # Min(S) /\ Before(S, t) = p
      BY <1>2, <3>2, Neighbour
    <3>4. g[t - 1] # Null /\ g[t - 1] = of[p]
      BY <1>5, <1>15, <2>4, <3>1
    <3> QED BY <1>15, <2>2, <3>3, <3>4
  <2> QED BY <1>11, <2>1, <2>3, <2>4
<1>18. of \in [S -> S]
  BY <1>15, <1>16
<1> QED BY <1>1, <1>17, <1>18 DEF Anchors

LEMMA Anchored ==
  ASSUME NEW points, IsTrack(points)
  PROVE  DOMAIN Anchor(points) = Usable(points) /\ Anchors(points, Anchor(points))
<1>1. PICK g \in [Usable(points) -> Usable(points)] : Anchors(points, g)
  BY AnchorsExist
<1>2. PICK S : S = Usable(points)
  OBVIOUS
<1>3. g = [t \in S |->
             IF t = Min(S) THEN t
             ELSE IF \/ Dist(points[g[Max({u \in S : u < t})]].pos, points[t].pos) > StopRadius
                     \/ t - Max({u \in S : u < t}) > MaxGap
                    THEN t ELSE g[Max({u \in S : u < t})]]
  BY <1>1, <1>2 DEF Anchors, Takes, Before
<1>4. PICK of : of = CHOOSE k : k = [t \in S |->
             IF t = Min(S) THEN t
             ELSE IF \/ Dist(points[k[Max({u \in S : u < t})]].pos, points[t].pos) > StopRadius
                     \/ t - Max({u \in S : u < t}) > MaxGap
                    THEN t ELSE k[Max({u \in S : u < t})]]
  OBVIOUS
<1>5. of = [t \in S |->
             IF t = Min(S) THEN t
             ELSE IF \/ Dist(points[of[Max({u \in S : u < t})]].pos, points[t].pos) > StopRadius
                     \/ t - Max({u \in S : u < t}) > MaxGap
                    THEN t ELSE of[Max({u \in S : u < t})]]
  BY <1>3, <1>4
<1>6. Anchor(points) = of
  BY <1>2, <1>4 DEF Anchor
<1>7. DOMAIN of = S /\ Anchors(points, of)
  BY <1>2, <1>5 DEF Anchors, Takes, Before
<1> QED BY <1>2, <1>6, <1>7

---------------------------------------------------------------------------
(* A point's anchor: all between the two have the same, lie near it, in no silence.     *)
Clusters(points, of, t) ==
  /\ of[t] \in Usable(points) /\ of[t] <= t
  /\ \A u \in Usable(points) : of[t] <= u /\ u <= t =>
       of[u] = of[t] /\ Dist(points[u].pos, points[of[t]].pos) <= StopRadius
  /\ \A s \in Steps(Usable(points)) : of[t] <= s[1] /\ s[2] <= t => ~Silent(s)

LEMMA Clustered ==
  ASSUME NEW points, IsTrack(points), NEW of, Anchors(points, of), NEW t \in Usable(points)
  PROVE  Clusters(points, of, t)
<1>1. PICK S : S = Usable(points)
  OBVIOUS
<1>2. S \subseteq Time /\ \A u \in S : u \in Nat /\ points[u].pos \in Int
  BY <1>1, Constants DEF IsTrack, Usable, Fix, Time
<1>3. SUFFICES ASSUME {u \in S : ~Clusters(points, of, u)} # {} PROVE FALSE
  BY <1>1
<1>4. PICK bad \in S : /\ ~Clusters(points, of, bad)
                       /\ \A u \in S : ~Clusters(points, of, u) => bad <= u
  <2>1. PICK T : T = {u \in S : ~Clusters(points, of, u)}
    OBVIOUS
  <2>2. T \subseteq Nat /\ T # {}
    BY <1>2, <1>3, <2>1
  <2>3. PICK m \in T : \A u \in T : m <= u
    BY <2>2, Least
  <2> QED BY <2>1, <2>3
<1>5. \A s \in Steps(S) : s[1] \in S /\ s[2] \in S /\ s[1] < s[2] /\ s[1] \in Int /\ s[2] \in Int
  BY <1>2, StepsApart
<1>6. bad \in Nat
  BY <1>2
<1>7. \A p, q \in Int : Dist(p, p) = 0 /\ Dist(p, q) = Dist(q, p) /\ Dist(p, q) \in Nat
  BY DEF Dist
<1>8. CASE of[bad] = bad
  <2>1. \A u \in S : bad <= u /\ u <= bad => u = bad
    BY <1>2, <1>6
  <2>2. Dist(points[bad].pos, points[bad].pos) <= StopRadius
    <3>1. Dist(points[bad].pos, points[bad].pos) = 0
      BY <1>2, <1>7
    <3> QED BY <3>1, Constants
  <2>3. \A s \in Steps(S) : ~(bad <= s[1] /\ s[2] <= bad)
    BY <1>5, <1>6
  <2> QED BY <1>1, <1>4, <1>6, <1>8, <2>1, <2>2, <2>3 DEF Clusters
<1>9. CASE of[bad] # bad
  <2>1. bad # Min(S) /\ of[bad] = Takes(points, bad, of[Before(S, bad)])
    BY <1>1, <1>9 DEF Anchors
  <2>2. PICK p : p = Before(S, bad)
    OBVIOUS
  <2>3. p \in S /\ p < bad /\ \A u \in S : u <= p \/ u >= bad
    BY <1>2, <2>1, <2>2, Neighbour
  <2>4. PICK a : a = of[p]
    OBVIOUS
  <2>5. /\ of[bad] = a /\ ~(Dist(points[a].pos, points[bad].pos) > StopRadius)
        /\ ~(bad - p > MaxGap)
    BY <1>1, <1>9, <2>1, <2>2, <2>4 DEF Takes
  <2>6. p \in Nat /\ Clusters(points, of, p)
    <3>1. p \in Nat /\ ~(bad <= p)
      BY <1>2, <1>6, <2>3
    <3>2. ~Clusters(points, of, p) => bad <= p
      BY <1>4, <2>3
    <3> QED BY <3>1, <3>2
  <2>7. a \in S /\ a <= p
    BY <1>1, <2>4, <2>6 DEF Clusters
  <2>8. ASSUME NEW u \in S, a <= u, u <= bad
        PROVE  of[u] = a /\ Dist(points[u].pos, points[a].pos) <= StopRadius
    <3>1. CASE u <= p
      BY <1>1, <2>4, <2>6, <2>8, <3>1 DEF Clusters
    <3>2. CASE ~(u <= p)
      <4>1. u = bad
        BY <1>2, <1>6, <2>3, <2>8, <3>2
      <4>2. Dist(points[a].pos, points[bad].pos) = Dist(points[bad].pos, points[a].pos)
            /\ Dist(points[a].pos, points[bad].pos) \in Nat
        BY <1>2, <1>7, <2>7
      <4>3. ~(Dist(points[bad].pos, points[a].pos) > StopRadius)
        BY <2>5, <4>2
      <4> QED BY <2>5, <4>1, <4>2, <4>3, Constants
    <3> QED BY <3>1, <3>2
  <2>9. ASSUME NEW s \in Steps(S), a <= s[1], s[2] <= bad PROVE ~Silent(s)
    <3>1. PICK b, c : b = s[1] /\ c = s[2]
      OBVIOUS
    <3>2. b \in S /\ c \in S /\ b < c /\ b \in Nat /\ c \in Nat /\ a <= b /\ c <= bad
      BY <1>2, <1>5, <2>9, <3>1
    <3>3. CASE c <= p
      BY <1>1, <2>4, <2>6, <2>9, <3>1, <3>3 DEF Clusters
    <3>4. CASE ~(c <= p)
      <4>1. c = bad
        BY <1>6, <2>3, <3>2, <3>4
      <4>2. p <= b \/ p >= c
        BY <2>3, <3>1 DEF Steps
      <4>3. b = p
        BY <1>6, <2>3, <2>6, <3>2, <4>1, <4>2
      <4>4. Span(s) = bad - p
        BY <3>1, <4>1, <4>3 DEF Span
      <4> QED BY <2>5, <4>4 DEF Silent
    <3> QED BY <3>3, <3>4
  <2>10. a <= bad
    <3>1. a \in Nat
      BY <1>2, <2>7
    <3> QED BY <1>6, <2>3, <2>6, <2>7, <3>1
  <2>11. of[bad] \in Usable(points) /\ of[bad] <= bad
    <3>1. of[bad] = a
      BY <2>5
    <3>2. a \in Usable(points)
      BY <1>1, <2>7
    <3> QED BY <2>10, <3>1, <3>2
  <2>12. \A u \in Usable(points) : of[bad] <= u /\ u <= bad =>
           of[u] = of[bad] /\ Dist(points[u].pos, points[of[bad]].pos) <= StopRadius
    BY <1>1, <2>5, <2>8
  <2>13. \A s \in Steps(Usable(points)) : of[bad] <= s[1] /\ s[2] <= bad => ~Silent(s)
    BY <1>1, <2>5, <2>9
  <2> QED BY <1>4, <2>11, <2>12, <2>13 DEF Clusters
<1> QED BY <1>8, <1>9

(* A stop's points lie near its first, and no silence lies among them.                *)
LEMMA StopsOf ==
  ASSUME NEW points, IsTrack(points), NEW x \in Stops(points)
  PROVE  /\ \A t \in Usable(points) \cap (x.from .. x.to) :
              Dist(points[t].pos, points[x.from].pos) <= StopRadius
         /\ \A s \in Steps(Usable(points)) : x.from <= s[1] /\ s[2] <= x.to => ~Silent(s)
<1>1. PICK S, of : S = Usable(points) /\ of = Anchor(points)
  OBVIOUS
<1>2. DOMAIN of = S /\ Anchors(points, of)
  BY <1>1, Anchored
<1>3. PICK a \in {of[t] : t \in S} : x.from = a /\ x.to = Max({t \in S : of[t] = a})
  BY <1>1, <1>2 DEF Stops
<1>4. PICK T : T = {t \in S : of[t] = a}
  OBVIOUS
<1>5. S \subseteq Time
  BY <1>1 DEF IsTrack, Usable
<1>6. T \subseteq Time /\ T # {}
  BY <1>3, <1>4, <1>5
<1>7. PICK to \in T : to = Max(T)
  BY <1>6, MaxOf
<1>8. to \in S /\ of[to] = x.from /\ x.to = to
  BY <1>3, <1>4, <1>7
<1>9. Clusters(points, of, to)
  BY <1>1, <1>2, <1>8, Clustered
<1>10. \A t \in S : x.from <= t /\ t <= to => Dist(points[t].pos, points[x.from].pos) <= StopRadius
  BY <1>1, <1>8, <1>9 DEF Clusters
<1>11. \A s \in Steps(S) : x.from <= s[1] /\ s[2] <= to => ~Silent(s)
  BY <1>1, <1>8, <1>9 DEF Clusters
<1>12. \A t \in x.from .. to : x.from <= t /\ t <= to
  OBVIOUS
<1> QED BY <1>1, <1>8, <1>10, <1>11, <1>12

(* The steps drawn.                                                            *)
LEMMA LineOf ==
  ASSUME NEW points, IsTrack(points)
  PROVE  /\ Travelled(points) \subseteq Drawn(points)
         /\ \A s \in Drawn(points) :
              /\ Span(s) <= MaxGap /\ Length(points, s) <= MaxSpeed * Span(s)
              /\ s \notin Travelled(points) => Length(points, s) < MinSegment
<1>1. PICK S : S = Usable(points)
  OBVIOUS
<1>2. S \subseteq Time
  BY <1>1 DEF IsTrack, Usable
<1>3. \A s, x \in Steps(S) : s[1] = x[1] => s = x
  <2>1. ASSUME NEW s \in Steps(S), NEW x \in Steps(S), s[1] = x[1] PROVE s = x
    <3>1. s[1] < s[2] /\ x[1] < x[2] /\ s[1] \in Int /\ s[2] \in Int /\ x[1] \in Int /\ x[2] \in Int
      BY <1>2, StepsApart
    <3>2. s # x => s[2] <= x[1] \/ x[2] <= s[1]
      BY <1>2, StepsApart
    <3> QED BY <2>1, <3>1, <3>2
  <2> QED BY <2>1
<1>4. ASSUME NEW s \in Travelled(points) PROVE s \in Drawn(points)
  <2>1. s \in Steps(S) /\ ~Silent(s) /\ ~Teleports(points, s)
    BY <1>1 DEF Travelled, Moves
  <2>2. s[1] \notin BreakAfter(points)
    BY <1>1, <1>3, <2>1 DEF BreakAfter
  <2> QED BY <1>1, <2>1, <2>2 DEF Drawn
<1>5. ASSUME NEW s \in Drawn(points)
      PROVE  /\ Span(s) <= MaxGap /\ Length(points, s) <= MaxSpeed * Span(s)
             /\ s \notin Travelled(points) => Length(points, s) < MinSegment
  <2>1. s \in Steps(S) /\ s \in Steps(Usable(points)) /\ s[1] \notin BreakAfter(points)
    BY <1>1 DEF Drawn
  <2>2. ~Silent(s) /\ ~Teleports(points, s)
    BY <2>1 DEF BreakAfter
  <2>3. PICK l \in Nat, n \in Nat : l = Length(points, s) /\ n = Span(s) /\ n >= 1
    BY <2>1, Lengths
  <2>4. n <= MaxGap
    BY <2>2, <2>3, Constants DEF Silent
  <2>5. MaxSpeed * n \in Nat /\ MaxSpeed <= MaxSpeed * n
    <3>1. PICK m \in Nat : m = MaxSpeed
      BY Constants
    <3>2. m * n \in Nat /\ m * 1 <= m * n
      BY <2>3, <3>1, Times
    <3> QED BY <3>1, <3>2
  <2>6. ~Moves(points, s) => l < MinSegment
    BY <2>2, <2>3, Constants DEF Moves
  <2>7. Moves(points, s) => l <= MaxSpeed * n
    BY <2>2, <2>3, <2>5 DEF Teleports
  <2>8. l <= MaxSpeed * n
    BY <2>3, <2>5, <2>6, <2>7, Constants
  <2>9. s \notin Travelled(points) => ~Moves(points, s)
    BY <2>1, <2>2 DEF Travelled
  <2> QED BY <2>3, <2>4, <2>6, <2>8, <2>9
<1> QED BY <1>4, <1>5

---------------------------------------------------------------------------
(* Whatever points a session holds: no step beyond jitter is drawn that is not part of the  *)
(* distance, none is faster than a vehicle, the distance is no more than one could cover    *)
(* in the time, and a stop is a stretch without silence near its first point.             *)
THEOREM LineAndDistanceAgree == Spec => []RouteHonest
<1>1. LogInv => RouteHonest
  <2> SUFFICES ASSUME LogInv PROVE RouteHonest
    OBVIOUS
  <2>1. IsTrack(track)
    BY DEF LogInv
  <2>2. Usable(track) # {} =>
          Distance(track) <= MaxSpeed * (Max(Usable(track)) - Min(Usable(track)))
    BY <2>1, DistanceBounded
  <2> QED BY <2>1, <2>2, LineOf, StopsOf DEF RouteHonest
<1> QED BY <1>1, AlwaysLogged, PTL

---------------------------------------------------------------------------
(* The hours of a shift and of a trip.  A fold runs over a set in an order that CHOOSE    *)
(* picks, so what it yields is shown for every order: intervals absorbed in order of their *)
(* starts measure what they cover, and a log heard in order of time yields pauses apart.  *)

LEMMA MaxMinOfTwo ==
  \A a, b \in Int : /\ Max({a, b}) = IF a >= b THEN a ELSE b
                    /\ Min({a, b}) = IF a <= b THEN a ELSE b
<1> SUFFICES ASSUME NEW a \in Int, NEW b \in Int
             PROVE  /\ Max({a, b}) = IF a >= b THEN a ELSE b
                    /\ Min({a, b}) = IF a <= b THEN a ELSE b
  OBVIOUS
<1>1. Max({a, b}) = IF a >= b THEN a ELSE b
  <2>1. \E x \in {a, b} : \A y \in {a, b} : x >= y
    OBVIOUS
  <2>2. Max({a, b}) \in {a, b} /\ \A y \in {a, b} : Max({a, b}) >= y
    BY <2>1 DEF Max
  <2> QED BY <2>2
<1>2. Min({a, b}) = IF a <= b THEN a ELSE b
  <2>1. \E x \in {a, b} : \A y \in {a, b} : x <= y
    OBVIOUS
  <2>2. Min({a, b}) \in {a, b} /\ \A y \in {a, b} : Min({a, b}) <= y
    BY <2>1 DEF Min
  <2> QED BY <2>2
<1> QED BY <1>1, <1>2

Measure == [total : Int, start : Int, end : Int]

LEMMA Absorbing ==
  ASSUME NEW m \in Measure, NEW i, i.start \in Int, i.end \in Int
  PROVE  /\ Absorb(m, i) \in Measure
         /\ i.start <= m.end => /\ Absorb(m, i).total = m.total
                                /\ Absorb(m, i).start = m.start
                                /\ Absorb(m, i).end = IF m.end >= i.end THEN m.end ELSE i.end
         /\ i.start > m.end => /\ Absorb(m, i).total = CountedIn(m)
                               /\ Absorb(m, i).start = i.start
                               /\ Absorb(m, i).end = i.end
<1>1. PICK x, y : x = i.start /\ y = i.end
  OBVIOUS
<1>2. PICK last \in Int : last = Max({m.end, y}) /\ last = IF m.end >= y THEN m.end ELSE y
  <2>1. m.end \in Int /\ y \in Int
    BY <1>1 DEF Measure
  <2> QED BY <2>1, MaxMinOfTwo
<1>3. PICK total \in Int : total = CountedIn(m)
  BY DEF CountedIn, Measure
<1>4. CASE x <= m.end
  <2>1. Absorb(m, i) = [m EXCEPT !.end = last]
    BY <1>1, <1>2, <1>4 DEF Absorb
  <2>2. x \in Int /\ m.end \in Int
    BY <1>1 DEF Measure
  <2> QED BY <1>1, <1>2, <1>4, <2>1, <2>2 DEF Measure
<1>5. CASE ~(x <= m.end)
  <2>1. Absorb(m, i) = [total |-> total, start |-> x, end |-> y]
    BY <1>1, <1>3, <1>5 DEF Absorb
  <2>2. x \in Int /\ y \in Int /\ m.end \in Int
    BY <1>1 DEF Measure
  <2> QED BY <1>1, <1>3, <1>5, <2>1, <2>2 DEF Measure
<1> QED BY <1>4, <1>5

Merges(s, m) == FoldLeft(Absorb, NoneMeasured, s) = m

LEMMA MergedInTurn ==
  ASSUME NEW n \in Nat, NEW s, DOMAIN s = 1 .. n,
         \A i \in 1 .. n : s[i].start \in Int /\ s[i].end \in Int
  PROVE  \E h \in [0 .. n -> Measure] :
           /\ h[0] = NoneMeasured
           /\ \A i \in 1 .. n : h[i] = Absorb(h[i - 1], s[i])
           /\ Merges(s, h[n])
<1>1. PICK step : step = [p \in (1 .. n) \X Measure |-> Absorb(p[2], s[p[1]])]
  OBVIOUS
<1>2. step \in [(1 .. n) \X Measure -> Measure]
  BY <1>1, Absorbing
<1>3. NoneMeasured \in Measure
  BY DEF NoneMeasured, Measure
<1>4. PICK pick : pick = [x \in SUBSET (1 .. n) |-> Max(x)]
  OBVIOUS
<1>5. \A x \in SUBSET (1 .. n) : x # {} => pick[x] \in x
  BY <1>4, MaxOfCount
<1>6. IsFiniteSet(1 .. n)
  BY FS_Interval
<1>7. PICK g \in [SUBSET (1 .. n) -> Measure] : Picked(g, 1 .. n, pick, step, NoneMeasured)
  BY <1>2, <1>3, <1>5, <1>6, FoldExists
<1>8. g = [x \in SUBSET (1 .. n) |->
             IF x = {} THEN NoneMeasured ELSE Absorb(g[x \ {Max(x)}], s[Max(x)])]
  <2>1. ASSUME NEW x \in SUBSET (1 .. n)
        PROVE  g[x] = IF x = {} THEN NoneMeasured ELSE Absorb(g[x \ {Max(x)}], s[Max(x)])
    <3>1. CASE x = {}
      BY <3>1, <1>7 DEF Picked
    <3>2. CASE x # {}
      <4>1. PICK k \in 1 .. n : k = Max(x) /\ k = pick[x]
        BY <1>4, <1>5, <3>2
      <4>2. PICK y \in SUBSET (1 .. n) : y = x \ {k}
        OBVIOUS
      <4>3. PICK m \in Measure : m = g[y]
        BY <1>7
      <4>4. g[x] = step[<<k, m>>]
        BY <1>7, <3>2, <4>1, <4>2, <4>3 DEF Picked
      <4>5. <<k, m>> \in (1 .. n) \X Measure
        OBVIOUS
      <4>6. g[x] = Absorb(m, s[k])
        BY <1>1, <4>4, <4>5
      <4> QED BY <3>2, <4>1, <4>2, <4>3, <4>6
    <3> QED BY <3>1, <3>2
  <2> QED BY <1>7, <2>1
<1>9. PICK f : f = CHOOSE k : k = [x \in SUBSET (1 .. n) |->
             IF x = {} THEN NoneMeasured ELSE Absorb(k[x \ {Max(x)}], s[Max(x)])]
  OBVIOUS
<1>10. f = [x \in SUBSET (1 .. n) |->
             IF x = {} THEN NoneMeasured ELSE Absorb(f[x \ {Max(x)}], s[Max(x)])]
  BY <1>8, <1>9
<1>11. Merges(s, f[1 .. n])
  BY <1>9 DEF Merges, FoldLeft, MapThenFoldSet
<1>12. PICK h : h = [i \in 0 .. n |-> f[1 .. i]]
  OBVIOUS
<1>13. h[0] = NoneMeasured
  <2>1. 1 .. 0 = {} /\ 0 \in 0 .. n /\ {} \in SUBSET (1 .. n)
    OBVIOUS
  <2>2. h[0] = f[1 .. 0]
    BY <1>12, <2>1
  <2>3. f[{}] = NoneMeasured
    BY <1>10, <2>1
  <2> QED BY <2>1, <2>2, <2>3
<1>14. ASSUME NEW i \in 1 .. n PROVE h[i] = Absorb(h[i - 1], s[i])
  <2>1. PICK x \in SUBSET (1 .. n) : x = 1 .. i
    OBVIOUS
  <2>2. PICK j \in 0 .. n : j = i - 1
    OBVIOUS
  <2>3. PICK k \in 0 .. n : k = i
    OBVIOUS
  <2>4. h[k] = f[x] /\ h[j] = f[1 .. j]
    BY <1>12, <2>1, <2>3
  <2>5. Max(x) = i /\ x \ {Max(x)} = 1 .. j
    BY <2>1, <2>2, MaxOfCount
  <2>6. x # {}
    BY <2>1
  <2>7. f[x] = Absorb(f[x \ {Max(x)}], s[Max(x)])
    BY <1>10, <2>6
  <2> QED BY <2>2, <2>3, <2>4, <2>5, <2>7
<1>15. PICK K : K = {i \in Nat : i <= n => h[i] \in Measure}
  OBVIOUS
<1>16. 0 \in K
  BY <1>3, <1>13, <1>15
<1>17. ASSUME NEW i \in Nat, i \in K PROVE i + 1 \in K
  <2> SUFFICES ASSUME i + 1 <= n PROVE h[i + 1] \in Measure
    BY <1>15
  <2>1. PICK j \in 1 .. n : j = i + 1 /\ j - 1 = i
    OBVIOUS
  <2>2. PICK m \in Measure : m = h[i]
    BY <1>15, <1>17, <2>1
  <2>3. h[j] = Absorb(m, s[j])
    BY <1>14, <2>1, <2>2
  <2> QED BY <2>1, <2>3, Absorbing
<1>18. \A i \in 0 .. n : h[i] \in Measure
  <2>1. Nat \subseteq K
    BY <1>16, <1>17, Induction
  <2>2. \A i \in 0 .. n : i \in Nat /\ i <= n
    OBVIOUS
  <2> QED BY <1>15, <2>1, <2>2
<1>19. h \in [0 .. n -> Measure] /\ h[n] = f[1 .. n]
  BY <1>12, <1>18
<1> QED BY <1>11, <1>13, <1>14, <1>19

(* s lists S, one element after the other, in order of their starts.                  *)
Lists(s, S) ==
  /\ s \in [1 .. Cardinality(S) -> S]
  /\ \A i, j \in 1 .. Cardinality(S) : i # j => s[i] # s[j]
  /\ \A i, j \in 1 .. Cardinality(S) : i < j => s[i].start <= s[j].start

LEMMA SortedExists ==
  ASSUME NEW U, IsFiniteSet(U), \A x \in U : x.start \in Nat
  PROVE  \A S \in SUBSET U : \E s : Lists(s, S)
<1>1. PICK M : M = {m \in Nat : \A S \in SUBSET U : Cardinality(S) = m => \E s : Lists(s, S)}
  OBVIOUS
<1>2. 0 \in M
  <2> SUFFICES ASSUME NEW S \in SUBSET U, Cardinality(S) = 0 PROVE \E s : Lists(s, S)
    BY <1>1
  <2>1. PICK s : s = [i \in 1 .. 0 |-> i]
    OBVIOUS
  <2>2. s \in [1 .. Cardinality(S) -> S] /\ \A i \in 1 .. Cardinality(S) : FALSE
    BY <2>1
  <2>3. Lists(s, S)
    BY <2>2 DEF Lists
  <2> QED BY <2>3
<1>3. ASSUME NEW m \in Nat, m \in M PROVE m + 1 \in M
  <2> SUFFICES ASSUME NEW S \in SUBSET U, Cardinality(S) = m + 1 PROVE \E s : Lists(s, S)
    BY <1>1
  <2>1. IsFiniteSet(S)
    BY FS_Subset
  <2>2. S # {}
    <3>1. Cardinality({}) = 0
      BY FS_EmptySet
    <3> QED BY <3>1
  <2>3. PICK starts : starts = {x.start : x \in S}
    OBVIOUS
  <2>4. starts \subseteq Nat /\ starts # {}
    BY <2>2, <2>3
  <2>5. PICK first \in starts : \A t \in starts : first <= t
    BY <2>4, Least
  <2>6. PICK x \in S : first = x.start
    BY <2>3, <2>5
  <2>7. \A y \in S : x.start <= y.start
    BY <2>3, <2>5, <2>6
  <2>8. PICK R \in SUBSET U : R = S \ {x}
    OBVIOUS
  <2>9. Cardinality(R) = m
    <3>1. Cardinality(S \ {x}) = Cardinality(S) - 1
      BY OneFewer
    <3> QED BY <2>8, <3>1
  <2>10. PICK s : Lists(s, R)
    BY <1>1, <1>3, <2>9
  <2>11. PICK n \in Nat : n = m + 1
    OBVIOUS
  <2>12. PICK q : q = [i \in 1 .. n |-> IF i = 1 THEN x ELSE s[i - 1]]
    OBVIOUS
  <2>13. ASSUME NEW i \in 1 .. n, i # 1 PROVE i - 1 \in 1 .. m /\ q[i] = s[i - 1] /\ q[i] \in R
    BY <2>9, <2>10, <2>11, <2>12, <2>13 DEF Lists
  <2>14. 1 \in 1 .. n /\ q[1] = x /\ x \in S /\ x \notin R
    BY <2>8, <2>11, <2>12
  <2>15. q \in [1 .. n -> S]
    BY <2>8, <2>12, <2>13, <2>14
  <2>16. ASSUME NEW i \in 1 .. n, NEW j \in 1 .. n, i # j PROVE q[i] # q[j]
    <3>1. CASE i = 1
      BY <2>13, <2>14, <2>16, <3>1
    <3>2. CASE j = 1
      BY <2>13, <2>14, <2>16, <3>2
    <3>3. CASE i # 1 /\ j # 1
      <4>1. PICK k, l : k = i - 1 /\ l = j - 1
        OBVIOUS
      <4>2. k \in 1 .. m /\ l \in 1 .. m /\ q[i] = s[k] /\ q[j] = s[l]
        BY <2>13, <3>3, <4>1
      <4>3. k # l
        BY <2>16, <4>1
      <4> QED BY <2>9, <2>10, <4>2, <4>3 DEF Lists
    <3> QED BY <3>1, <3>2, <3>3
  <2>17. ASSUME NEW i \in 1 .. n, NEW j \in 1 .. n, i < j PROVE q[i].start <= q[j].start
    <3>1. CASE i = 1
      BY <2>7, <2>8, <2>13, <2>14, <2>15, <2>17, <3>1
    <3>2. CASE i # 1
      <4>1. PICK k, l : k = i - 1 /\ l = j - 1
        OBVIOUS
      <4>2. k \in 1 .. m /\ l \in 1 .. m /\ q[i] = s[k] /\ q[j] = s[l]
        BY <2>13, <2>17, <3>2, <4>1
      <4>3. k < l
        BY <2>17, <4>1
      <4> QED BY <2>9, <2>10, <4>2, <4>3 DEF Lists
    <3> QED BY <3>1, <3>2
  <2>18. Lists(q, S)
    BY <2>11, <2>15, <2>16, <2>17 DEF Lists
  <2> QED BY <2>18
<1>4. Nat \subseteq M
  BY <1>2, <1>3, Induction
<1> SUFFICES ASSUME NEW S \in SUBSET U PROVE \E s : Lists(s, S)
  OBVIOUS
<1>5. Cardinality(S) \in Nat
  BY FS_Subset, FS_CardinalityType
<1> QED BY <1>1, <1>4, <1>5

LEMMA InOrderOfStart ==
  ASSUME NEW S, IsFiniteSet(S), \A x \in S : x.start \in Nat
  PROVE  /\ Lists(ByStart(S), S)
         /\ \A x \in S : \E i \in 1 .. Cardinality(S) : ByStart(S)[i] = x
<1>1. PICK n \in Nat : n = Cardinality(S)
  BY FS_CardinalityType
<1>2. \E s : Lists(s, S)
  BY SortedExists
<1>3. \A s : Lists(s, S) <=>
        s \in SetToSeqs(S) /\ \A i, j \in DOMAIN s : i < j => s[i].start <= s[j].start
  BY <1>1 DEF Lists, SetToSeqs
<1>4. \E s \in SetToSeqs(S) : \A i, j \in DOMAIN s : i < j => s[i].start <= s[j].start
  BY <1>2, <1>3
<1>5. PICK s : s = ByStart(S)
  OBVIOUS
<1>6. s \in SetToSeqs(S) /\ \A i, j \in DOMAIN s : i < j => s[i].start <= s[j].start
  BY <1>4, <1>5 DEF ByStart
<1>7. Lists(s, S)
  BY <1>3, <1>6
<1>8. s \in Injection(1 .. n, S)
  BY <1>1, <1>7 DEF Lists, Injection, IsInjective
<1>9. Cardinality(1 .. n) = n
  BY FS_Interval
<1>10. s \in Surjection(1 .. n, S)
  BY <1>1, <1>8, <1>9, FS_Injection
<1> QED BY <1>1, <1>5, <1>7, <1>10 DEF Surjection

(* Rounding to seconds: half a second at most, and never out of order.               *)
LEMMA Divided ==
  ASSUME NEW a \in Int, NEW b \in Nat \ {0}
  PROVE  /\ a \div b \in Int
         /\ b * (a \div b) <= a /\ a < b * (a \div b) + b
OBVIOUS

LEMMA Rounding ==
  ASSUME NEW x \in Int
  PROVE  /\ Rounded(x) \in Int
         /\ 2 * (Second * Rounded(x)) <= 2 * x + Second
         /\ 2 * x < 2 * (Second * Rounded(x)) + Second
<1>1. PICK s \in Int : s = Second /\ s > 0
  BY HorizonAssumption
<1>2. PICK b \in Nat \ {0} : b = 2 * s
  BY <1>1
<1>3. PICK a \in Int : a = 2 * x + s
  BY <1>1
<1>4. PICK r : r = Rounded(x)
  OBVIOUS
<1>5. r = a \div b
  BY <1>1, <1>2, <1>3, <1>4 DEF Rounded
<1>6. r \in Int /\ b * r <= a /\ a < b * r + b
  BY <1>5, Divided
<1>7. b * r = 2 * (s * r) /\ s * r \in Int
  BY <1>1, <1>2, <1>6
<1> QED BY <1>1, <1>2, <1>3, <1>4, <1>6, <1>7

LEMMA Scaled ==
  /\ \A a, b \in Int : Second * a \in Int /\ Second * (a + b) = Second * a + Second * b
  /\ \A a, b \in Int : Second * (a - b) = Second * a - Second * b
  /\ \A a, b \in Int : Second * a < Second * b => a < b
  /\ Second * 0 = 0 /\ Second * 1 = Second /\ Second \in Nat \ {0}
<1>1. PICK s \in Nat \ {0} : s = Second
  BY HorizonAssumption
<1>2. \A a, b \in Int : s * a \in Int /\ s * (a + b) = s * a + s * b
  OBVIOUS
<1>3. \A a, b \in Int : s * (a - b) = s * a - s * b
  OBVIOUS
<1>4. ASSUME NEW a \in Int, NEW b \in Int, s * a < s * b PROVE a < b
  <2> SUFFICES ASSUME a >= b PROVE FALSE
    OBVIOUS
  <2>1. PICK d \in Nat : d = a - b
    OBVIOUS
  <2>2. s * d >= 0
    OBVIOUS
  <2>3. s * d = s * a - s * b
    BY <1>3, <2>1
  <2>4. s * a \in Int /\ s * b \in Int
    OBVIOUS
  <2> QED BY <1>4, <2>2, <2>3, <2>4
<1>5. s * 0 = 0 /\ s * 1 = s
  OBVIOUS
<1> QED BY <1>1, <1>2, <1>3, <1>4, <1>5

LEMMA RoundingOrdered ==
  ASSUME NEW x \in Int, NEW y \in Int, x <= y
  PROVE  Rounded(x) <= Rounded(y)
<1>1. PICK q, r : q = Rounded(x) /\ r = Rounded(y)
  OBVIOUS
<1>2. q \in Int /\ r \in Int /\ 2 * (Second * q) <= 2 * x + Second
      /\ 2 * y < 2 * (Second * r) + Second
  BY <1>1, Rounding
<1>3. PICK a \in Int, b \in Int, s \in Int : a = Second * q /\ b = Second * r /\ s = Second
  BY <1>2, Scaled
<1>4. a < b + s
  BY <1>2, <1>3
<1>5. Second * (r + 1) = b + s
  BY <1>2, <1>3, Scaled
<1>6. q < r + 1
  BY <1>2, <1>3, <1>4, <1>5, Scaled
<1> QED BY <1>1, <1>2, <1>6

LEMMA RoundedNothing == Rounded(0) = 0
<1>1. PICK r : r = Rounded(0)
  OBVIOUS
<1>2. r \in Int /\ 2 * (Second * r) <= Second /\ 0 < 2 * (Second * r) + Second
  <2>1. PICK z \in Int : z = 0
    OBVIOUS
  <2>2. r \in Int /\ 2 * (Second * r) <= 2 * z + Second /\ 2 * z < 2 * (Second * r) + Second
    BY <1>1, <2>1, Rounding
  <2>3. PICK a \in Int, b \in Int : a = Second * r /\ b = Second
    BY <2>2, Scaled
  <2> QED BY <2>1, <2>2, <2>3
<1>3. PICK a \in Int, s \in Int : a = Second * r /\ s = Second /\ s > 0
  BY <1>2, Scaled
<1>4. a < s /\ 0 < a + s
  BY <1>2, <1>3
<1>5. Second * 1 = s /\ Second * (r + 1) = a + s /\ Second * 0 = 0
  BY <1>2, <1>3, Scaled
<1>6. r < 1
  BY <1>2, <1>3, <1>4, <1>5, Scaled
<1>7. 0 < r + 1
  BY <1>2, <1>3, <1>4, <1>5, Scaled
<1> QED BY <1>1, <1>2, <1>6, <1>7

Seconds(S) == {t \in Nat : \E x \in S : x.start <= t /\ t < x.end}

(* A set that ends before a stretch and the stretch.                                 *)
LEMMA Extended ==
  ASSUME NEW C \in SUBSET Nat, IsFiniteSet(C), NEW a \in Nat, NEW b \in Nat, a <= b,
         \A t \in C : t < a
  PROVE  /\ IsFiniteSet(C \cup a .. b - 1)
         /\ Cardinality(C) \in Nat
         /\ Cardinality(C \cup a .. b - 1) = Cardinality(C) + b - a
<1>1. PICK D : D = a .. b - 1
  OBVIOUS
<1>2. IsFiniteSet(D) /\ Cardinality(D) = b - a
  <2>1. PICK z \in Int : z = b - 1
    OBVIOUS
  <2>2. IsFiniteSet(a .. z) /\ Cardinality(a .. z) = IF a > z THEN 0 ELSE z - a + 1
    BY FS_Interval
  <2> QED BY <1>1, <2>1, <2>2
<1>3. C \cap D = {}
  BY <1>1
<1>4. Cardinality(C \cap D) = 0
  BY <1>3, FS_EmptySet
<1>5. Cardinality(C \cup D) = Cardinality(C) + Cardinality(D) - Cardinality(C \cap D)
  BY <1>2, FS_Union
<1>6. IsFiniteSet(C \cup D) /\ Cardinality(C) \in Nat
  BY <1>2, FS_Union, FS_CardinalityType
<1> QED BY <1>1, <1>2, <1>4, <1>5, <1>6

CoveredBy(s, k) == {t \in Nat : \E i \in 1 .. k : s[i].start <= t /\ t < s[i].end}

(* What has been measured of the first k intervals: the last stretch is m.start to m.end, *)
(* covered throughout, the seconds before it are counted, and nothing begins before it.   *)
Merging(s, n, k, m) ==
  /\ 0 <= m.start /\ m.start <= m.end
  /\ \A t \in CoveredBy(s, k) : t < m.end
  /\ \A j \in k + 1 .. n : m.start <= s[j].start
  /\ \A t \in Nat : m.start <= t /\ t < m.end => t \in CoveredBy(s, k)
  /\ IsFiniteSet(CoveredBy(s, k))
  /\ CountedIn(m) = Cardinality(CoveredBy(s, k))

LEMMA MergingStep ==
  ASSUME NEW n \in Nat, NEW s, NEW k \in 0 .. n - 1, NEW m \in Measure, Merging(s, n, k, m),
         \A i \in 1 .. n : s[i].start \in Nat /\ s[i].end \in Nat /\ s[i].start < s[i].end,
         \A i, j \in 1 .. n : i < j => s[i].start <= s[j].start
  PROVE  Merging(s, n, k + 1, Absorb(m, s[k + 1]))
<1>1. PICK l \in 1 .. n : l = k + 1
  OBVIOUS
<1>2. PICK i : i = s[l]
  OBVIOUS
<1>3. PICK x \in Nat : x = i.start
  BY <1>2
<1>4. PICK y \in Nat : y = i.end
  BY <1>2
<1>5. x < y
  BY <1>2, <1>3, <1>4
<1>6. PICK C : C = CoveredBy(s, k)
  OBVIOUS
<1>7. PICK a \in Nat, b \in Nat : a = m.start /\ b = m.end
  BY DEF Merging, Measure
<1>8. C \in SUBSET Nat /\ IsFiniteSet(C) /\ a <= b
  BY <1>6, <1>7 DEF Merging, CoveredBy
<1>9. \A t \in C : t < b
  BY <1>6, <1>7 DEF Merging
<1>10. \A t \in Nat : a <= t /\ t < b => t \in C
  BY <1>6, <1>7 DEF Merging
<1>11. a <= x
  <2>1. l \in k + 1 .. n
    BY <1>1
  <2> QED BY <1>2, <1>3, <1>7, <2>1 DEF Merging
<1>12. PICK D : D = CoveredBy(s, l)
  OBVIOUS
<1>13. ASSUME NEW t \in Nat PROVE t \in D <=> t \in C \/ (x <= t /\ t < y)
  <2>1. \A j : j \in 1 .. l <=> j \in 1 .. k \/ j = l
    BY <1>1
  <2> QED BY <1>2, <1>3, <1>4, <1>6, <1>12, <2>1 DEF CoveredBy
<1>14. PICK c \in Int, total \in Int : c = Cardinality(C) /\ total = m.total /\ total + b - a = c
  <2>1. m.total \in Int
    BY DEF Measure
  <2> QED BY <1>6, <1>7, <1>8, <2>1, FS_CardinalityType DEF Merging, CountedIn
<1>15. D \in SUBSET Nat
  BY <1>12 DEF CoveredBy
<1>16. PICK w \in Measure : w = Absorb(m, s[k + 1])
  BY <1>1, <1>2, <1>3, <1>4, Absorbing
<1>17. \A j \in l + 1 .. n : a <= s[j].start /\ x <= s[j].start
  <2>1. \A j \in l + 1 .. n : j \in 1 .. n /\ l < j
    BY <1>1
  <2>2. \A j \in l + 1 .. n : x <= s[j].start /\ s[j].start \in Nat
    BY <1>2, <1>3, <2>1
  <2> QED BY <1>11, <2>2
<1>18. CASE x <= b
  <2>1. PICK e \in Nat : e = IF b >= y THEN b ELSE y
    OBVIOUS
  <2>2. w.total = total /\ w.start = a /\ w.end = e
    BY <1>1, <1>2, <1>3, <1>4, <1>7, <1>14, <1>16, <1>18, <2>1, Absorbing
  <2>3. D = C \cup b .. e - 1
    <3>1. ASSUME NEW t \in Nat PROVE t \in D <=> t \in C \/ (b <= t /\ t < e)
      BY <1>5, <1>9, <1>10, <1>11, <1>13, <1>18, <2>1
    <3>2. \A t \in Nat : t \in b .. e - 1 <=> b <= t /\ t < e
      OBVIOUS
    <3>3. b .. e - 1 \in SUBSET Nat
      OBVIOUS
    <3> QED BY <1>8, <1>15, <3>1, <3>2, <3>3
  <2>4. b <= e
    BY <2>1
  <2>5. IsFiniteSet(D) /\ Cardinality(D) = c + e - b
    BY <1>8, <1>9, <1>14, <2>3, <2>4, Extended
  <2>6. \A t \in D : t < e
    BY <1>9, <1>13, <1>15, <2>1
  <2>7. \A t \in Nat : a <= t /\ t < e => t \in D
    BY <1>10, <1>13, <1>18, <2>1
  <2>8. total + e - a = c + e - b
    BY <1>14
  <2>9. \A j \in l + 1 .. n : a <= s[j].start
    BY <1>17
  <2>10. Merging(s, n, l, w)
    BY <1>8, <1>12, <2>2, <2>4, <2>5, <2>6, <2>7, <2>8, <2>9 DEF Merging, CountedIn
  <2> QED BY <1>1, <1>16, <2>10
<1>19. CASE x > b
  <2>1. w.total = c /\ w.start = x /\ w.end = y
    BY <1>1, <1>2, <1>3, <1>4, <1>7, <1>14, <1>16, <1>19, Absorbing DEF CountedIn
  <2>2. D = C \cup x .. y - 1
    <3>1. \A t \in Nat : t \in x .. y - 1 <=> x <= t /\ t < y
      OBVIOUS
    <3>2. x .. y - 1 \in SUBSET Nat
      OBVIOUS
    <3> QED BY <1>8, <1>13, <1>15, <3>1, <3>2
  <2>3. \A t \in C : t < x
    BY <1>8, <1>9, <1>19
  <2>4. IsFiniteSet(D) /\ Cardinality(D) = c + y - x
    BY <1>5, <1>8, <1>14, <2>2, <2>3, Extended
  <2>5. \A t \in D : t < y
    BY <1>5, <1>8, <1>13, <1>15, <2>3
  <2>6. \A t \in Nat : x <= t /\ t < y => t \in D
    BY <1>13
  <2>7. Merging(s, n, l, w)
    BY <1>5, <1>12, <1>17, <2>1, <2>4, <2>5, <2>6 DEF Merging, CountedIn
  <2> QED BY <1>1, <1>16, <2>7
<1> QED BY <1>18, <1>19

(* mergedIntervalSeconds counts the ticks some interval covers, each of them once, and    *)
(* rounds what it counted.                                                        *)
LEMMA Merged ==
  ASSUME NEW S, IsFiniteSet(S), \A x \in S : x.start \in Nat /\ x.end \in Nat
  PROVE  IsFiniteSet(Seconds(S)) /\ MergedSeconds(S) = Rounded(Cardinality(Seconds(S)))
<1>1. PICK R \in SUBSET S : R = {i \in S : i.end > i.start}
  OBVIOUS
<1>2. IsFiniteSet(R)
  BY FS_Subset
<1>3. PICK n \in Nat : n = Cardinality(R)
  BY <1>2, FS_CardinalityType
<1>4. PICK s : s = ByStart(R)
  OBVIOUS
<1>5. Lists(s, R) /\ \A x \in R : \E i \in 1 .. n : s[i] = x
  BY <1>2, <1>3, <1>4, InOrderOfStart
<1>6. DOMAIN s = 1 .. n /\ (\A i \in 1 .. n : s[i] \in R)
      /\ \A i, j \in 1 .. n : i < j => s[i].start <= s[j].start
  BY <1>3, <1>5 DEF Lists
<1>7. \A i \in 1 .. n : s[i].start \in Nat /\ s[i].end \in Nat /\ s[i].start < s[i].end
  BY <1>1, <1>6
<1>8. PICK h \in [0 .. n -> Measure] : /\ h[0] = NoneMeasured
                                       /\ \A i \in 1 .. n : h[i] = Absorb(h[i - 1], s[i])
                                       /\ Merges(s, h[n])
  BY <1>6, <1>7, MergedInTurn
<1>9. PICK K : K = {k \in Nat : k <= n => Merging(s, n, k, h[k])}
  OBVIOUS
<1>10. 0 \in K
  <2>1. CoveredBy(s, 0) = {}
    BY DEF CoveredBy
  <2>2. IsFiniteSet({}) /\ Cardinality({}) = 0
    BY FS_EmptySet
  <2>3. PICK m : m = h[0]
    OBVIOUS
  <2>4. m.total = 0 /\ m.start = 0 /\ m.end = 0
    BY <1>8, <2>3 DEF NoneMeasured
  <2>5. \A j \in 0 + 1 .. n : 0 <= s[j].start
    BY <1>7
  <2>6. 0 <= m.start /\ m.start <= m.end /\ CountedIn(m) = 0
    BY <2>4 DEF CountedIn
  <2>7. \A t \in Nat : ~(m.start <= t /\ t < m.end)
    BY <2>4
  <2>8. \A j \in 0 + 1 .. n : m.start <= s[j].start
    BY <2>4, <2>5
  <2>9. Merging(s, n, 0, m)
    BY <2>1, <2>2, <2>6, <2>7, <2>8 DEF Merging
  <2> QED BY <1>9, <2>3, <2>9
<1>11. ASSUME NEW k \in Nat, k \in K PROVE k + 1 \in K
  <2> SUFFICES ASSUME k + 1 <= n PROVE Merging(s, n, k + 1, h[k + 1])
    BY <1>9
  <2>1. k \in 0 .. n - 1 /\ k \in 0 .. n /\ k + 1 \in 1 .. n /\ (k + 1) - 1 = k /\ k <= n
    OBVIOUS
  <2>2. PICK m \in Measure : m = h[k]
    BY <1>8, <2>1
  <2>3. Merging(s, n, k, m)
    BY <1>9, <1>11, <2>1, <2>2
  <2>4. h[k + 1] = Absorb(m, s[k + 1])
    BY <1>8, <2>1, <2>2
  <2>5. Merging(s, n, k + 1, Absorb(m, s[k + 1]))
    BY <1>6, <1>7, <2>1, <2>3, MergingStep
  <2> QED BY <2>4, <2>5
<1>12. Merging(s, n, n, h[n])
  <2>1. n \in K
    BY <1>10, <1>11, Induction
  <2> QED BY <1>9, <2>1
<1>13. CoveredBy(s, n) = Seconds(S)
  <2>1. ASSUME NEW t \in Nat
        PROVE  (\E i \in 1 .. n : s[i].start <= t /\ t < s[i].end)
               <=> \E x \in S : x.start <= t /\ t < x.end
    <3>1. ASSUME NEW x \in S, x.start <= t, t < x.end
          PROVE  \E i \in 1 .. n : s[i].start <= t /\ t < s[i].end
      <4>1. x.start \in Nat /\ x.end \in Nat
        OBVIOUS
      <4>2. x \in R
        BY <1>1, <3>1, <4>1
      <4> QED BY <1>5, <3>1, <4>2
    <3> QED BY <1>6, <3>1
  <2> QED BY <2>1 DEF CoveredBy, Seconds
<1>14. MergedSeconds(S) = Rounded(CountedIn(h[n]))
  <2>1. FoldLeft(Absorb, NoneMeasured, ByStart(R)) = h[n]
    BY <1>4, <1>8 DEF Merges
  <2> QED BY <1>1, <2>1 DEF MergedSeconds
<1> QED BY <1>12, <1>13, <1>14 DEF Merging

BreakSeconds(from, to, rows) ==
  {t \in from .. to - 1 : \E b \in rows : b.start <= t /\ (b.end = Unended \/ t < b.end)}

(* A break clamped into its shift covers of the shift what it covered.                  *)
LEMMA Clamping ==
  ASSUME NEW from \in Nat, NEW to \in Nat, from <= to,
         NEW b, b.start \in Nat, b.end \in Nat \cup {Unended}
  PROVE  /\ ClosedIn(b, from, to).start \in Nat /\ ClosedIn(b, from, to).end \in Nat
         /\ ClosedIn(b, from, to).type = b.type
         /\ \A t \in Nat : ClosedIn(b, from, to).start <= t /\ t < ClosedIn(b, from, to).end
              <=> /\ from <= t /\ t < to /\ b.start <= t
                  /\ b.end = Unended \/ t < b.end
<1>1. PICK x \in Nat : x = b.start
  OBVIOUS
<1>2. PICK y \in Nat : y = IF b.end = Unended THEN to ELSE b.end
  BY DEF Unended
<1>3. PICK c, d : c = Clamped(x, from, to) /\ d = Clamped(y, from, to)
  OBVIOUS
<1>4. /\ c \in Nat /\ d \in Nat
      /\ c = IF x < from THEN from ELSE IF x > to THEN to ELSE x
      /\ d = IF y < from THEN from ELSE IF y > to THEN to ELSE y
  BY <1>3 DEF Clamped
<1>5. ClosedIn(b, from, to) = [id |-> b.id, type |-> b.type, start |-> c, end |-> d]
  BY <1>1, <1>2, <1>3 DEF ClosedIn
<1>6. \A t \in Nat : c <= t /\ t < d <=> from <= t /\ t < to /\ x <= t /\ t < y
  BY <1>4
<1>7. \A t \in Nat : t < to => (t < y <=> b.end = Unended \/ t < b.end)
  BY <1>2
<1> QED BY <1>1, <1>4, <1>5, <1>6, <1>7

LEMMA ClosedBreaks ==
  ASSUME NEW from \in Instants, NEW to \in Instants, from <= to,
         NEW rows \in SUBSET Breaks, IsFiniteSet(rows)
  PROVE  /\ IsFiniteSet(BreakSeconds(from, to, rows))
         /\ Cardinality(BreakSeconds(from, to, rows)) \in 0 .. to - from
         /\ MergedSeconds({ClosedIn(b, from, to) : b \in rows})
              = Rounded(Cardinality(BreakSeconds(from, to, rows)))
<1>1. from \in Nat /\ to \in Nat
  BY HorizonAssumption DEF Instants
<1>2. \A b \in rows : b.start \in Nat /\ b.end \in Nat \cup {Unended}
  BY HorizonAssumption DEF Breaks, Instants
<1>3. PICK close : close = [b \in rows |-> ClosedIn(b, from, to)]
  OBVIOUS
<1>4. PICK closed : closed = {ClosedIn(b, from, to) : b \in rows}
  OBVIOUS
<1>5. close \in Surjection(rows, closed)
  BY <1>3, <1>4 DEF Surjection
<1>6. IsFiniteSet(closed)
  BY <1>5, FS_Surjection
<1>7. \A x \in closed : x.start \in Nat /\ x.end \in Nat
  BY <1>1, <1>2, <1>4, Clamping
<1>8. Seconds(closed) = BreakSeconds(from, to, rows)
  <2>1. ASSUME NEW t \in Nat
        PROVE  (\E x \in closed : x.start <= t /\ t < x.end)
               <=> /\ from <= t /\ t < to
                   /\ \E b \in rows : b.start <= t /\ (b.end = Unended \/ t < b.end)
    BY <1>1, <1>2, <1>4, Clamping
  <2>2. \A t : t \in from .. to - 1 <=> t \in Nat /\ from <= t /\ t < to
    BY <1>1
  <2> QED BY <2>1, <2>2 DEF Seconds, BreakSeconds
<1>9. IsFiniteSet(Seconds(closed)) /\ MergedSeconds(closed) = Rounded(Cardinality(Seconds(closed)))
  BY <1>6, <1>7, Merged
<1>10. Cardinality(BreakSeconds(from, to, rows)) \in 0 .. to - from
  <2>1. PICK z \in Int : z = to - 1
    BY <1>1
  <2>2. IsFiniteSet(from .. z) /\ Cardinality(from .. z) = IF from > z THEN 0 ELSE z - from + 1
    BY <1>1, FS_Interval
  <2>3. BreakSeconds(from, to, rows) \in SUBSET (from .. z)
    BY <2>1 DEF BreakSeconds
  <2>4. Cardinality(BreakSeconds(from, to, rows)) <= Cardinality(from .. z)
    BY <2>2, <2>3, FS_Subset
  <2>5. Cardinality(BreakSeconds(from, to, rows)) \in Nat
    BY <1>8, <1>9, FS_CardinalityType
  <2>6. Cardinality(from .. z) = to - from
    BY <1>1, <2>1, <2>2
  <2> QED BY <1>1, <2>4, <2>5, <2>6
<1> QED BY <1>4, <1>8, <1>9, <1>10

LEMMA BreaksCounted ==
  ASSUME NEW rows \in SUBSET Breaks, IsFiniteSet(rows)
  PROVE  BreaksCountOnce(rows)
<1> SUFFICES ASSUME NEW from \in Instants, NEW to \in Instants, from <= to
             PROVE  LET d == ShiftDuration(from, to, rows) IN
                    /\ d.break = Rounded(CoveredTicks(from, to, rows))
                    /\ d.unpaid = Rounded(CoveredTicks(from, to, {x \in rows : IsDeductible(x.type)}))
                    /\ d.worked + d.unpaid = d.elapsed
  BY DEF BreaksCountOnce
<1>1. from \in Nat /\ to \in Nat
  BY HorizonAssumption DEF Instants
<1>2. PICK deducted \in SUBSET Breaks : deducted = {x \in rows : IsDeductible(x.type)}
  OBVIOUS
<1>3. IsFiniteSet(deducted)
  BY <1>2, FS_Subset
<1>4. PICK closed : closed = {ClosedIn(b, from, to) : b \in rows}
  OBVIOUS
<1>5. {b \in closed : IsDeductible(b.type)} = {ClosedIn(b, from, to) : b \in deducted}
  <2>1. \A b \in rows : ClosedIn(b, from, to).type = b.type
    BY DEF ClosedIn
  <2> QED BY <1>2, <1>4, <2>1
<1>6. PICK elapsed \in Int : elapsed = Rounded(to - from)
  <2>1. to - from \in Int
    BY <1>1
  <2> QED BY <2>1, Rounding
<1>7. PICK unpaid \in Int : /\ unpaid = MergedSeconds({b \in closed : IsDeductible(b.type)})
                           /\ unpaid = Rounded(CoveredTicks(from, to, deducted))
                           /\ unpaid <= elapsed
  <2>1. PICK ticks : ticks = Cardinality(BreakSeconds(from, to, deducted))
    OBVIOUS
  <2>2. /\ ticks \in 0 .. to - from
        /\ MergedSeconds({ClosedIn(b, from, to) : b \in deducted}) = Rounded(ticks)
    BY <1>3, <2>1, ClosedBreaks
  <2>3. ticks = CoveredTicks(from, to, deducted)
    BY <2>1 DEF CoveredTicks, BreakSeconds
  <2>4. ticks \in Int /\ to - from \in Int /\ ticks <= to - from
    BY <1>1, <2>2
  <2>5. Rounded(ticks) \in Int /\ Rounded(ticks) <= elapsed
    BY <1>6, <2>4, Rounding, RoundingOrdered
  <2> QED BY <1>5, <2>2, <2>3, <2>5
<1>8. MergedSeconds(closed) = Rounded(CoveredTicks(from, to, rows))
  BY <1>4, ClosedBreaks DEF CoveredTicks, BreakSeconds
<1>9. PICK worked \in Int : worked = elapsed - unpaid /\ worked >= 0
  <2>1. elapsed \in Int /\ unpaid \in Int /\ unpaid <= elapsed
    BY <1>6, <1>7
  <2> QED BY <2>1
<1>10. ShiftDuration(from, to, rows) =
        [elapsed |-> elapsed, break |-> MergedSeconds(closed), unpaid |-> unpaid, worked |-> worked]
  BY <1>4, <1>6, <1>7, <1>9 DEF ShiftDuration
<1>11. worked + unpaid = elapsed
  BY <1>9
<1> QED BY <1>2, <1>7, <1>8, <1>10, <1>11

Pausing == [pauses : SUBSET [start : Nat, end : Nat], since : Nat \cup {Unended}]

LEMMA Hearing ==
  ASSUME NEW p \in Pausing, NEW e \in Pauses
  PROVE  /\ Heard(p, e) \in Pausing
         /\ e.type = "TRACKING_PAUSED" =>
              /\ Heard(p, e).pauses = p.pauses
              /\ Heard(p, e).since = IF p.since = Unended THEN e.at ELSE p.since
         /\ e.type # "TRACKING_PAUSED" =>
              /\ Heard(p, e).since = Unended
              /\ Heard(p, e).pauses = IF p.since = Unended THEN p.pauses
                                      ELSE p.pauses \cup {[start |-> p.since, end |-> e.at]}
<1>1. PICK at \in Nat : at = e.at
  BY HorizonAssumption DEF Pauses, Instants
<1>2. PICK none : none = Unended
  OBVIOUS
<1>3. p.since # none => p.since \in Nat
  BY <1>2 DEF Pausing
<1>4. CASE e.type = "TRACKING_PAUSED" /\ p.since = none
  <2>1. Heard(p, e) = [p EXCEPT !.since = at]
    BY <1>1, <1>2, <1>4 DEF Heard
  <2> QED BY <1>1, <1>2, <1>4, <2>1 DEF Pausing
<1>5. CASE e.type # "TRACKING_PAUSED" /\ p.since # none
  <2>1. PICK new \in [start : Nat, end : Nat] : new = [start |-> p.since, end |-> at]
    BY <1>3, <1>5
  <2>2. PICK all \in SUBSET [start : Nat, end : Nat] : all = p.pauses \cup {new}
    BY DEF Pausing
  <2>3. Heard(p, e) = [pauses |-> all, since |-> none]
    BY <1>1, <1>2, <1>5, <2>1, <2>2 DEF Heard
  <2>4. none \in Nat \cup {Unended}
    BY <1>2
  <2> QED BY <1>1, <1>2, <1>5, <2>1, <2>2, <2>3, <2>4 DEF Pausing
<1>6. CASE e.type = "TRACKING_PAUSED" /\ p.since # none
  <2>1. Heard(p, e) = p
    BY <1>2, <1>6 DEF Heard
  <2> QED BY <1>2, <1>6, <2>1
<1>7. CASE e.type # "TRACKING_PAUSED" /\ p.since = none
  <2>1. Heard(p, e) = p
    BY <1>2, <1>7 DEF Heard
  <2> QED BY <1>2, <1>7, <2>1
<1> QED BY <1>4, <1>5, <1>6, <1>7

Hears(s, p) == FoldLeft(Heard, NeverPaused, s) = p

LEMMA HeardInTurn ==
  ASSUME NEW n \in Nat, NEW s \in [1 .. n -> Pauses]
  PROVE  \E h \in [0 .. n -> Pausing] :
           /\ h[0] = NeverPaused
           /\ \A i \in 1 .. n : h[i] = Heard(h[i - 1], s[i])
           /\ Hears(s, h[n])
<1>1. PICK step : step = [p \in (1 .. n) \X Pausing |-> Heard(p[2], s[p[1]])]
  OBVIOUS
<1>2. step \in [(1 .. n) \X Pausing -> Pausing]
  BY <1>1, Hearing
<1>3. NeverPaused \in Pausing
  BY DEF NeverPaused, Pausing
<1>4. PICK pick : pick = [x \in SUBSET (1 .. n) |-> Max(x)]
  OBVIOUS
<1>5. \A x \in SUBSET (1 .. n) : x # {} => pick[x] \in x
  BY <1>4, MaxOfCount
<1>6. IsFiniteSet(1 .. n)
  BY FS_Interval
<1>7. PICK g \in [SUBSET (1 .. n) -> Pausing] : Picked(g, 1 .. n, pick, step, NeverPaused)
  BY <1>2, <1>3, <1>5, <1>6, FoldExists
<1>8. g = [x \in SUBSET (1 .. n) |->
             IF x = {} THEN NeverPaused ELSE Heard(g[x \ {Max(x)}], s[Max(x)])]
  <2>1. ASSUME NEW x \in SUBSET (1 .. n)
        PROVE  g[x] = IF x = {} THEN NeverPaused ELSE Heard(g[x \ {Max(x)}], s[Max(x)])
    <3>1. CASE x = {}
      BY <3>1, <1>7 DEF Picked
    <3>2. CASE x # {}
      <4>1. PICK k \in 1 .. n : k = Max(x) /\ k = pick[x]
        BY <1>4, <1>5, <3>2
      <4>2. PICK y \in SUBSET (1 .. n) : y = x \ {k}
        OBVIOUS
      <4>3. PICK p \in Pausing : p = g[y]
        BY <1>7
      <4>4. g[x] = step[<<k, p>>]
        BY <1>7, <3>2, <4>1, <4>2, <4>3 DEF Picked
      <4>5. <<k, p>> \in (1 .. n) \X Pausing
        OBVIOUS
      <4>6. g[x] = Heard(p, s[k])
        BY <1>1, <4>4, <4>5
      <4> QED BY <3>2, <4>1, <4>2, <4>3, <4>6
    <3> QED BY <3>1, <3>2
  <2> QED BY <1>7, <2>1
<1>9. PICK f : f = CHOOSE k : k = [x \in SUBSET (1 .. n) |->
             IF x = {} THEN NeverPaused ELSE Heard(k[x \ {Max(x)}], s[Max(x)])]
  OBVIOUS
<1>10. f = [x \in SUBSET (1 .. n) |->
             IF x = {} THEN NeverPaused ELSE Heard(f[x \ {Max(x)}], s[Max(x)])]
  BY <1>8, <1>9
<1>11. Hears(s, f[1 .. n])
  BY <1>9 DEF Hears, FoldLeft, MapThenFoldSet
<1>12. PICK h : h = [i \in 0 .. n |-> f[1 .. i]]
  OBVIOUS
<1>13. h[0] = NeverPaused
  <2>1. 1 .. 0 = {} /\ 0 \in 0 .. n /\ {} \in SUBSET (1 .. n)
    OBVIOUS
  <2>2. h[0] = f[1 .. 0]
    BY <1>12, <2>1
  <2>3. f[{}] = NeverPaused
    BY <1>10, <2>1
  <2> QED BY <2>1, <2>2, <2>3
<1>14. ASSUME NEW i \in 1 .. n PROVE h[i] = Heard(h[i - 1], s[i])
  <2>1. PICK x \in SUBSET (1 .. n) : x = 1 .. i
    OBVIOUS
  <2>2. PICK j \in 0 .. n : j = i - 1
    OBVIOUS
  <2>3. PICK k \in 0 .. n : k = i
    OBVIOUS
  <2>4. h[k] = f[x] /\ h[j] = f[1 .. j]
    BY <1>12, <2>1, <2>3
  <2>5. Max(x) = i /\ x \ {Max(x)} = 1 .. j
    BY <2>1, <2>2, MaxOfCount
  <2>6. x # {}
    BY <2>1
  <2>7. f[x] = Heard(f[x \ {Max(x)}], s[Max(x)])
    BY <1>10, <2>6
  <2> QED BY <2>2, <2>3, <2>4, <2>5, <2>7
<1>15. PICK K : K = {i \in Nat : i <= n => h[i] \in Pausing}
  OBVIOUS
<1>16. 0 \in K
  BY <1>3, <1>13, <1>15
<1>17. ASSUME NEW i \in Nat, i \in K PROVE i + 1 \in K
  <2> SUFFICES ASSUME i + 1 <= n PROVE h[i + 1] \in Pausing
    BY <1>15
  <2>1. PICK j \in 1 .. n : j = i + 1 /\ j - 1 = i
    OBVIOUS
  <2>2. PICK p \in Pausing : p = h[i]
    BY <1>15, <1>17, <2>1
  <2>3. h[j] = Heard(p, s[j])
    BY <1>14, <2>1, <2>2
  <2>4. s[j] \in Pauses
    OBVIOUS
  <2> QED BY <2>1, <2>3, <2>4, Hearing
<1>18. \A i \in 0 .. n : h[i] \in Pausing
  <2>1. Nat \subseteq K
    BY <1>16, <1>17, Induction
  <2>2. \A i \in 0 .. n : i \in Nat /\ i <= n
    OBVIOUS
  <2> QED BY <1>15, <2>1, <2>2
<1>19. h \in [0 .. n -> Pausing] /\ h[n] = f[1 .. n]
  BY <1>12, <1>18
<1> QED BY <1>11, <1>13, <1>14, <1>19

(* A pause is on at t, of the first k events.                                       *)
PausedBy(s, k, t) ==
  \E i \in 1 .. k :
    /\ s[i].type = "TRACKING_PAUSED" /\ s[i].at <= t
    /\ \A j \in 1 .. k : j > i /\ s[j].at <= t => s[j].type = "TRACKING_PAUSED"

Disjoint(pauses) ==
  \A x, y \in pauses : x # y => x.end <= y.start \/ y.end <= x.start

(* What has been heard of the first k events: pauses that are over, apart and before what *)
(* is to come, and perhaps one since p.since; together the instants that were paused.     *)
Listening(s, n, k, p) ==
  /\ IsFiniteSet(p.pauses) /\ Disjoint(p.pauses)
  /\ \A x \in p.pauses : x.start <= x.end /\ \A j \in k + 1 .. n : x.end <= s[j].at
  /\ p.since # Unended => /\ \A x \in p.pauses : x.end <= p.since
                          /\ \A j \in k + 1 .. n : p.since <= s[j].at
  /\ \A t \in Nat : PausedBy(s, k, t) <=>
       \/ \E x \in p.pauses : x.start <= t /\ t < x.end
       \/ p.since # Unended /\ p.since <= t

LEMMA NextPaused ==
  ASSUME NEW n \in Nat, NEW s \in [1 .. n -> Pauses], NEW k \in 0 .. n - 1, NEW t \in Nat,
         \A i, j \in 1 .. n : i < j => s[i].at <= s[j].at
  PROVE  /\ t < s[k + 1].at => (PausedBy(s, k + 1, t) <=> PausedBy(s, k, t))
         /\ t >= s[k + 1].at => (PausedBy(s, k + 1, t) <=> s[k + 1].type = "TRACKING_PAUSED")
<1>1. PICK l \in 1 .. n : l = k + 1
  OBVIOUS
<1>2. PICK a \in Nat : a = s[l].at
  BY HorizonAssumption DEF Pauses, Instants
<1>3. \A i \in 1 .. k : s[i].at \in Nat /\ s[i].at <= a /\ i < l /\ i \in 1 .. n
  <2>1. \A i \in 1 .. k : i < l /\ i \in 1 .. n
    BY <1>1
  <2>2. \A i \in 1 .. n : s[i].at \in Nat
    BY HorizonAssumption DEF Pauses, Instants
  <2>3. \A i \in 1 .. k : s[i].at <= s[l].at
    BY <2>1
  <2> QED BY <1>2, <2>1, <2>2, <2>3
<1>4. \A i : i \in 1 .. l <=> i \in 1 .. k \/ i = l
  BY <1>1
<1>5. CASE t < a
  <2>1. ASSUME NEW i \in 1 .. l, s[i].at <= t PROVE i \in 1 .. k
    BY <1>2, <1>4, <1>5, <2>1
  <2>2. PausedBy(s, l, t) => PausedBy(s, k, t)
    BY <1>4, <2>1 DEF PausedBy
  <2>3. PausedBy(s, k, t) => PausedBy(s, l, t)
    BY <1>4, <2>1 DEF PausedBy
  <2> QED BY <1>1, <1>2, <1>5, <2>2, <2>3
<1>6. CASE t >= a
  <2>1. ASSUME s[l].type = "TRACKING_PAUSED" PROVE PausedBy(s, l, t)
    <3>1. l \in 1 .. l /\ \A j \in 1 .. l : ~(j > l)
      BY <1>1
    <3> QED BY <1>2, <1>6, <2>1, <3>1 DEF PausedBy
  <2>2. ASSUME PausedBy(s, l, t) PROVE s[l].type = "TRACKING_PAUSED"
    <3>1. PICK i \in 1 .. l :
            /\ s[i].type = "TRACKING_PAUSED" /\ s[i].at <= t
            /\ \A j \in 1 .. l : j > i /\ s[j].at <= t => s[j].type = "TRACKING_PAUSED"
      BY <2>2 DEF PausedBy
    <3>2. i = l \/ l > i
      BY <1>1
    <3>3. l \in 1 .. l
      BY <1>1
    <3> QED BY <1>2, <1>6, <3>1, <3>2, <3>3
  <2> QED BY <1>1, <1>2, <1>6, <2>1, <2>2
<1> QED BY <1>1, <1>2, <1>5, <1>6

LEMMA ListeningStep ==
  ASSUME NEW n \in Nat, NEW s \in [1 .. n -> Pauses], NEW k \in 0 .. n - 1, NEW p \in Pausing,
         \A i, j \in 1 .. n : i < j => s[i].at <= s[j].at, Listening(s, n, k, p)
  PROVE  Listening(s, n, k + 1, Heard(p, s[k + 1]))
<1>1. PICK l \in 1 .. n : l = k + 1
  OBVIOUS
<1>2. PICK e \in Pauses : e = s[l]
  OBVIOUS
<1>3. PICK a \in Nat : a = e.at
  BY HorizonAssumption DEF Pauses, Instants
<1>4. PICK q \in Pausing : q = Heard(p, e)
  BY Hearing
<1>5. /\ \A j \in l + 1 .. n : j \in k + 1 .. n /\ a <= s[j].at /\ s[j].at \in Nat
      /\ l \in k + 1 .. n
  <2>1. \A j \in l + 1 .. n : j \in k + 1 .. n /\ j \in 1 .. n /\ l < j
    BY <1>1
  <2>2. l \in k + 1 .. n
    BY <1>1
  <2> QED BY <1>2, <1>3, <2>1, <2>2, HorizonAssumption DEF Pauses, Instants
<1>6. \A x \in p.pauses : x.start \in Nat /\ x.end \in Nat /\ x.start <= x.end /\ x.end <= a
  <2>1. \A x \in p.pauses : x.start \in Nat /\ x.end \in Nat
    BY DEF Pausing
  <2>2. \A x \in p.pauses : x.start <= x.end /\ x.end <= s[l].at
    BY <1>5 DEF Listening
  <2> QED BY <1>2, <1>3, <2>1, <2>2
<1>7. p.since # Unended => /\ p.since \in Nat /\ p.since <= a
                           /\ \A x \in p.pauses : x.end <= p.since
  <2>1. p.since # Unended => p.since \in Nat
    BY DEF Pausing
  <2>2. p.since # Unended => p.since <= s[l].at /\ \A x \in p.pauses : x.end <= p.since
    BY <1>5 DEF Listening
  <2> QED BY <1>2, <1>3, <2>1, <2>2
<1>8. IsFiniteSet(p.pauses) /\ Disjoint(p.pauses)
  BY DEF Listening
<1>9. \A t \in Nat : t < a => (PausedBy(s, l, t) <=>
        \/ \E x \in p.pauses : x.start <= t /\ t < x.end
        \/ p.since # Unended /\ p.since <= t)
  BY <1>1, <1>2, <1>3, NextPaused DEF Listening
<1>10. \A t \in Nat : t >= a => (PausedBy(s, l, t) <=> e.type = "TRACKING_PAUSED")
  BY <1>1, <1>2, <1>3, NextPaused
<1>11. \A x \in p.pauses : \A j \in l + 1 .. n : x.end <= s[j].at
  BY <1>5 DEF Listening
<1>12. a # Unended
  BY DEF Unended
<1>13. CASE e.type = "TRACKING_PAUSED"
  <2>1. q.pauses = p.pauses /\ q.since = IF p.since = Unended THEN a ELSE p.since
    BY <1>3, <1>4, <1>13, Hearing
  <2>2. q.since \in Nat /\ q.since <= a /\ q.since # Unended
    BY <1>7, <1>12, <2>1
  <2>3. \A x \in q.pauses : x.end <= q.since
    BY <1>6, <1>7, <2>1
  <2>4. \A j \in l + 1 .. n : q.since <= s[j].at
    BY <1>5, <2>2
  <2>5. ASSUME NEW t \in Nat
        PROVE  PausedBy(s, l, t) <=> \/ \E x \in q.pauses : x.start <= t /\ t < x.end
                                     \/ q.since # Unended /\ q.since <= t
    <3>1. CASE t < a
      <4>1. p.since = Unended => ~(q.since <= t)
        BY <2>1, <3>1
      <4>2. p.since # Unended => q.since = p.since
        BY <2>1
      <4> QED BY <1>9, <2>1, <2>2, <3>1, <4>1, <4>2
    <3>2. CASE t >= a
      <4>1. q.since <= t
        BY <2>2, <3>2
      <4> QED BY <1>10, <1>13, <2>2, <3>2, <4>1
    <3> QED BY <3>1, <3>2
  <2>6. \A x \in q.pauses : x.start <= x.end /\ \A j \in l + 1 .. n : x.end <= s[j].at
    BY <1>6, <1>11, <2>1
  <2>7. Listening(s, n, l, q)
    BY <1>8, <2>1, <2>3, <2>4, <2>5, <2>6 DEF Listening
  <2> QED BY <1>1, <1>2, <1>4, <2>7
<1>14. CASE e.type # "TRACKING_PAUSED" /\ p.since = Unended
  <2>1. q.pauses = p.pauses /\ q.since = Unended
    BY <1>4, <1>14, Hearing
  <2>2. ASSUME NEW t \in Nat
        PROVE  PausedBy(s, l, t) <=> \E x \in q.pauses : x.start <= t /\ t < x.end
    BY <1>6, <1>9, <1>10, <1>14, <2>1
  <2>3. \A x \in q.pauses : x.start <= x.end /\ \A j \in l + 1 .. n : x.end <= s[j].at
    BY <1>6, <1>11, <2>1
  <2>4. Listening(s, n, l, q)
    BY <1>8, <2>1, <2>2, <2>3 DEF Listening
  <2> QED BY <1>1, <1>2, <1>4, <2>4
<1>15. CASE e.type # "TRACKING_PAUSED" /\ p.since # Unended
  <2>1. PICK b \in Nat : b = p.since
    BY <1>7, <1>15
  <2>2. PICK new : new = [start |-> b, end |-> a]
    OBVIOUS
  <2>3. new.start = b /\ new.end = a /\ b <= a /\ \A x \in p.pauses : x.end <= b
    BY <1>7, <1>15, <2>1, <2>2
  <2>4. q.pauses = p.pauses \cup {new} /\ q.since = Unended
    BY <1>3, <1>4, <1>15, <2>1, <2>2, Hearing
  <2>5. IsFiniteSet(q.pauses)
    BY <1>8, <2>4, FS_AddElement
  <2>6. Disjoint(q.pauses)
    BY <1>8, <2>3, <2>4 DEF Disjoint
  <2>7. \A x \in q.pauses : x.start <= x.end /\ \A j \in l + 1 .. n : x.end <= s[j].at
    BY <1>5, <1>6, <1>11, <2>3, <2>4
  <2>8. ASSUME NEW t \in Nat
        PROVE  PausedBy(s, l, t) <=> \E x \in q.pauses : x.start <= t /\ t < x.end
    <3>1. (\E x \in q.pauses : x.start <= t /\ t < x.end) <=>
            (\E x \in p.pauses : x.start <= t /\ t < x.end) \/ (b <= t /\ t < a)
      BY <2>3, <2>4
    <3>2. CASE t < a
      BY <1>9, <1>15, <2>1, <3>1, <3>2
    <3>3. CASE t >= a
      <4>1. ~(t < a) /\ \A x \in p.pauses : ~(t < x.end)
        BY <1>6, <3>3
      <4> QED BY <1>10, <1>15, <3>1, <3>3, <4>1
    <3> QED BY <3>2, <3>3
  <2>9. Listening(s, n, l, q)
    BY <2>4, <2>5, <2>6, <2>7, <2>8 DEF Listening
  <2> QED BY <1>1, <1>2, <1>4, <2>9
<1> QED BY <1>13, <1>14, <1>15

InTimeOrder(s) == \A i, j \in DOMAIN s : i < j => s[i].at <= s[j].at

(* Pauses that do not overlap, the last of them perhaps still on.                       *)
Separate(L) ==
  /\ IsFiniteSet(L)
  /\ \A x \in L : x.start \in Nat /\ x.end \in Nat \cup {Unended}
  /\ \A x, y \in L : x # y => \/ x.end # Unended /\ x.end <= y.start
                              \/ y.end # Unended /\ y.end <= x.start

On(x, t) == x.start <= t /\ (x.end = Unended \/ t < x.end)

(* listPauses reads off the log when the trip was paused, in stretches that are apart.     *)
LEMMA PausesListed ==
  ASSUME NEW s \in Seq(Pauses), InTimeOrder(s)
  PROVE  /\ Separate(ListPauses(s))
         /\ \A t \in Nat : PausedAt(s, t) <=> \E x \in ListPauses(s) : On(x, t)
<1>1. PICK n \in Nat : n = Len(s)
  OBVIOUS
<1>2. s \in [1 .. n -> Pauses] /\ DOMAIN s = 1 .. n
  BY <1>1
<1>3. \A i, j \in 1 .. n : i < j => s[i].at <= s[j].at
  BY <1>2 DEF InTimeOrder
<1>4. PICK h \in [0 .. n -> Pausing] : /\ h[0] = NeverPaused
                                       /\ \A i \in 1 .. n : h[i] = Heard(h[i - 1], s[i])
                                       /\ Hears(s, h[n])
  BY <1>2, HeardInTurn
<1>5. PICK K : K = {k \in Nat : k <= n => Listening(s, n, k, h[k])}
  OBVIOUS
<1>6. 0 \in K
  <2>1. PICK p : p = h[0]
    OBVIOUS
  <2>2. p.pauses = {} /\ p.since = Unended
    BY <1>4, <2>1 DEF NeverPaused
  <2>3. IsFiniteSet({})
    BY FS_EmptySet
  <2>4. \A t \in Nat : ~PausedBy(s, 0, t)
    BY DEF PausedBy
  <2>5. Listening(s, n, 0, p)
    BY <2>2, <2>3, <2>4 DEF Listening, Disjoint
  <2> QED BY <1>5, <2>1, <2>5
<1>7. ASSUME NEW k \in Nat, k \in K PROVE k + 1 \in K
  <2> SUFFICES ASSUME k + 1 <= n PROVE Listening(s, n, k + 1, h[k + 1])
    BY <1>5
  <2>1. k \in 0 .. n - 1 /\ k \in 0 .. n /\ k + 1 \in 1 .. n /\ (k + 1) - 1 = k /\ k <= n
    OBVIOUS
  <2>2. PICK p \in Pausing : p = h[k]
    BY <1>4, <2>1
  <2>3. Listening(s, n, k, p)
    BY <1>5, <1>7, <2>1, <2>2
  <2>4. h[k + 1] = Heard(p, s[k + 1])
    BY <1>4, <2>1, <2>2
  <2>5. Listening(s, n, k + 1, Heard(p, s[k + 1]))
    BY <1>2, <1>3, <2>1, <2>3, ListeningStep
  <2> QED BY <2>4, <2>5
<1>8. PICK p \in Pausing : p = h[n]
  BY <1>4
<1>9. Listening(s, n, n, p)
  <2>1. n \in K
    BY <1>6, <1>7, Induction
  <2> QED BY <1>5, <1>8, <2>1
<1>10. ListPauses(s) = p.pauses \cup
         (IF p.since = Unended THEN {} ELSE {[start |-> p.since, end |-> Unended]})
  <2>1. FoldLeft(Heard, NeverPaused, s) = p
    BY <1>4, <1>8 DEF Hears
  <2> QED BY <2>1 DEF ListPauses
<1>11. \A x \in p.pauses : x.start \in Nat /\ x.end \in Nat /\ x.end # Unended
  BY DEF Pausing, Unended
<1>12. p.since # Unended => p.since \in Nat /\ \A x \in p.pauses : x.end <= p.since
  BY <1>9 DEF Listening, Pausing
<1>13. IsFiniteSet(p.pauses) /\ Disjoint(p.pauses)
  BY <1>9 DEF Listening
<1>14. \A t \in Nat : PausedAt(s, t) <=> PausedBy(s, n, t)
  BY <1>2 DEF PausedAt, PausedBy
<1>15. \A t \in Nat : PausedAt(s, t) <=>
         \/ \E x \in p.pauses : x.start <= t /\ t < x.end
         \/ p.since # Unended /\ p.since <= t
  BY <1>9, <1>14 DEF Listening
<1>16. CASE p.since = Unended
  <2>1. ListPauses(s) = p.pauses
    BY <1>10, <1>16
  <2>2. Separate(ListPauses(s))
    BY <1>11, <1>13, <2>1 DEF Separate, Disjoint
  <2>3. \A t \in Nat : \A x \in p.pauses : On(x, t) <=> x.start <= t /\ t < x.end
    BY <1>11 DEF On
  <2> QED BY <1>15, <1>16, <2>1, <2>2, <2>3
<1>17. CASE p.since # Unended
  <2>1. PICK new : new = [start |-> p.since, end |-> Unended]
    OBVIOUS
  <2>2. PICK since \in Nat : since = p.since
    BY <1>12, <1>17
  <2>3. new.start = since /\ new.end = Unended
    BY <2>1, <2>2
  <2>4. ListPauses(s) = p.pauses \cup {new}
    BY <1>10, <1>17, <2>1
  <2>5. IsFiniteSet(ListPauses(s))
    BY <1>13, <2>4, FS_AddElement
  <2>6. Separate(ListPauses(s))
    BY <1>11, <1>12, <1>13, <1>17, <2>2, <2>3, <2>4, <2>5 DEF Separate, Disjoint
  <2>7. \A t \in Nat : \A x \in p.pauses : On(x, t) <=> x.start <= t /\ t < x.end
    BY <1>11 DEF On
  <2>8. \A t \in Nat : On(new, t) <=> since <= t
    BY <2>3 DEF On
  <2> QED BY <1>15, <1>17, <2>2, <2>4, <2>6, <2>7, <2>8
<1> QED BY <1>16, <1>17

PausedSum(from, to, L, add) == MapThenSumSet(LAMBDA p : PausedWithin(p, from, to), L) = add[L]

LEMMA PausesSummed ==
  ASSUME NEW from, NEW to, NEW L, IsFiniteSet(L), \A x \in L : PausedWithin(x, from, to) \in Nat
  PROVE  \E w \in [L -> Nat] : /\ w = [x \in L |-> PausedWithin(x, from, to)]
                               /\ \E add : AddsUp(add, L, w) /\ PausedSum(from, to, L, add)
<1>1. PICK w : w = [x \in L |-> PausedWithin(x, from, to)]
  OBVIOUS
<1>2. w \in [L -> Nat]
  BY <1>1
<1>3. PICK g \in [SUBSET L -> Nat] : AddsUp(g, L, w)
  BY <1>2, SumExists
<1>4. \A s \in SUBSET L : s # {} => w[First(s)] = PausedWithin(First(s), from, to)
  BY <1>1, Taken
<1>5. g = [s \in SUBSET L |->
             IF s = {} THEN 0 ELSE PausedWithin(First(s), from, to) + g[s \ {First(s)}]]
  <2>1. \A s \in SUBSET L :
          g[s] = IF s = {} THEN 0 ELSE PausedWithin(First(s), from, to) + g[s \ {First(s)}]
    BY <1>3, <1>4 DEF AddsUp
  <2> QED BY <2>1
<1>6. PICK add : add = CHOOSE k : k = [s \in SUBSET L |->
             IF s = {} THEN 0 ELSE PausedWithin(First(s), from, to) + k[s \ {First(s)}]]
  OBVIOUS
<1>7. add = [s \in SUBSET L |->
             IF s = {} THEN 0 ELSE PausedWithin(First(s), from, to) + add[s \ {First(s)}]]
  BY <1>5, <1>6
<1>8. AddsUp(add, L, w)
  BY <1>4, <1>7 DEF AddsUp
<1>9. PausedSum(from, to, L, add)
  BY <1>6 DEF PausedSum, MapThenSumSet, MapThenFoldSet, First
<1> QED BY <1>1, <1>2, <1>8, <1>9

(* The seconds of a trip some pause of T is on.                                      *)
OnDuring(T, from, to) == {t \in from .. to - 1 : \E x \in T : On(x, t)}

LEMMA OnePause ==
  ASSUME NEW from \in Nat, NEW to \in Nat, from <= to,
         NEW x, x.start \in Nat, x.end \in Nat \cup {Unended}
  PROVE  /\ PausedWithin(x, from, to) \in Nat
         /\ IsFiniteSet(OnDuring({x}, from, to))
         /\ RoundedFrom(PausedWithin(x, from, to), Cardinality(OnDuring({x}, from, to)), 1)
<1>1. PICK b \in Nat : b = x.start
  OBVIOUS
<1>2. PICK e \in Nat : e = IF x.end = Unended THEN to ELSE x.end
  OBVIOUS
<1>3. PICK lo \in Nat, hi \in Nat : /\ lo = Max({b, from}) /\ lo = IF b >= from THEN b ELSE from
                                    /\ hi = Min({e, to}) /\ hi = IF e <= to THEN e ELSE to
  BY MaxMinOfTwo
<1>4. PICK len \in Int : len = hi - lo
  OBVIOUS
<1>5. PICK r \in Int : r = Rounded(len) /\ 2 * (Second * r) <= 2 * len + Second
                     /\ 2 * len < 2 * (Second * r) + Second
  BY Rounding
<1>6. PICK p \in Nat : p = PausedWithin(x, from, to) /\ p = IF 0 >= r THEN 0 ELSE r
  <2>1. PausedWithin(x, from, to) = Max({0, r})
    BY <1>1, <1>2, <1>3, <1>4, <1>5 DEF PausedWithin
  <2> QED BY <2>1, MaxMinOfTwo
<1>7. PICK z \in Int : z = hi - 1
  OBVIOUS
<1>8. OnDuring({x}, from, to) = lo .. z
  <2>1. \A t : t \in from .. to - 1 <=> t \in Nat /\ from <= t /\ t < to
    OBVIOUS
  <2>2. \A t : t \in lo .. z <=> t \in Nat /\ lo <= t /\ t < hi
    BY <1>7
  <2>3. ASSUME NEW t \in Nat PROVE lo <= t /\ t < hi <=> from <= t /\ t < to /\ On(x, t)
    BY <1>1, <1>2, <1>3 DEF On
  <2> QED BY <2>1, <2>2, <2>3 DEF OnDuring
<1>9. IsFiniteSet(lo .. z) /\ Cardinality(lo .. z) = IF lo > z THEN 0 ELSE z - lo + 1
  <2>1. lo \in Int /\ z \in Int
    OBVIOUS
  <2> QED BY <2>1, FS_Interval
<1>10. PICK c \in Nat : c = Cardinality(OnDuring({x}, from, to)) /\ c = IF len <= 0 THEN 0 ELSE len
  BY <1>4, <1>7, <1>8, <1>9
<1>11. RoundedFrom(p, c, 1)
  <2>1. CASE len >= 0
    <3>1. 0 <= r
      <4>1. Rounded(0) <= r
        BY <1>5, <2>1, RoundingOrdered
      <4> QED BY <4>1, RoundedNothing
    <3>2. p = r /\ c = len
      BY <1>6, <1>10, <2>1, <3>1
    <3>3. Second * r \in Int /\ Second * 1 = Second /\ Second \in Int
      BY Scaled
    <3> QED BY <1>5, <3>2, <3>3 DEF RoundedFrom
  <2>2. CASE len < 0
    <3>1. r <= 0
      <4>1. r <= Rounded(0)
        BY <1>5, <2>2, RoundingOrdered
      <4> QED BY <4>1, RoundedNothing
    <3>2. p = 0 /\ c = 0
      BY <1>6, <1>10, <2>2, <3>1
    <3>3. Second * 0 = 0 /\ Second * 1 = Second /\ Second \in Nat
      BY Scaled
    <3> QED BY <3>2, <3>3 DEF RoundedFrom
  <2> QED BY <2>1, <2>2
<1> QED BY <1>6, <1>8, <1>9, <1>10, <1>11

(* What two roundings are off adds up.                                             *)
LEMMA RoundingsAdd ==
  ASSUME NEW a \in Int, NEW b \in Int, NEW x \in Int, NEW y \in Int, NEW k \in Int, NEW n \in Int,
         RoundedFrom(a, x, k), RoundedFrom(b, y, n)
  PROVE  RoundedFrom(a + b, x + y, k + n) /\ RoundedFrom(a - b, x - y, k + n)
<1>1. PICK sa \in Int, sb \in Int : sa = Second * a /\ sb = Second * b
  BY Scaled
<1>2. PICK sk \in Int, sn \in Int : sk = Second * k /\ sn = Second * n
  BY Scaled
<1>3. Second * (a + b) = sa + sb /\ Second * (a - b) = sa - sb /\ Second * (k + n) = sk + sn
  BY <1>1, <1>2, Scaled
<1>4. 2 * sa <= 2 * x + sk /\ 2 * x <= 2 * sa + sk
  BY <1>1, <1>2 DEF RoundedFrom
<1>5. 2 * sb <= 2 * y + sn /\ 2 * y <= 2 * sb + sn
  BY <1>1, <1>2 DEF RoundedFrom
<1>6. /\ 2 * (sa + sb) <= 2 * (x + y) + (sk + sn) /\ 2 * (x + y) <= 2 * (sa + sb) + (sk + sn)
      /\ 2 * (sa - sb) <= 2 * (x - y) + (sk + sn) /\ 2 * (x - y) <= 2 * (sa - sb) + (sk + sn)
  BY <1>4, <1>5
<1> QED BY <1>3, <1>6 DEF RoundedFrom

LEMMA PausesAddUp ==
  ASSUME NEW from \in Nat, NEW to \in Nat, from <= to, NEW L, Separate(L)
  PROVE  \E sum \in Nat :
           /\ sum = MapThenSumSet(LAMBDA p : PausedWithin(p, from, to), L)
           /\ RoundedFrom(sum, Cardinality(OnDuring(L, from, to)), Cardinality(L))
<1>1. IsFiniteSet(L) /\ \A x \in L : x.start \in Nat /\ x.end \in Nat \cup {Unended}
  BY DEF Separate
<1>2. \A x \in L : PausedWithin(x, from, to) \in Nat
  BY <1>1, OnePause
<1>3. PICK w \in [L -> Nat] : /\ w = [x \in L |-> PausedWithin(x, from, to)]
                              /\ \E add : AddsUp(add, L, w) /\ PausedSum(from, to, L, add)
  BY <1>1, <1>2, PausesSummed
<1>4. PICK add : AddsUp(add, L, w) /\ PausedSum(from, to, L, add)
  BY <1>3
<1>5. \A T \in SUBSET L : IsFiniteSet(OnDuring(T, from, to))
  <2> SUFFICES ASSUME NEW T \in SUBSET L PROVE IsFiniteSet(OnDuring(T, from, to))
    OBVIOUS
  <2>1. PICK z \in Int : z = to - 1
    OBVIOUS
  <2>2. IsFiniteSet(from .. z)
    BY FS_Interval
  <2>3. OnDuring(T, from, to) \in SUBSET (from .. z)
    BY <2>1 DEF OnDuring
  <2> QED BY <2>2, <2>3, FS_Subset
<1>6. ASSUME NEW T \in SUBSET L, NEW x \in T
      PROVE  \E c, d \in Nat : /\ d = Cardinality(OnDuring(T \ {x}, from, to))
                              /\ Cardinality(OnDuring(T, from, to)) = c + d
                              /\ RoundedFrom(w[x], c, 1)
  <2>1. PICK A, B : A = OnDuring({x}, from, to) /\ B = OnDuring(T \ {x}, from, to)
    OBVIOUS
  <2>2. OnDuring(T, from, to) = A \cup B
    BY <2>1 DEF OnDuring
  <2>3. ASSUME NEW t \in A, t \in B PROVE FALSE
    <3>1. t \in Nat /\ On(x, t)
      BY <2>1 DEF OnDuring
    <3>2. PICK y \in T : y # x /\ On(y, t)
      BY <2>1, <2>3 DEF OnDuring
    <3>3. x \in L /\ y \in L
      OBVIOUS
    <3>4. \/ x.end # Unended /\ x.end <= y.start
          \/ y.end # Unended /\ y.end <= x.start
      BY <3>2, <3>3 DEF Separate
    <3>5. x.start \in Nat /\ y.start \in Nat
      BY <1>1, <3>3
    <3>6. (x.end # Unended => x.end \in Nat) /\ (y.end # Unended => y.end \in Nat)
      BY <1>1, <3>3
    <3> QED BY <3>1, <3>2, <3>4, <3>5, <3>6 DEF On
  <2>4. A \cap B = {}
    BY <2>3
  <2>5. Cardinality(A \cap B) = 0
    BY <2>4, FS_EmptySet
  <2>6. IsFiniteSet(A) /\ IsFiniteSet(B)
    BY <1>5, <2>1
  <2>7. Cardinality(A) \in Nat /\ Cardinality(B) \in Nat
    BY <2>6, FS_CardinalityType
  <2>8. Cardinality(A \cup B) = Cardinality(A) + Cardinality(B) - Cardinality(A \cap B)
    BY <2>6, FS_Union
  <2>9. RoundedFrom(w[x], Cardinality(A), 1)
    BY <1>1, <1>3, <2>1, OnePause
  <2> QED BY <2>1, <2>2, <2>5, <2>7, <2>8, <2>9
<1> DEFINE Holds(T, m) ==
             add[T] \in Nat /\ RoundedFrom(add[T], Cardinality(OnDuring(T, from, to)), m)
<1>7. PICK K : K = {m \in Nat : \A T \in SUBSET L :
                      Cardinality(T) = m => Holds(T, m)}
  OBVIOUS
<1>8. 0 \in K
  <2> SUFFICES ASSUME NEW T \in SUBSET L, Cardinality(T) = 0 PROVE Holds(T, 0)
    BY <1>7
  <2>1. IsFiniteSet(T)
    BY <1>1, FS_Subset
  <2>2. T = {}
    BY <2>1, FS_EmptySet
  <2>3. OnDuring(T, from, to) = {}
    BY <2>2 DEF OnDuring
  <2>4. add[T] = 0
    BY <1>4, <2>2 DEF AddsUp
  <2>5. Cardinality(OnDuring(T, from, to)) = 0
    BY <2>3, FS_EmptySet
  <2>6. RoundedFrom(0, 0, 0)
    BY Scaled DEF RoundedFrom
  <2> QED BY <2>4, <2>5, <2>6
<1>9. ASSUME NEW m \in Nat, m \in K PROVE m + 1 \in K
  <2> SUFFICES ASSUME NEW T \in SUBSET L, Cardinality(T) = m + 1 PROVE Holds(T, m + 1)
    BY <1>7
  <2>1. T # {}
    <3>1. Cardinality({}) = 0
      BY FS_EmptySet
    <3> QED BY <3>1
  <2>2. PICK x \in T : x = First(T)
    BY <1>1, <2>1, Taken
  <2>3. PICK R \in SUBSET L : R = T \ {x}
    OBVIOUS
  <2>4. Cardinality(T \ {x}) = Cardinality(T) - 1
    BY <1>1, OneFewer
  <2>5. Cardinality(R) = m
    BY <2>3, <2>4
  <2>6. Holds(R, m)
    BY <1>7, <1>9, <2>5
  <2>7. add[T] = w[x] + add[R]
    BY <1>4, <2>1, <2>2, <2>3 DEF AddsUp
  <2>8. PICK c \in Nat, d \in Nat : /\ d = Cardinality(OnDuring(R, from, to))
                                  /\ Cardinality(OnDuring(T, from, to)) = c + d
                                  /\ RoundedFrom(w[x], c, 1)
    BY <1>6, <2>3
  <2>9. PICK a \in Nat, b \in Nat : a = w[x] /\ b = add[R]
    BY <1>3, <2>6
  <2>10. RoundedFrom(a, c, 1) /\ RoundedFrom(b, d, m)
    BY <2>6, <2>8, <2>9
  <2>11. RoundedFrom(a + b, c + d, 1 + m)
    BY <2>10, RoundingsAdd
  <2>12. 1 + m = m + 1
    OBVIOUS
  <2> QED BY <2>7, <2>8, <2>9, <2>11, <2>12
<1>10. PICK n \in Nat : n = Cardinality(L)
  BY <1>1, FS_CardinalityType
<1>11. n \in K
  BY <1>8, <1>9, Induction
<1>12. Holds(L, n)
  BY <1>7, <1>10, <1>11
<1> QED BY <1>4, <1>10, <1>12 DEF PausedSum

LEMMA PausesCounted ==
  ASSUME NEW s \in Seq(Pauses), InTimeOrder(s)
  PROVE  PausesCountOnce(s)
<1> SUFFICES ASSUME NEW from \in Instants, NEW to \in Instants, from <= to
             PROVE  LET pauses == ListPauses(s)
                        d == TripTotals(from, to, pauses, Horizon)
                        paused == Cardinality({t \in from .. to - 1 : PausedAt(s, t)})
                    IN /\ RoundedFrom(d.paused, paused, Cardinality(pauses))
                       /\ RoundedFrom(d.duration, to - from - paused, Cardinality(pauses) + 1)
                       /\ d.untracked <= d.duration
  BY DEF PausesCountOnce
<1>1. from \in Nat /\ to \in Nat /\ Horizon \in Int
  BY HorizonAssumption DEF Instants
<1>2. PICK L : L = ListPauses(s)
  OBVIOUS
<1>3. Separate(L) /\ \A t \in Nat : PausedAt(s, t) <=> \E x \in L : On(x, t)
  BY <1>2, PausesListed
<1>4. OnDuring(L, from, to) = {t \in from .. to - 1 : PausedAt(s, t)}
  <2>1. \A t \in from .. to - 1 : t \in Nat
    BY <1>1
  <2> QED BY <1>3, <2>1 DEF OnDuring
<1>5. PICK ticks : ticks = Cardinality(OnDuring(L, from, to))
  OBVIOUS
<1>6. PICK n \in Nat : n = Cardinality(L)
  BY <1>3, FS_CardinalityType DEF Separate
<1>7. PICK paused \in Nat : /\ paused = MapThenSumSet(LAMBDA p : PausedWithin(p, from, to), L)
                           /\ RoundedFrom(paused, ticks, n)
  BY <1>1, <1>3, <1>5, <1>6, PausesAddUp
<1>8. ticks \in Nat /\ ticks <= to - from
  <2>1. PICK z \in Int : z = to - 1
    BY <1>1
  <2>2. IsFiniteSet(from .. z) /\ Cardinality(from .. z) = IF from > z THEN 0 ELSE z - from + 1
    BY <1>1, FS_Interval
  <2>3. OnDuring(L, from, to) \in SUBSET (from .. z)
    BY <2>1 DEF OnDuring
  <2>4. IsFiniteSet(OnDuring(L, from, to)) /\ ticks <= Cardinality(from .. z)
    BY <1>5, <2>2, <2>3, FS_Subset
  <2>5. ticks \in Nat
    BY <1>5, <2>4, FS_CardinalityType
  <2>6. Cardinality(from .. z) = to - from
    BY <1>1, <2>1, <2>2
  <2> QED BY <2>4, <2>5, <2>6
<1>9. PICK span \in Nat : span = to - from
  BY <1>1
<1>10. PICK elapsed \in Int : elapsed = Rounded(to - from) /\ RoundedFrom(elapsed, span, 1)
  <2>0. span \in Int
    OBVIOUS
  <2>1. PICK r \in Int : r = Rounded(span) /\ 2 * (Second * r) <= 2 * span + Second
                       /\ 2 * span < 2 * (Second * r) + Second
    BY <2>0, Rounding
  <2>2. Second * r \in Int /\ Second * 1 = Second /\ Second \in Int
    BY Scaled
  <2>3. RoundedFrom(r, span, 1)
    BY <2>1, <2>2 DEF RoundedFrom
  <2> QED BY <1>9, <2>1, <2>3
<1>11. PICK left \in Int : left = elapsed - paused
  OBVIOUS
<1>12. RoundedFrom(left, span - ticks, n + 1)
  <2>0. elapsed \in Int /\ paused \in Int /\ span \in Int /\ ticks \in Int /\ 1 \in Int /\ n \in Int
    BY <1>8
  <2>1. RoundedFrom(elapsed - paused, span - ticks, 1 + n)
    BY <1>7, <1>10, <2>0, RoundingsAdd
  <2>2. 1 + n = n + 1
    OBVIOUS
  <2> QED BY <1>11, <2>1, <2>2
<1>13. PICK running \in Nat : running = Max({0, left}) /\ running = IF 0 >= left THEN 0 ELSE left
  BY MaxMinOfTwo
<1>14. RoundedFrom(running, span - ticks, n + 1)
  <2>1. CASE left >= 0
    BY <1>12, <1>13, <2>1
  <2>2. CASE left < 0
    <3>1. PICK rest \in Nat : rest = span - ticks
      BY <1>8, <1>9
    <3>2. PICK half \in Int, below \in Int : half = Second * (n + 1) /\ below = Second * left
      BY Scaled
    <3>3. 2 * rest <= 2 * below + half
      BY <1>12, <3>1, <3>2 DEF RoundedFrom
    <3>4. below < 0
      <4>1. PICK lost \in Nat : lost = 0 - left /\ lost > 0
        BY <2>2
      <4>2. Second * lost = Second * 0 - below /\ Second * lost \in Int /\ Second * 0 = 0
        BY <3>2, <4>1, Scaled
      <4>3. \A a \in Nat, b \in Nat : a > 0 /\ b > 0 => a * b > 0
        OBVIOUS
      <4>4. Second * lost > 0
        BY <4>1, <4>3, Scaled
      <4> QED BY <4>2, <4>4
    <3>5. Second * 0 = 0
      BY Scaled
    <3>6. running = 0
      BY <1>13, <2>2
    <3>7. 0 <= 2 * rest + half /\ 2 * rest <= half
      BY <3>3, <3>4
    <3> QED BY <3>1, <3>2, <3>5, <3>6, <3>7 DEF RoundedFrom
  <2> QED BY <2>1, <2>2
<1>15. PICK silent \in Int : silent = Min({Horizon, running}) /\ silent <= running
  <2>1. PICK gap \in Int : gap = Horizon
    BY <1>1
  <2>2. Min({gap, running}) = IF gap <= running THEN gap ELSE running
    <3>1. running \in Int
      OBVIOUS
    <3> QED BY <3>1, MaxMinOfTwo
  <2> QED BY <2>1, <2>2
<1>16. TripTotals(from, to, L, Horizon) =
         [elapsed |-> elapsed, paused |-> paused, duration |-> running, untracked |-> silent]
  BY <1>7, <1>10, <1>11, <1>13, <1>15 DEF TripTotals
<1>17. to - from - ticks = span - ticks
  BY <1>9
<1> QED BY <1>2, <1>4, <1>5, <1>6, <1>7, <1>14, <1>15, <1>16, <1>17

SheetInv ==
  /\ breaks \in SUBSET Breaks /\ IsFiniteSet(breaks)
  /\ events \in Seq(Pauses) /\ InTimeOrder(events)

LEMMA SheetBegins == SheetInit => SheetInv
<1> SUFFICES ASSUME SheetInit PROVE SheetInv
  OBVIOUS
<1>1. breaks = {} /\ events = <<>>
  BY DEF SheetInit
<1>2. IsFiniteSet({})
  BY FS_EmptySet
<1>3. <<>> \in Seq(Pauses) /\ InTimeOrder(<<>>)
  BY DEF InTimeOrder
<1> QED BY <1>1, <1>2, <1>3 DEF SheetInv

LEMMA SheetGrows == SheetInv /\ [SheetNext]_<<breaks, events>> => SheetInv'
<1> SUFFICES ASSUME SheetInv, [SheetNext]_<<breaks, events>> PROVE SheetInv'
  OBVIOUS
<1>1. ASSUME BreakOpened PROVE SheetInv'
  <2>1. PICK n \in Nat : n = Cardinality(breaks) + 1
    BY FS_CardinalityType DEF SheetInv
  <2>2. PICK at \in Instants, type \in {"PAID", "UNPAID", "MEAL"} :
          breaks' = breaks \cup {[id |-> n, start |-> at, end |-> Unended, type |-> type]}
    BY <1>1, <2>1 DEF BreakOpened
  <2>3. PICK b : b = [id |-> n, start |-> at, end |-> Unended, type |-> type]
    OBVIOUS
  <2>4. b \in Breaks
    BY <2>3 DEF Breaks
  <2>5. IsFiniteSet(breaks \cup {b})
    BY FS_AddElement DEF SheetInv
  <2>6. events' = events
    BY <1>1 DEF BreakOpened
  <2> QED BY <2>2, <2>3, <2>4, <2>5, <2>6 DEF SheetInv, InTimeOrder
<1>2. ASSUME BreakClosed PROVE SheetInv'
  <2>1. PICK b \in breaks : \E at \in Instants :
          b.end = Unended /\ b.start <= at /\ breaks' = (breaks \ {b}) \cup {[b EXCEPT !.end = at]}
    BY <1>2 DEF BreakClosed
  <2>2. PICK at \in Instants :
          b.end = Unended /\ b.start <= at /\ breaks' = (breaks \ {b}) \cup {[b EXCEPT !.end = at]}
    BY <2>1
  <2>3. PICK c : c = [b EXCEPT !.end = at]
    OBVIOUS
  <2>4. b \in Breaks
    BY DEF SheetInv
  <2>5. c \in Breaks
    BY <2>2, <2>3, <2>4 DEF Breaks
  <2>6. IsFiniteSet(breaks \ {b})
    BY FS_Subset DEF SheetInv
  <2>7. IsFiniteSet((breaks \ {b}) \cup {c})
    BY <2>6, FS_AddElement
  <2>8. events' = events
    BY <1>2 DEF BreakClosed
  <2> QED BY <2>2, <2>3, <2>5, <2>7, <2>8 DEF SheetInv, InTimeOrder
<1>3. ASSUME EventLogged PROVE SheetInv'
  <2>1. PICK e \in Pauses : /\ \A i \in DOMAIN events : events[i].at <= e.at
                            /\ events' = Append(events, e)
    BY <1>3 DEF EventLogged
  <2>2. PICK old, new : old = events /\ new = events'
    OBVIOUS
  <2>3. old \in Seq(Pauses) /\ InTimeOrder(old) /\ new = Append(old, e)
    BY <2>1, <2>2 DEF SheetInv
  <2>4. PICK n \in Nat : n = Len(old)
    BY <2>3
  <2>5. /\ new \in Seq(Pauses) /\ DOMAIN new = 1 .. n + 1 /\ DOMAIN old = 1 .. n
        /\ new[n + 1] = e /\ \A i \in 1 .. n : new[i] = old[i]
    BY <2>3, <2>4
  <2>6. \A i \in 1 .. n : old[i].at <= e.at
    BY <2>1, <2>2, <2>5
  <2>7. InTimeOrder(new)
    <3> SUFFICES ASSUME NEW i \in 1 .. n + 1, NEW j \in 1 .. n + 1, i < j
                 PROVE  new[i].at <= new[j].at
      BY <2>5 DEF InTimeOrder
    <3>1. i \in 1 .. n
      OBVIOUS
    <3>2. CASE j = n + 1
      BY <2>5, <2>6, <3>1, <3>2
    <3>3. CASE j \in 1 .. n
      BY <2>3, <2>5, <3>1, <3>3 DEF InTimeOrder
    <3> QED BY <3>2, <3>3
  <2>8. breaks' = breaks
    BY <1>3 DEF EventLogged
  <2> QED BY <2>2, <2>5, <2>7, <2>8 DEF SheetInv, InTimeOrder
<1>4. CASE UNCHANGED <<breaks, events>>
  BY <1>4 DEF SheetInv, InTimeOrder
<1> QED BY <1>1, <1>2, <1>3, <1>4 DEF SheetNext

(* The durations of a shift are rounded from what its breaks cover, each tick counted once, *)
(* whatever rows it has, repeated ones among them; and the totals of a trip from the ticks  *)
(* its log tells it was paused, each counted once, by half a second a rounding at most.     *)
THEOREM HoursArePartition == SheetSpec => []SecondsCountOnce
<1>1. SheetInv => SecondsCountOnce
  <2> SUFFICES ASSUME SheetInv PROVE SecondsCountOnce
    OBVIOUS
  <2>1. PICK rows, told : rows = breaks /\ told = events
    OBVIOUS
  <2>2. /\ rows \in SUBSET Breaks /\ IsFiniteSet(rows)
        /\ told \in Seq(Pauses) /\ InTimeOrder(told)
    BY <2>1 DEF SheetInv
  <2>3. BreaksCountOnce(rows)
    BY <2>2, BreaksCounted
  <2>4. PausesCountOnce(told)
    BY <2>2, PausesCounted
  <2> QED BY <2>1, <2>3, <2>4 DEF SecondsCountOnce
<1> QED BY <1>1, SheetBegins, SheetGrows, PTL DEF SheetSpec

---------------------------------------------------------------------------
(* The demo organization: a run that writes it has created it, alone.                   *)

DemoInv ==
  /\ seeds \in [Seed -> Run] /\ demo \in 0 .. StageCount
  /\ \A s \in Seed : seeds[s].phase \in {"organization", "demo"} => seeds[s].withDemo
  /\ \A s \in Seed : seeds[s].phase = "demo" => demo > 0 /\ demo < StageCount
  /\ DemoHasOneWriter

LEMMA StagesCounted == StageCount = 4
BY DEF StageCount

(* A run that does not write the demo, or stops writing it, leaves all of this as it is.   *)
LEMMA DemoUntouched ==
  ASSUME DemoInv, NEW s \in Seed, NEW q \in Run, To(s, q), demo' = demo,
         q.phase # "demo", seeds[s].phase # "failed",
         seeds[s].phase = "demo" => q.phase = "failed" /\ q.withDemo = seeds[s].withDemo,
         q.phase = "organization" => q.withDemo
  PROVE  DemoInv'
<1>1. /\ seeds' \in [Seed -> Run] /\ seeds'[s] = q
      /\ \A t \in Seed \ {s} : seeds'[t] = seeds[t]
  BY DEF To, DemoInv
<1>2. \A t \in Seed : seeds'[t].phase \in {"organization", "demo"} => seeds'[t].withDemo
  BY <1>1 DEF DemoInv
<1>3. \A t \in Seed : seeds'[t].phase = "demo" => t # s /\ seeds[t].phase = "demo"
  BY <1>1
<1>4. demo' \in 1 .. StageCount - 1 =>
        \E t \in Seed : seeds'[t].withDemo /\ seeds'[t].phase \in {"demo", "failed"}
  <2> SUFFICES ASSUME demo \in 1 .. StageCount - 1
               PROVE  \E t \in Seed : seeds'[t].withDemo /\ seeds'[t].phase \in {"demo", "failed"}
    OBVIOUS
  <2>1. PICK t \in Seed : seeds[t].withDemo /\ seeds[t].phase \in {"demo", "failed"}
    BY DEF DemoInv, DemoHasOneWriter
  <2> QED BY <1>1, <2>1
<1>5. DemoHasOneWriter'
  BY <1>3, <1>4 DEF DemoInv, DemoHasOneWriter
<1> QED BY <1>1, <1>2, <1>3, <1>5 DEF DemoInv

LEMMA DemoWritten ==
  ASSUME DemoInv, NEW s \in Seed, CreateDemo(s) \/ WriteDemo(s)
  PROVE  DemoInv'
<1>1. PICK b \in Run : b = seeds[s]
  BY DEF DemoInv
<1>2. CASE demo' = demo /\ CreateDemo(s)
  <2>1. PICK q : q = [b EXCEPT !.phase = "failed"]
    OBVIOUS
  <2>2. q \in Run /\ q.phase = "failed" /\ b.phase = "organization"
    BY <1>1, <1>2, <2>1 DEF Run, CreateDemo
  <2>3. To(s, q)
    BY <1>1, <1>2, <2>1 DEF CreateDemo, Abort, Enter, DemoInv
  <2> QED BY <1>1, <1>2, <2>2, <2>3, DemoUntouched
<1>3. CASE demo = 0 /\ demo' = 1 /\ Enter(s, "demo") /\ b.phase = "organization"
  <2>1. PICK q : q = [b EXCEPT !.phase = "demo"]
    OBVIOUS
  <2>2. q \in Run /\ q.phase = "demo" /\ q.withDemo
    BY <1>1, <1>3, <2>1 DEF Run, DemoInv
  <2>3. /\ seeds' \in [Seed -> Run] /\ seeds'[s] = q
        /\ \A t \in Seed \ {s} : seeds'[t] = seeds[t]
    BY <1>1, <1>3, <2>1, <2>2 DEF Enter, To, DemoInv
  <2>4. \A t \in Seed : seeds'[t].phase = "demo" => t = s
    BY <1>3, <2>3 DEF DemoInv
  <2>5. \A t \in Seed : seeds'[t].phase \in {"organization", "demo"} => seeds'[t].withDemo
    BY <2>2, <2>3 DEF DemoInv
  <2> QED BY <1>3, <2>2, <2>3, <2>4, <2>5, StagesCounted DEF DemoInv, DemoHasOneWriter
<1>4. CASE WriteDemo(s)
  <2>1. PICK next \in {"complete", "demo"} :
          /\ Enter(s, next) /\ demo' = demo + 1
          /\ next = IF demo' = StageCount THEN "complete" ELSE "demo"
    BY <1>4 DEF WriteDemo
  <2>2. PICK q : q = [b EXCEPT !.phase = next]
    OBVIOUS
  <2>3. b.phase = "demo" /\ b.withDemo /\ demo > 0 /\ demo < StageCount
    BY <1>1, <1>4 DEF WriteDemo, DemoInv
  <2>4. q \in Run /\ q.phase = next /\ q.withDemo
    BY <1>1, <2>2, <2>3 DEF Run
  <2>5. /\ seeds' \in [Seed -> Run] /\ seeds'[s] = q
        /\ \A t \in Seed \ {s} : seeds'[t] = seeds[t]
    BY <1>1, <2>1, <2>2, <2>4 DEF Enter, To, DemoInv
  <2>6. \A t \in Seed : seeds'[t].phase = "demo" => t = s
    BY <1>1, <2>3, <2>5 DEF DemoInv, DemoHasOneWriter
  <2>7. demo' \in 1 .. StageCount /\ (demo' # StageCount => next = "demo" /\ demo' < StageCount)
        /\ (next = "demo" => demo' < StageCount)
    BY <2>1, <2>3, StagesCounted DEF DemoInv
  <2>8. \A t \in Seed : seeds'[t].phase \in {"organization", "demo"} => seeds'[t].withDemo
    BY <2>4, <2>5 DEF DemoInv
  <2>9. DemoHasOneWriter'
    <3>1. demo' \in 1 .. StageCount - 1 =>
            seeds'[s].withDemo /\ seeds'[s].phase \in {"demo", "failed"}
      BY <2>4, <2>5, <2>7, StagesCounted
    <3> QED BY <2>6, <2>7, <3>1, StagesCounted DEF DemoHasOneWriter
  <2> QED BY <2>4, <2>5, <2>6, <2>7, <2>8, <2>9, StagesCounted DEF DemoInv
<1>5. CreateDemo(s) => \/ demo' = demo
                       \/ demo = 0 /\ demo' = 1 /\ Enter(s, "demo") /\ b.phase = "organization"
  BY <1>1 DEF CreateDemo
<1> QED BY <1>2, <1>3, <1>4, <1>5

(* However two seeds overlap or die, at most one of them writes the demo organization, and   *)
(* what is half-written has a writer still, or one that failed.                           *)
THEOREM DemoWrittenAlone == CatalogueSpec => []DemoHasOneWriter
<1>1. CatalogueInit => DemoInv
  <2> SUFFICES ASSUME CatalogueInit PROVE DemoInv
    OBVIOUS
  <2>1. NotRun \in Run /\ NotRun.phase = "idle"
    BY DEF NotRun, Run
  <2>2. seeds \in [Seed -> Run] /\ \A s \in Seed : seeds[s].phase = "idle"
    BY <2>1 DEF CatalogueInit
  <2> QED BY <2>2, StagesCounted DEF CatalogueInit, DemoInv, DemoHasOneWriter
<1>2. SeedingInv /\ DemoInv /\ [CatalogueNext]_catalogueVars => DemoInv'
  <2> SUFFICES ASSUME SeedingInv, DemoInv, [CatalogueNext]_catalogueVars PROVE DemoInv'
    OBVIOUS
  <2>1. ASSUME NEW s \in Seed, SeedStep(s) PROVE DemoInv'
    <3>1. PICK b \in Run : b = seeds[s]
      BY DEF DemoInv
    <3>2. CASE CreateDemo(s) \/ WriteDemo(s)
      BY <3>2, DemoWritten
    <3>3. CASE \E release \in Version, withDemo \in BOOLEAN : BeginSeed(s, release, withDemo)
      <4>1. PICK release \in Version, withDemo \in BOOLEAN : BeginSeed(s, release, withDemo)
        BY <3>3
      <4>2. PICK q : q = [phase |-> "statement", release |-> release, withDemo |-> withDemo,
                          at |-> 1, row |-> 0]
        OBVIOUS
      <4>3. q \in Run /\ q.phase = "statement" /\ To(s, q) /\ demo' = demo
        BY <4>1, <4>2 DEF BeginSeed, Run, tables
      <4>4. seeds[s].phase = "idle"
        BY <4>1 DEF BeginSeed, NotRun
      <4> QED BY <4>3, <4>4, DemoUntouched
    <3>4. CASE FindDemo(s) \/ Die(s)
      <4>1. PICK phase \in {"organization", "complete", "failed"} :
              /\ Enter(s, phase) /\ demo' = demo /\ Underway(s)
              /\ phase = "organization" => b.withDemo
              /\ b.phase = "demo" => phase = "failed"
        BY <3>1, <3>4 DEF FindDemo, Finished, Die, Abort, Underway, tables
      <4>2. PICK q : q = [b EXCEPT !.phase = phase]
        OBVIOUS
      <4>3. q \in Run /\ q.phase = phase /\ q.withDemo = b.withDemo /\ To(s, q)
        BY <3>1, <4>1, <4>2 DEF Run, Enter
      <4> QED BY <3>1, <4>1, <4>3, DemoUntouched DEF Underway
    <3>5. CASE Upsert(s) \/ UpsertGrant(s) \/ FindPrice(s) \/ CreatePrice(s) \/ FindRole(s)
               \/ WriteRole(s)
      <4>1. PICK q \in Run : /\ To(s, q) /\ demo' = demo
                             /\ q.phase \in {"statement", "create", "update", "failed"}
                             /\ b.phase \in {"statement", "create", "update"}
        <5>1. b.phase \in {"statement", "create", "update"} /\ demo' = demo
          BY <3>1, <3>5 DEF Upsert, UpsertGrant, FindPrice, CreatePrice, FindRole, WriteRole, Doing,
                            tables
        <5>2. PICK u : u = [b EXCEPT !.phase = "statement", !.at = @ + 1]
          OBVIOUS
        <5>3. PICK v : v = [b EXCEPT !.phase = "statement", !.at = @ + 1, !.row = 0]
          OBVIOUS
        <5>4. u \in Run /\ v \in Run /\ u.phase = "statement" /\ v.phase = "statement"
          <6>1. PICK phase : phase = "statement"
            OBVIOUS
          <6>2. PICK at \in Nat : at = b.at + 1
            BY <3>1 DEF Run
          <6>3. PICK row \in Nat : row = 0
            OBVIOUS
          <6>4. u = [b EXCEPT !.phase = phase, !.at = at]
            BY <5>2, <6>1, <6>2
          <6>5. v = [b EXCEPT !.phase = phase, !.at = at, !.row = row]
            BY <5>3, <6>1, <6>2, <6>3
          <6>6. u \in Run /\ u.phase = phase
            BY <3>1, <6>1, <6>4 DEF Run
          <6>7. v \in Run /\ v.phase = phase
            BY <3>1, <6>1, <6>5 DEF Run
          <6> QED BY <6>1, <6>6, <6>7
        <5>5. CASE Upsert(s) \/ UpsertGrant(s)
          BY <3>1, <5>1, <5>2, <5>4, <5>5 DEF Upsert, UpsertGrant, Advance
        <5>6. CASE Enter(s, "create") \/ Enter(s, "failed")
          <6>1. PICK phase \in {"create", "failed"} : Enter(s, phase)
            BY <5>6
          <6>2. PICK q : q = [b EXCEPT !.phase = phase]
            OBVIOUS
          <6>3. q \in Run /\ q.phase = phase /\ To(s, q)
            BY <3>1, <6>1, <6>2 DEF Run, Enter
          <6> QED BY <5>1, <6>3
        <5>7. CASE FindPrice(s) \/ CreatePrice(s)
          BY <3>1, <5>1, <5>2, <5>4, <5>6, <5>7 DEF FindPrice, CreatePrice, Advance, Abort
        <5>8. CASE WriteRole(s)
          BY <3>1, <5>1, <5>3, <5>4, <5>8 DEF WriteRole
        <5>9. CASE FindRole(s)
          <6>1. CASE Enter(s, "create")
            BY <5>6, <6>1
          <6>2. CASE \E n \in RowsOf(Current(s).key[1]) :
                       To(s, [seeds[s] EXCEPT !.phase = "update", !.row = n])
            <7>1. PICK n \in RowsOf(Current(s).key[1]) :
                       To(s, [seeds[s] EXCEPT !.phase = "update", !.row = n])
              BY <6>2
            <7>2. PICK q : q = [b EXCEPT !.phase = "update", !.row = n]
              OBVIOUS
            <7>3. n \in Nat
              BY <7>1 DEF RowsOf, SeedingInv
            <7>4. q \in Run /\ q.phase = "update"
              BY <3>1, <7>2, <7>3 DEF Run
            <7> QED BY <3>1, <5>1, <7>1, <7>2, <7>4
          <6> QED BY <5>9, <6>1, <6>2 DEF FindRole
        <5> QED BY <3>5, <5>5, <5>7, <5>8, <5>9
      <4> QED BY <3>1, <4>1, DemoUntouched
    <3> QED BY <2>1, <3>2, <3>3, <3>4, <3>5 DEF SeedStep
  <2>2. CASE UNCHANGED <<demo, seeds>>
    BY <2>2 DEF DemoInv, DemoHasOneWriter
  <2>3. ASSUME NEW n \in DOMAIN prices, Reprice(n) \/ Withdraw(n) PROVE UNCHANGED <<demo, seeds>>
    BY <2>3 DEF Reprice, Withdraw
  <2>4. UNCHANGED catalogueVars => UNCHANGED <<demo, seeds>>
    BY DEF catalogueVars, tables
  <2> QED BY <2>1, <2>2, <2>3, <2>4 DEF CatalogueNext
<1>3. DemoInv => DemoHasOneWriter
  BY DEF DemoInv
<1>4. CatalogueInit => SeedingInv
  BY SeedingInit, ScriptIsInOrder
<1>5. SeedingInv /\ [CatalogueNext]_catalogueVars => SeedingInv'
  BY SeedingStep, ScriptIsInOrder
<1> QED BY <1>1, <1>2, <1>3, <1>4, <1>5, PTL DEF CatalogueSpec
=============================================================================
