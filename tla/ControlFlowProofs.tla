------------------------- MODULE ControlFlowProofs -------------------------
(***************************************************************************)
(* Proofs about ControlFlow, for all bodies, however deep they nest: what  *)
(* is generated is well formed but for the places of its returns.          *)
(***************************************************************************)
EXTENDS ControlFlow, SequenceTheorems, TLAPS

(***************************************************************************)
(* Blocks.                                                                 *)
(***************************************************************************)
Branch == {"br", "test", "below"}

\* Code that goes on, and code that ends with its only branch.
Open(code) == \A k \in DOMAIN code : code[k].op \notin Branch

Finished(code) ==
  /\ Len(code) > 0
  /\ \A k \in DOMAIN code : code[k].op \in Branch <=> k = Len(code)

\* Branches lead to the first n blocks.
Leads(code, n) == \A k \in DOMAIN code : Targets(code[k]) \subseteq 1 .. n

\* The blocks bs, of which those of P are in the function; only a is not closed.
Shaped(bs, P, a) ==
  /\ \E S : bs \in Seq(Seq(S))
  /\ P \subseteq DOMAIN bs /\ a \in P
  /\ \A b \in DOMAIN bs : Leads(bs[b], Len(bs))
  /\ \A b \in DOMAIN bs \ P : bs[b] = << >>
  /\ \A b \in P : b # a => Finished(bs[b])

(***************************************************************************)
(* What is left to do.                                                     *)
(***************************************************************************)
Items == Syntax \cup [kind : {"goto", "place"}, block : Nat]
           \cup {[kind |-> "leave"], [kind |-> "call", value |-> "DeleteRegion"]}

Places(q) == {i \in DOMAIN q : q[i].kind = "place"}

Gotos(q) == {i \in DOMAIN q : q[i].kind = "goto"}

\* A branch is followed by the block to go on with, and there is no other way to
\* go on with a block.
Paired(q) ==
  /\ \A i \in Gotos(q) : i + 1 \in Places(q)
  /\ \A i \in Places(q) : i > 1 => i - 1 \in Gotos(q)

\* With n blocks, the blocks of q's places are those of B, each once.
Covers(q, B, n) ==
  /\ \A i \in Gotos(q) : q[i].block \in 1 .. n
  /\ \A i \in Places(q) : q[i].block \in B
  /\ \A i, j \in Places(q) : q[i].block = q[j].block => i = j
  /\ \A b \in B : \E i \in Places(q) : q[i].block = b

\* The rest of the body, where the blocks of P of n are in the function.
Planned(q, P, n) == q \in Seq(Items) /\ Paired(q) /\ Covers(q, (1 .. n) \ P, n)

\* What a statement leaves to do, if it creates the blocks above n up to m and
\* puts some of them into the function.
Arranged(q, B, m) ==
  /\ q \in Seq(Items) /\ Paired(q) /\ Covers(q, B, m)
  /\ q # << >> => 1 \notin Places(q) /\ Len(q) \notin Gotos(q)

AtPlace == todo # << >> /\ Head(todo).kind = "place"

Flow ==
  /\ Planned(todo, placed, Len(blocks))
  /\ Shaped(blocks, placed, at)
  /\ IF AtPlace THEN Finished(blocks[at]) ELSE Open(blocks[at])
  /\ outcome = "generated" => todo = << >>

(***************************************************************************)
(* Code.                                                                   *)
(***************************************************************************)
LEMMA CodeAppended ==
  ASSUME NEW S, NEW s \in Seq(S), NEW t \in Seq(S), NEW n, Open(s), Leads(s, n), Leads(t, n)
  PROVE  /\ Leads(s \o t, n)
         /\ Open(t) => Open(s \o t)
         /\ Finished(t) => Finished(s \o t)
<1>1. /\ Len(s) \in Nat /\ Len(t) \in Nat /\ DOMAIN s = 1 .. Len(s) /\ DOMAIN t = 1 .. Len(t)
      /\ Len(s \o t) = Len(s) + Len(t) /\ DOMAIN (s \o t) = 1 .. Len(s) + Len(t)
  OBVIOUS
<1>2. \A k \in 1 .. Len(s) + Len(t) :
        \/ k \in DOMAIN s /\ (s \o t)[k] = s[k]
        \/ k - Len(s) \in DOMAIN t /\ k > Len(s) /\ (s \o t)[k] = t[k - Len(s)]
  BY <1>1
<1>3. Leads(s \o t, n)
  BY <1>1, <1>2 DEF Leads
<1>4. Open(t) => Open(s \o t)
  BY <1>1, <1>2 DEF Open
<1>5. ASSUME Finished(t) PROVE Finished(s \o t)
  <2>1. Len(s \o t) > 0
    BY <1>1, <1>5 DEF Finished
  <2>2. ASSUME NEW k \in DOMAIN (s \o t)
        PROVE  (s \o t)[k].op \in Branch <=> k = Len(s \o t)
    <3>1. CASE k \in DOMAIN s /\ (s \o t)[k] = s[k]
      BY <1>1, <1>5, <3>1 DEF Open, Finished
    <3>2. CASE k - Len(s) \in DOMAIN t /\ k > Len(s) /\ (s \o t)[k] = t[k - Len(s)]
      BY <1>1, <1>5, <2>2, <3>2 DEF Finished
    <3> QED BY <1>1, <1>2, <2>2, <3>1, <3>2
  <2> QED BY <2>1, <2>2 DEF Finished
<1> QED BY <1>3, <1>4, <1>5

\* The builder's block is extended, and blocks are added.
LEMMA BlocksAppended ==
  ASSUME NEW S, blocks \in Seq(Seq(S)), at \in DOMAIN blocks, NEW code \in Seq(S), NEW more \in Seq(Seq(S)),
         blocks' = Emitted(code, more)
  PROVE  /\ blocks' \in Seq(Seq(S)) /\ Len(blocks') = Len(blocks) + Len(more)
         /\ blocks'[at] = blocks[at] \o code
         /\ \A b \in DOMAIN blocks : b # at => blocks'[b] = blocks[b]
         /\ \A b \in DOMAIN more : blocks'[Len(blocks) + b] = more[b]
<1>1. PICK B : B = blocks
  OBVIOUS
<1>2. PICK a : a = at
  OBVIOUS
<1>3. PICK L : L = blocks'
  OBVIOUS
<1>4. B \in Seq(Seq(S)) /\ a \in DOMAIN B
  BY <1>1, <1>2
<1> DEFINE longer == [B EXCEPT ![a] = @ \o code]
<1>5. L = longer \o more
  BY <1>1, <1>2, <1>3 DEF Emitted
<1>6. B[a] \o code \in Seq(S)
  BY <1>4
<1>7. longer \in Seq(Seq(S)) /\ Len(longer) = Len(B)
  BY <1>4, <1>6
<1>8. longer[a] = B[a] \o code /\ \A b \in DOMAIN B : b # a => longer[b] = B[b]
  BY <1>4
<1>9. DOMAIN longer = DOMAIN B /\ DOMAIN B = 1 .. Len(B)
  BY <1>4
<1> HIDE DEF longer
<1>10. L \in Seq(Seq(S)) /\ Len(L) = Len(B) + Len(more)
  <2>1. PICK T : T = Seq(S)
    OBVIOUS
  <2>2. longer \in Seq(T) /\ more \in Seq(T)
    BY <1>7, <2>1
  <2>3. longer \o more \in Seq(T) /\ Len(longer \o more) = Len(longer) + Len(more)
    BY <2>2
  <2> QED BY <1>5, <1>7, <2>1, <2>3
<1>11. \A b \in DOMAIN B : L[b] = longer[b]
  BY <1>5, <1>7, <1>9
<1>12. \A b \in DOMAIN more : L[Len(B) + b] = more[b]
  <2>1. PICK T : T = Seq(S)
    OBVIOUS
  <2>2. longer \in Seq(T) /\ more \in Seq(T)
    BY <1>7, <2>1
  <2>3. \A b \in DOMAIN more : (longer \o more)[Len(longer) + b] = more[b]
    BY <2>2, SMTT(30)
  <2> QED BY <1>5, <1>7, <2>3
<1>13. /\ L[a] = B[a] \o code
       /\ \A b \in DOMAIN B : b # a => L[b] = B[b]
  BY <1>4, <1>8, <1>11
<1> QED BY <1>1, <1>2, <1>3, <1>10, <1>12, <1>13

LEMMA LeadsFurther ==
  ASSUME NEW code, NEW m \in Nat, NEW n \in Nat, m <= n, Leads(code, m)
  PROVE  Leads(code, n)
<1>1. 1 .. m \subseteq 1 .. n
  OBVIOUS
<1> QED BY <1>1 DEF Leads

\* Code after which the builder stays in its block.
LEMMA ShapedIfEmitted ==
  ASSUME Shaped(blocks, placed, at), Open(blocks[at]),
         NEW T, NEW code \in Seq(T), Leads(code, Len(blocks)),
         blocks' = Emitted(code, << >>), placed' = placed, at' = at
  PROVE  /\ Shaped(blocks', placed', at') /\ Len(blocks') = Len(blocks)
         /\ Open(code) => Open(blocks'[at])
         /\ Finished(code) => Finished(blocks'[at])
<1>1. PICK R : blocks \in Seq(Seq(R))
  BY DEF Shaped
<1> DEFINE S == R \cup T
<1>2. blocks \in Seq(Seq(S)) /\ code \in Seq(S) /\ << >> \in Seq(Seq(S))
  <2>1. Seq(R) \subseteq Seq(S) /\ Seq(T) \subseteq Seq(S)
    OBVIOUS
  <2>2. Seq(Seq(R)) \subseteq Seq(Seq(S))
    BY <2>1
  <2> QED BY <1>1, <2>1, <2>2
<1> HIDE DEF S
<1>3. at \in DOMAIN blocks /\ blocks[at] \in Seq(S)
  BY <1>2 DEF Shaped
<1>4. /\ blocks' \in Seq(Seq(S)) /\ Len(blocks') = Len(blocks)
      /\ blocks'[at] = blocks[at] \o code
      /\ \A b \in DOMAIN blocks : b # at => blocks'[b] = blocks[b]
  <2>1. PICK more : more = << >>
    OBVIOUS
  <2>2. more \in Seq(Seq(S)) /\ Len(more) = 0 /\ blocks' = Emitted(code, more)
    BY <2>1
  <2>3. /\ blocks' \in Seq(Seq(S)) /\ Len(blocks') = Len(blocks) + Len(more)
        /\ blocks'[at] = blocks[at] \o code
        /\ \A b \in DOMAIN blocks : b # at => blocks'[b] = blocks[b]
    BY <1>2, <1>3, <2>2, BlocksAppended
  <2>4. Len(blocks') = Len(blocks)
    BY <1>2, <2>2, <2>3
  <2> QED BY <2>3, <2>4
<1>5. DOMAIN blocks' = DOMAIN blocks
  BY <1>2, <1>4
<1>c. Leads(blocks[at], Len(blocks))
  BY <1>3 DEF Shaped
<1>6. /\ Leads(blocks'[at], Len(blocks))
      /\ Open(code) => Open(blocks'[at])
      /\ Finished(code) => Finished(blocks'[at])
  BY <1>2, <1>3, <1>4, <1>c, CodeAppended
<1> QED BY <1>3, <1>4, <1>5, <1>6 DEF Shaped

\* Code that ends with a branch, and the blocks n + 1 to m that are created: the
\* builder goes on in a, the others of D are closed.
Branched(code, more, n, m, D, a) ==
  /\ Finished(code) /\ Leads(code, m)
  /\ \A b \in DOMAIN more : /\ Leads(more[b], m)
                            /\ n + b \notin D => more[b] = << >>
                            /\ n + b \in D /\ n + b # a => Finished(more[b])
  /\ Open(more[a - n])

LEMMA ShapedIfBranched ==
  ASSUME Shaped(blocks, placed, at), Open(blocks[at]),
         NEW T, NEW code \in Seq(T), NEW more \in Seq(Seq(T)),
         NEW n, n = Len(blocks), NEW m, m = n + Len(more),
         NEW D \in SUBSET (n + 1 .. m), NEW a \in D,
         Branched(code, more, n, m, D, a),
         blocks' = Emitted(code, more), placed' = placed \cup D, at' = a
  PROVE  Shaped(blocks', placed', at') /\ Len(blocks') = m /\ Open(blocks'[at'])
<1>0. /\ Finished(code) /\ Leads(code, m)
      /\ \A b \in DOMAIN more : /\ Leads(more[b], m)
                                /\ n + b \notin D => more[b] = << >>
                                /\ n + b \in D /\ n + b # a => Finished(more[b])
      /\ Open(more[a - n])
  BY DEF Branched
<1>1. PICK R : blocks \in Seq(Seq(R))
  BY DEF Shaped
<1> DEFINE S == R \cup T
<1>2. blocks \in Seq(Seq(S)) /\ code \in Seq(S) /\ more \in Seq(Seq(S))
  <2>1. Seq(R) \subseteq Seq(S) /\ Seq(T) \subseteq Seq(S)
    OBVIOUS
  <2>2. Seq(Seq(R)) \subseteq Seq(Seq(S)) /\ Seq(Seq(T)) \subseteq Seq(Seq(S))
    BY <2>1
  <2> QED BY <1>1, <2>1, <2>2
<1> HIDE DEF S
<1>3. at \in DOMAIN blocks /\ blocks[at] \in Seq(S)
  BY <1>2 DEF Shaped
<1>4. /\ blocks' \in Seq(Seq(S)) /\ Len(blocks') = m
      /\ blocks'[at] = blocks[at] \o code
      /\ \A b \in DOMAIN blocks : b # at => blocks'[b] = blocks[b]
      /\ \A b \in DOMAIN more : blocks'[n + b] = more[b]
  <2>1. blocks \in Seq(Seq(S)) /\ at \in DOMAIN blocks /\ blocks' = Emitted(code, more)
    BY <1>2, <1>3
  <2>2. code \in Seq(S) /\ more \in Seq(Seq(S))
    BY <1>2
  <2> QED BY <2>1, <2>2, BlocksAppended
<1>5. /\ n \in Nat /\ m \in Nat /\ n <= m /\ DOMAIN blocks = 1 .. n
      /\ DOMAIN blocks' = 1 .. m /\ DOMAIN more = 1 .. m - n
  BY <1>2, <1>4
<1>6. \A b \in 1 .. m : b \in DOMAIN blocks \/ (b - n \in DOMAIN more /\ b = n + (b - n))
  BY <1>5
<1>7. Leads(blocks'[at], m) /\ Finished(blocks'[at])
  <2>1. Leads(blocks[at], m)
    BY <1>3, <1>5, LeadsFurther DEF Shaped
  <2> QED BY <1>0, <1>2, <1>3, <1>4, <2>1, CodeAppended
<1>8. \A b \in DOMAIN blocks' : Leads(blocks'[b], m)
  <2> SUFFICES ASSUME NEW b \in DOMAIN blocks'
               PROVE  Leads(blocks'[b], m)
    OBVIOUS
  <2>1. CASE b = at
    BY <1>7, <2>1
  <2>2. CASE b \in DOMAIN blocks /\ b # at
    <3>1. Leads(blocks[b], m)
      BY <1>5, <2>2, LeadsFurther DEF Shaped
    <3> QED BY <1>0, <1>4, <2>2, <3>1
  <2>3. CASE b - n \in DOMAIN more /\ b = n + (b - n)
    BY <1>0, <1>4, <2>3
  <2> QED BY <1>5, <1>6, <2>1, <2>2, <2>3
<1>9. a \in DOMAIN blocks' /\ a - n \in DOMAIN more /\ a = n + (a - n) /\ a \notin DOMAIN blocks
  BY <1>5
<1>10. placed' \subseteq DOMAIN blocks' /\ D \cap DOMAIN blocks = {} /\ placed \subseteq DOMAIN blocks
  <2>1. placed \subseteq 1 .. n
    BY <1>5 DEF Shaped
  <2>2. 1 .. n \subseteq 1 .. m /\ D \subseteq 1 .. m /\ D \cap 1 .. n = {}
    BY <1>5
  <2> QED BY <1>5, <2>1, <2>2
<1>11. \A b \in DOMAIN blocks' \ placed' : blocks'[b] = << >>
  <2> SUFFICES ASSUME NEW b \in DOMAIN blocks', b \notin placed, b \notin D
               PROVE  blocks'[b] = << >>
    OBVIOUS
  <2>1. CASE b \in DOMAIN blocks
    BY <1>4, <2>1 DEF Shaped
  <2>2. CASE b - n \in DOMAIN more /\ b = n + (b - n)
    BY <1>0, <1>4, <2>2
  <2> QED BY <1>5, <1>6, <2>1, <2>2
<1>12. \A b \in placed' : b # a => Finished(blocks'[b])
  <2> SUFFICES ASSUME NEW b \in placed', b # a
               PROVE  Finished(blocks'[b])
    OBVIOUS
  <2>1. CASE b \in placed
    BY <1>4, <1>7, <1>10, <2>1 DEF Shaped
  <2>2. CASE b \in D
    <3>1. b - n \in DOMAIN more /\ b = n + (b - n)
      BY <1>5, <2>2
    <3> QED BY <1>0, <1>4, <2>2, <3>1
  <2> QED BY <2>1, <2>2
<1>13. Open(blocks'[a])
  BY <1>0, <1>4, <1>9
<1> QED BY <1>4, <1>8, <1>9, <1>10, <1>11, <1>12, <1>13 DEF Shaped

(***************************************************************************)
(* What is left to do.                                                     *)
(***************************************************************************)
LEMMA PlannedThen ==
  ASSUME NEW q \in Seq(Items), q # << >>, NEW n \in Nat, NEW m \in Nat, n <= m,
         NEW P \in SUBSET (1 .. n), Planned(q, P, n), 1 \notin Places(q) \cup Gotos(q),
         NEW D \in SUBSET (n + 1 .. m), NEW items, Arranged(items, (n + 1 .. m) \ D, m)
  PROVE  /\ Planned(items \o Tail(q), P \cup D, m)
         /\ 1 \notin Places(items \o Tail(q))
<1> DEFINE rest == Tail(q)
           new == items \o rest
           l == Len(items)
<1>1. /\ items \in Seq(Items) /\ rest \in Seq(Items) /\ l \in Nat /\ DOMAIN items = 1 .. l
      /\ Len(q) \in Nat /\ Len(q) > 0 /\ DOMAIN q = 1 .. Len(q) /\ Len(rest) = Len(q) - 1
      /\ DOMAIN rest = 1 .. Len(q) - 1 /\ \A i \in DOMAIN rest : rest[i] = q[i + 1]
  BY DEF Arranged
<1>2. new \in Seq(Items) /\ Len(new) = l + Len(rest) /\ DOMAIN new = 1 .. l + Len(rest)
  BY <1>1
<1>3. \A i \in 1 .. l : i \in DOMAIN new /\ new[i] = items[i]
  BY <1>1, <1>2
<1>4. \A i \in l + 1 .. l + Len(rest) : i - l + 1 \in DOMAIN q /\ new[i] = q[i - l + 1]
  BY <1>1, <1>2
<1> HIDE DEF rest, new, l
<1>5. \A i \in DOMAIN new : \/ i \in DOMAIN items /\ new[i] = items[i]
                            \/ i > l /\ i - l + 1 \in DOMAIN q /\ new[i] = q[i - l + 1]
  <2>1. ASSUME NEW i \in DOMAIN new, i \notin 1 .. l
        PROVE  i > l /\ i - l + 1 \in DOMAIN q /\ new[i] = q[i - l + 1]
    <3>1. i \in l + 1 .. l + Len(rest) /\ i > l
      BY <1>1, <1>2, <2>1
    <3> QED BY <1>4, <3>1
  <2>2. ASSUME NEW i \in 1 .. l PROVE i \in DOMAIN items /\ new[i] = items[i]
    BY <1>1, <1>3
  <2> SUFFICES ASSUME NEW i \in DOMAIN new
               PROVE  \/ i \in DOMAIN items /\ new[i] = items[i]
                      \/ i > l /\ i - l + 1 \in DOMAIN q /\ new[i] = q[i - l + 1]
    OBVIOUS
  <2>3. CASE i \in 1 .. l
    BY <2>2, <2>3
  <2>4. CASE i \notin 1 .. l
    BY <2>1, <2>4
  <2> QED BY <2>3, <2>4
<1>6. \A i \in DOMAIN q : i > 1 => /\ i + l - 1 \in DOMAIN new /\ new[i + l - 1] = q[i]
  <2> SUFFICES ASSUME NEW i \in DOMAIN q, i > 1
               PROVE  i + l - 1 \in DOMAIN new /\ new[i + l - 1] = q[i]
    OBVIOUS
  <2>1. PICK k : k = i + l - 1
    OBVIOUS
  <2>2. k \in l + 1 .. l + Len(rest) /\ k - l + 1 = i
    <3>1. l \in Nat /\ Len(q) \in Nat /\ Len(rest) = Len(q) - 1 /\ i \in 1 .. Len(q)
      BY <1>1
    <3> QED BY <2>1, <3>1, SMTT(30)
  <2>3. k \in DOMAIN new
    BY <1>1, <1>2, <2>2
  <2>4. new[k] = q[k - l + 1]
    BY <1>4, <2>2
  <2> QED BY <2>1, <2>2, <2>3, <2>4
<1> DEFINE Of(kind, p) == {i \in DOMAIN p : p[i].kind = kind}
<1>7. \A kind : \A i \in Of(kind, new) :
        \/ i \in Of(kind, items) /\ new[i] = items[i]
        \/ i > l /\ i - l + 1 \in Of(kind, q) /\ new[i] = q[i - l + 1]
  BY <1>5
<1>8. \A kind : \A i \in Of(kind, items) : i \in Of(kind, new) /\ new[i] = items[i]
  BY <1>1, <1>3
<1>9. \A kind : \A i \in Of(kind, q) : i > 1 => i + l - 1 \in Of(kind, new) /\ new[i + l - 1] = q[i]
  BY <1>6
<1>10. \A p : Places(p) = Of("place", p) /\ Gotos(p) = Of("goto", p)
  BY DEF Places, Gotos
<1>11. \A kind : Of(kind, items) \subseteq 1 .. l /\ Of(kind, q) \subseteq 1 .. Len(q) /\ Of(kind, new) \subseteq Nat
  BY <1>1, <1>2
<1> HIDE DEF Of
<1>12. Paired(new)
  <2>1. ASSUME NEW i \in Of("goto", new) PROVE i + 1 \in Of("place", new)
    <3>1. CASE i \in Of("goto", items)
      BY <1>8, <1>10, <3>1 DEF Arranged, Paired
    <3>2. CASE i > l /\ i - l + 1 \in Of("goto", q)
      <4>1. PICK k : k = i - l + 2
        OBVIOUS
      <4>2. k \in Of("place", q) /\ k > 1 /\ k + l - 1 = i + 1
        <5>1. i - l + 1 + 1 \in Of("place", q)
          BY <1>10, <3>2 DEF Planned, Paired
        <5>2. i \in Nat
          BY <1>11, <2>1
        <5>3. i - l + 1 + 1 = k /\ k > 1 /\ k + l - 1 = i + 1
          BY <1>1, <3>2, <4>1, <5>2
        <5> QED BY <5>1, <5>3
      <4> QED BY <1>9, <4>2
    <3> QED BY <1>7, <2>1, <3>1, <3>2
  <2>2. ASSUME NEW i \in Of("place", new), i > 1 PROVE i - 1 \in Of("goto", new)
    <3>1. CASE i \in Of("place", items)
      BY <1>8, <1>10, <2>2, <3>1 DEF Arranged, Paired
    <3>2. CASE i > l /\ i - l + 1 \in Of("place", q)
      <4>1. PICK k : k = i - l
        OBVIOUS
      <4>2. k \in Of("goto", q) /\ k + l - 1 = i - 1
        <5>1. i - l + 1 > 1 /\ k = i - l + 1 - 1
          BY <1>1, <1>11, <3>2, <4>1
        <5> QED BY <1>1, <1>10, <1>11, <3>2, <4>1, <5>1 DEF Planned, Paired
      <4>3. k # 1 /\ k \in 1 .. Len(q)
        BY <1>10, <1>11, <4>2
      <4>4. k > 1
        BY <1>1, <4>3
      <4> QED BY <1>9, <4>2, <4>4
    <3> QED BY <1>7, <2>2, <3>1, <3>2
  <2> QED BY <1>10, <2>1, <2>2 DEF Paired
<1>13. (1 .. m) \ (P \cup D) = ((1 .. n) \ P) \cup ((n + 1 .. m) \ D) /\ (1 .. n) \cap (n + 1 .. m) = {}
       /\ 1 .. n \subseteq 1 .. m
  OBVIOUS
<1>14. Covers(q, (1 .. n) \ P, n) /\ Covers(items, (n + 1 .. m) \ D, m)
  BY DEF Planned, Arranged
<1>15. Covers(new, (1 .. m) \ (P \cup D), m)
  <2>1. \A i \in Gotos(new) : new[i].block \in 1 .. m
    BY <1>7, <1>10, <1>13, <1>14 DEF Covers
  <2>2. \A i \in Places(new) : new[i].block \in (1 .. m) \ (P \cup D)
    BY <1>7, <1>10, <1>13, <1>14 DEF Covers
  <2>3. ASSUME NEW i \in Places(new), NEW j \in Places(new), new[i].block = new[j].block
        PROVE  i = j
    <3>1. CASE i \in Places(items) /\ j \in Places(items) /\ new[i] = items[i] /\ new[j] = items[j]
      BY <1>14, <2>3, <3>1 DEF Covers
    <3>2. CASE /\ i - l + 1 \in Places(q) /\ j - l + 1 \in Places(q)
               /\ new[i] = q[i - l + 1] /\ new[j] = q[j - l + 1]
      <4>1. i - l + 1 = j - l + 1
        BY <1>14, <2>3, <3>2 DEF Covers
      <4> QED BY <1>1, <1>10, <1>11, <4>1
    <3>3. CASE i \in Places(items) /\ new[i] = items[i] /\ j - l + 1 \in Places(q) /\ new[j] = q[j - l + 1]
      BY <1>13, <1>14, <2>3, <3>3 DEF Covers
    <3>4. CASE j \in Places(items) /\ new[j] = items[j] /\ i - l + 1 \in Places(q) /\ new[i] = q[i - l + 1]
      BY <1>13, <1>14, <2>3, <3>4 DEF Covers
    <3> QED BY <1>7, <1>10, <2>3, <3>1, <3>2, <3>3, <3>4
  <2>4. ASSUME NEW b \in (1 .. m) \ (P \cup D) PROVE \E i \in Places(new) : new[i].block = b
    <3>1. CASE b \in (1 .. n) \ P
      <4>1. PICK i \in Places(q) : q[i].block = b
        BY <1>14, <3>1 DEF Covers
      <4>2. i > 1
        BY <1>10, <1>11, <4>1
      <4> QED BY <1>9, <1>10, <4>1, <4>2
    <3>2. CASE b \in (n + 1 .. m) \ D
      <4>1. PICK i \in Places(items) : items[i].block = b
        BY <1>14, <3>2 DEF Covers
      <4> QED BY <1>8, <1>10, <4>1
    <3> QED BY <1>13, <3>1, <3>2
  <2> QED BY <2>1, <2>2, <2>3, <2>4 DEF Covers
<1>16. 1 \notin Places(new)
  <2> SUFFICES ASSUME 1 \in Places(new)
               PROVE  FALSE
    OBVIOUS
  <2>1. CASE 1 \in Places(items)
    BY <1>1, <2>1 DEF Arranged, Places
  <2>2. CASE 1 > l /\ 1 - l + 1 \in Places(q)
    <3>1. 1 - l + 1 = 2
      BY <1>1, <2>2
    <3>2. 2 - 1 \in Gotos(q)
      BY <2>2, <3>1 DEF Planned, Paired
    <3> QED BY <3>2
  <2> QED BY <1>7, <1>10, <2>1, <2>2
<1> QED BY <1>2, <1>12, <1>15, <1>16 DEF Planned, new, rest

\* The places and branches of rest are those of q but for the first item.
TailOf(rest, q) ==
  /\ rest \in Seq(Items)
  /\ \A i \in Places(rest) : i \in Nat \ {0} /\ i + 1 \in Places(q) /\ rest[i] = q[i + 1]
  /\ \A i \in Gotos(rest) : i \in Nat \ {0} /\ i + 1 \in Gotos(q) /\ rest[i] = q[i + 1]
  /\ \A i \in Nat : i > 0 /\ i + 1 \in Places(q) => i \in Places(rest)
  /\ \A i \in Nat : i > 0 /\ i + 1 \in Gotos(q) => i \in Gotos(rest)
  /\ Places(q) \cup Gotos(q) \subseteq Nat \ {0}

LEMMA PlacesOfTail ==
  ASSUME NEW q \in Seq(Items), q # << >>, NEW rest, rest = Tail(q)
  PROVE  TailOf(rest, q)
<1>1. /\ rest \in Seq(Items) /\ Len(q) \in Nat /\ Len(q) > 0 /\ DOMAIN q = 1 .. Len(q)
      /\ DOMAIN rest = 1 .. Len(q) - 1 /\ \A i \in DOMAIN rest : rest[i] = q[i + 1]
  OBVIOUS
<1>2. \A i \in Nat : i > 0 /\ i + 1 \in DOMAIN q => i \in DOMAIN rest
  BY <1>1
<1>3. \A i \in DOMAIN rest : i \in Nat \ {0} /\ i + 1 \in DOMAIN q
  BY <1>1
<1>4. /\ \A i \in Places(rest) : i \in Nat \ {0} /\ i + 1 \in Places(q) /\ rest[i] = q[i + 1]
      /\ \A i \in Gotos(rest) : i \in Nat \ {0} /\ i + 1 \in Gotos(q) /\ rest[i] = q[i + 1]
  BY <1>1, <1>3 DEF Places, Gotos
<1>5. /\ \A i \in Nat : i > 0 /\ i + 1 \in Places(q) => i \in Places(rest)
      /\ \A i \in Nat : i > 0 /\ i + 1 \in Gotos(q) => i \in Gotos(rest)
  BY <1>1, <1>2 DEF Places, Gotos
<1>6. Places(q) \cup Gotos(q) \subseteq Nat \ {0}
  BY <1>1 DEF Places, Gotos
<1> QED BY <1>1, <1>4, <1>5, <1>6 DEF TailOf

LEMMA PairedTail ==
  ASSUME NEW q \in Seq(Items), q # << >>, Paired(q)
  PROVE  Paired(Tail(q))
<1>r. PICK rest : rest = Tail(q)
  OBVIOUS
<1>t. TailOf(rest, q)
  BY <1>r, PlacesOfTail
<1>a. /\ rest \in Seq(Items)
      /\ \A i \in Places(rest) : i \in Nat \ {0} /\ i + 1 \in Places(q) /\ rest[i] = q[i + 1]
      /\ \A i \in Gotos(rest) : i \in Nat \ {0} /\ i + 1 \in Gotos(q) /\ rest[i] = q[i + 1]
      /\ \A i \in Nat : i > 0 /\ i + 1 \in Places(q) => i \in Places(rest)
      /\ \A i \in Nat : i > 0 /\ i + 1 \in Gotos(q) => i \in Gotos(rest)
      /\ Places(q) \cup Gotos(q) \subseteq Nat \ {0}
  BY <1>t DEF TailOf
<1>1. ASSUME NEW i \in Gotos(rest) PROVE i + 1 \in Places(rest)
  <2>1. i \in Nat \ {0} /\ i + 1 + 1 \in Places(q)
    BY <1>1, <1>a DEF Paired
  <2> QED BY <2>1, <1>a
<1>2. ASSUME NEW i \in Places(rest), i > 1 PROVE i - 1 \in Gotos(rest)
  <2>1. i \in Nat /\ i + 1 \in Places(q)
    BY <1>2, <1>a
  <2>2. i + 1 - 1 \in Gotos(q)
    BY <1>2, <2>1 DEF Paired
  <2>3. i - 1 \in Nat /\ i - 1 > 0 /\ i - 1 + 1 = i + 1 - 1
    BY <1>2, <2>1
  <2> QED BY <2>2, <2>3, <1>a
<1> QED BY <1>r, <1>1, <1>2 DEF Paired

\* A branch is emitted.
LEMMA PlannedGoto ==
  ASSUME NEW q \in Seq(Items), q # << >>, NEW n \in Nat, NEW P \in SUBSET (1 .. n), Planned(q, P, n),
         1 \in Gotos(q)
  PROVE  Planned(Tail(q), P, n) /\ 1 \in Places(Tail(q)) /\ q[1].block \in 1 .. n
<1>r. PICK rest : rest = Tail(q)
  OBVIOUS
<1>t. TailOf(rest, q)
  BY <1>r, PlacesOfTail
<1>a. /\ rest \in Seq(Items)
      /\ \A i \in Places(rest) : i \in Nat \ {0} /\ i + 1 \in Places(q) /\ rest[i] = q[i + 1]
      /\ \A i \in Gotos(rest) : i \in Nat \ {0} /\ i + 1 \in Gotos(q) /\ rest[i] = q[i + 1]
      /\ \A i \in Nat : i > 0 /\ i + 1 \in Places(q) => i \in Places(rest)
      /\ \A i \in Nat : i > 0 /\ i + 1 \in Gotos(q) => i \in Gotos(rest)
      /\ Places(q) \cup Gotos(q) \subseteq Nat \ {0}
  BY <1>t DEF TailOf
<1>1. Paired(rest) /\ rest \in Seq(Items)
  BY <1>r, <1>a, PairedTail DEF Planned
<1>2. 1 \notin Places(q)
  BY DEF Places, Gotos
<1>3. 1 + 1 \in Places(q) /\ q[1].block \in 1 .. n
  BY DEF Planned, Paired, Covers
<1>4. 1 \in Places(rest)
  BY <1>3, <1>a
<1>5. Covers(q, (1 .. n) \ P, n)
  BY DEF Planned
<1>6. \A i \in Gotos(rest) : rest[i].block \in 1 .. n
  BY <1>5, <1>a DEF Covers
<1>7. \A i \in Places(rest) : rest[i].block \in (1 .. n) \ P
  BY <1>5, <1>a DEF Covers
<1>8. \A i, j \in Places(rest) : rest[i].block = rest[j].block => i = j
  <2> SUFFICES ASSUME NEW i \in Places(rest), NEW j \in Places(rest), rest[i].block = rest[j].block
               PROVE  i = j
    OBVIOUS
  <2>1. i \in Nat /\ j \in Nat /\ i + 1 = j + 1
    <3>1. i \in Nat /\ i + 1 \in Places(q) /\ rest[i] = q[i + 1]
      BY <1>a
    <3>2. j \in Nat /\ j + 1 \in Places(q) /\ rest[j] = q[j + 1]
      BY <1>a
    <3> QED BY <1>5, <3>1, <3>2 DEF Covers
  <2> QED BY <2>1
<1>9. ASSUME NEW b \in (1 .. n) \ P PROVE \E i \in Places(rest) : rest[i].block = b
  <2>1. PICK k \in Places(q) : q[k].block = b
    BY <1>5 DEF Covers
  <2>2. k \in Nat /\ k > 1
    BY <1>2, <1>a
  <2>3. k - 1 \in Nat /\ k - 1 > 0 /\ k - 1 + 1 = k
    BY <2>2
  <2>4. k - 1 \in Places(rest)
    BY <2>3, <1>a
  <2> QED BY <2>1, <2>3, <2>4, <1>a
<1>10. Covers(rest, (1 .. n) \ P, n)
  BY <1>6, <1>7, <1>8, <1>9 DEF Covers
<1> QED BY <1>r, <1>1, <1>3, <1>4, <1>10 DEF Planned

\* A block is put into the function.
LEMMA PlannedPlace ==
  ASSUME NEW q \in Seq(Items), q # << >>, NEW n \in Nat, NEW P \in SUBSET (1 .. n), Planned(q, P, n),
         1 \in Places(q)
  PROVE  /\ Planned(Tail(q), P \cup {q[1].block}, n) /\ 1 \notin Places(Tail(q))
         /\ q[1].block \in (1 .. n) \ P
<1>r. PICK rest : rest = Tail(q)
  OBVIOUS
<1>t. TailOf(rest, q)
  BY <1>r, PlacesOfTail
<1>a. /\ rest \in Seq(Items)
      /\ \A i \in Places(rest) : i \in Nat \ {0} /\ i + 1 \in Places(q) /\ rest[i] = q[i + 1]
      /\ \A i \in Gotos(rest) : i \in Nat \ {0} /\ i + 1 \in Gotos(q) /\ rest[i] = q[i + 1]
      /\ \A i \in Nat : i > 0 /\ i + 1 \in Places(q) => i \in Places(rest)
      /\ \A i \in Nat : i > 0 /\ i + 1 \in Gotos(q) => i \in Gotos(rest)
      /\ Places(q) \cup Gotos(q) \subseteq Nat \ {0}
  BY <1>t DEF TailOf
<1>1. Paired(rest) /\ rest \in Seq(Items)
  BY <1>r, <1>a, PairedTail DEF Planned
<1>2. 1 \notin Gotos(q)
  BY DEF Places, Gotos
<1>3. 1 \notin Places(rest)
  <2> SUFFICES ASSUME 1 \in Places(rest)
               PROVE  FALSE
    OBVIOUS
  <2>1. 1 + 1 \in Places(q)
    BY <1>a
  <2>2. 1 + 1 - 1 \in Gotos(q)
    BY <2>1 DEF Planned, Paired
  <2> QED BY <1>2, <2>2
<1>4. Covers(q, (1 .. n) \ P, n)
  BY DEF Planned
<1>5. q[1].block \in (1 .. n) \ P
  BY <1>4 DEF Covers
<1>6. \A i \in Gotos(rest) : rest[i].block \in 1 .. n
  BY <1>4, <1>a DEF Covers
<1>7. \A i \in Places(rest) : rest[i].block \in (1 .. n) \ (P \cup {q[1].block})
  <2> SUFFICES ASSUME NEW i \in Places(rest)
               PROVE  rest[i].block \in (1 .. n) \ P /\ rest[i].block # q[1].block
    OBVIOUS
  <2>1. i \in Nat \ {0} /\ i + 1 \in Places(q) /\ rest[i] = q[i + 1]
    BY <1>a
  <2>2. i + 1 # 1
    BY <2>1
  <2> QED BY <1>4, <2>1, <2>2 DEF Covers
<1>8. \A i, j \in Places(rest) : rest[i].block = rest[j].block => i = j
  <2> SUFFICES ASSUME NEW i \in Places(rest), NEW j \in Places(rest), rest[i].block = rest[j].block
               PROVE  i = j
    OBVIOUS
  <2>1. i \in Nat /\ j \in Nat /\ i + 1 = j + 1
    <3>1. i \in Nat /\ i + 1 \in Places(q) /\ rest[i] = q[i + 1]
      BY <1>a
    <3>2. j \in Nat /\ j + 1 \in Places(q) /\ rest[j] = q[j + 1]
      BY <1>a
    <3> QED BY <1>4, <3>1, <3>2 DEF Covers
  <2> QED BY <2>1
<1>9. ASSUME NEW b \in (1 .. n) \ (P \cup {q[1].block}) PROVE \E i \in Places(rest) : rest[i].block = b
  <2>1. PICK k \in Places(q) : q[k].block = b
    BY <1>4 DEF Covers
  <2>2. k \in Nat /\ k > 1
    BY <2>1, <1>a
  <2>3. k - 1 \in Nat /\ k - 1 > 0 /\ k - 1 + 1 = k
    BY <2>2
  <2>4. k - 1 \in Places(rest)
    BY <2>3, <1>a
  <2> QED BY <2>1, <2>3, <2>4, <1>a
<1>10. Covers(rest, (1 .. n) \ (P \cup {q[1].block}), n)
  BY <1>6, <1>7, <1>8, <1>9 DEF Covers
<1> QED BY <1>r, <1>1, <1>3, <1>5, <1>10 DEF Planned

(***************************************************************************)
(* Steps.                                                                  *)
(***************************************************************************)
LEMMA FlowMeans ==
  ASSUME Flow
  PROVE  /\ Len(blocks) \in Nat /\ DOMAIN blocks = 1 .. Len(blocks)
         /\ placed \in SUBSET (1 .. Len(blocks)) /\ at \in placed
         /\ todo \in Seq(Items)
         /\ todo # << >> => /\ Head(todo) = todo[1] /\ 1 \in DOMAIN todo /\ todo[1] \in Items
         /\ AtPlace <=> 1 \in Places(todo)
<1>1. PICK S : blocks \in Seq(Seq(S))
  BY DEF Flow, Shaped
<1>2. Len(blocks) \in Nat /\ DOMAIN blocks = 1 .. Len(blocks)
  BY <1>1
<1>3. placed \in SUBSET (1 .. Len(blocks)) /\ at \in placed
  BY <1>2 DEF Flow, Shaped
<1>4. todo \in Seq(Items)
  BY DEF Flow, Planned
<1>5. /\ todo # << >> => /\ Head(todo) = todo[1] /\ 1 \in DOMAIN todo /\ todo[1] \in Items
      /\ todo = << >> => DOMAIN todo = {}
  BY <1>4
<1>6. AtPlace <=> 1 \in Places(todo)
  BY <1>5 DEF AtPlace, Places
<1> QED BY <1>2, <1>3, <1>4, <1>5, <1>6

\* After a statement: the parts of the invariant make it up.
LEMMA FlowNext ==
  ASSUME Planned(todo', placed', Len(blocks')), Shaped(blocks', placed', at'),
         \/ 1 \in Places(todo') /\ Finished(blocks'[at'])
         \/ 1 \notin Places(todo') /\ Open(blocks'[at']),
         outcome' = "generated" => todo' = << >>
  PROVE  Flow'
<1>1. todo' \in Seq(Items)
  BY DEF Planned
<1>2. /\ todo' # << >> => Head(todo') = todo'[1] /\ 1 \in DOMAIN todo'
      /\ todo' = << >> => DOMAIN todo' = {}
  BY <1>1
<1>3. AtPlace' <=> 1 \in Places(todo')
  BY <1>2 DEF AtPlace, Places
<1> QED BY <1>3 DEF Flow

\* A statement: it may create blocks, and leave things to do.
LEMMA StatementStep ==
  ASSUME Flow, outcome = "generating", todo # << >>, Head(todo).kind \notin {"goto", "place"},
         NEW m \in Nat, Len(blocks) <= m, NEW D \in SUBSET (Len(blocks) + 1 .. m),
         NEW items, Arranged(items, (Len(blocks) + 1 .. m) \ D, m),
         todo' = items \o Tail(todo), placed' = placed \cup D,
         Shaped(blocks', placed', at'), Len(blocks') = m, Open(blocks'[at']), outcome' = outcome
  PROVE  Flow'
<1>1. PICK q : q = todo
  OBVIOUS
<1>2. PICK n : n = Len(blocks)
  OBVIOUS
<1>3. PICK P : P = placed
  OBVIOUS
<1>4. 1 \notin Places(q) \cup Gotos(q)
  BY <1>1, FlowMeans DEF Places, Gotos
<1>5. /\ q \in Seq(Items) /\ q # << >> /\ n \in Nat /\ P \in SUBSET (1 .. n) /\ Planned(q, P, n)
      /\ n <= m /\ D \in SUBSET (n + 1 .. m) /\ Arranged(items, (n + 1 .. m) \ D, m)
  BY <1>1, <1>2, <1>3, FlowMeans DEF Flow
<1>6. Planned(items \o Tail(q), P \cup D, m) /\ 1 \notin Places(items \o Tail(q))
  BY <1>4, <1>5, PlannedThen
<1>7. Planned(todo', placed', Len(blocks')) /\ 1 \notin Places(todo')
  BY <1>1, <1>3, <1>6
<1> QED BY <1>7, FlowNext

\* Code without branches.
Plain(code) == (\E T : code \in Seq(T)) /\ \A k \in DOMAIN code : code[k].op \notin Branch

LEMMA PlainCode ==
  ASSUME NEW x, NEW y, NEW z, x.op \notin Branch
  PROVE  /\ Plain(<<x>>)
         /\ y.op \notin Branch => Plain(<<x, y>>)
         /\ y.op \notin Branch /\ z.op \notin Branch => Plain(<<x, y, z>>)
<1>1. <<x>> \in Seq({x}) /\ <<x, y>> \in Seq({x, y}) /\ <<x, y, z>> \in Seq({x, y, z})
  OBVIOUS
<1>2. /\ \A k \in DOMAIN <<x>> : <<x>>[k] = x
      /\ \A k \in DOMAIN <<x, y>> : <<x, y>>[k] \in {x, y}
      /\ \A k \in DOMAIN <<x, y, z>> : <<x, y, z>>[k] \in {x, y, z}
  OBVIOUS
<1> QED BY <1>1, <1>2 DEF Plain

\* One that creates none.
LEMMA PlainStep ==
  ASSUME Flow, outcome = "generating", todo # << >>, Head(todo).kind \notin {"goto", "place"},
         NEW code, Plain(code), blocks' = Emitted(code, << >>), placed' = placed, at' = at,
         NEW items \in Seq(Items), Places(items) = {}, Gotos(items) = {}, Then(items), outcome' = outcome
  PROVE  Flow'
<1>1. Open(blocks[at]) /\ Shaped(blocks, placed, at)
  BY FlowMeans DEF Flow, Places, AtPlace
<1>2. Open(code) /\ Leads(code, Len(blocks))
  BY DEF Plain, Open, Leads, Targets, Branch
<1>3. Shaped(blocks', placed', at') /\ Len(blocks') = Len(blocks) /\ Open(blocks'[at'])
  BY <1>1, <1>2, ShapedIfEmitted DEF Plain
<1>4. PICK m : m = Len(blocks)
  OBVIOUS
<1>5. m \in Nat /\ Len(blocks) <= m /\ (Len(blocks) + 1 .. m) \ {} = {}
  BY <1>4, FlowMeans
<1>6. Arranged(items, (Len(blocks) + 1 .. m) \ {}, m)
  BY <1>5 DEF Arranged, Paired, Covers
<1>7. todo' = items \o Tail(todo) /\ placed' = placed \cup {} /\ {} \in SUBSET (Len(blocks) + 1 .. m)
  BY DEF Then
<1> QED BY <1>3, <1>4, <1>5, <1>6, <1>7, StatementStep

\* One that emits no code.
LEMMA SilentStep ==
  ASSUME Flow, outcome = "generating", todo # << >>, Head(todo).kind \notin {"goto", "place"},
         UNCHANGED <<blocks, placed, at, outcome>>,
         NEW items \in Seq(Items), Places(items) = {}, Gotos(items) = {}, Then(items)
  PROVE  Flow'
<1>1. Open(blocks[at]) /\ Shaped(blocks, placed, at)
  BY FlowMeans DEF Flow, Places, AtPlace
<1>2. Shaped(blocks', placed', at') /\ Len(blocks') = Len(blocks) /\ Open(blocks'[at'])
  BY <1>1
<1>4. PICK m : m = Len(blocks)
  OBVIOUS
<1>5. m \in Nat /\ Len(blocks) <= m /\ (Len(blocks) + 1 .. m) \ {} = {}
  BY <1>4, FlowMeans
<1>6. Arranged(items, (Len(blocks) + 1 .. m) \ {}, m)
  BY <1>5 DEF Arranged, Paired, Covers
<1>7. todo' = items \o Tail(todo) /\ placed' = placed \cup {} /\ {} \in SUBSET (Len(blocks) + 1 .. m)
  BY DEF Then
<1> QED BY <1>2, <1>4, <1>5, <1>6, <1>7, StatementStep

\* One that ends the builder's block and goes on in a, one of the blocks of D.
LEMMA BranchStep ==
  ASSUME Flow, outcome = "generating", todo # << >>, Head(todo).kind \notin {"goto", "place"},
         NEW n, n = Len(blocks), NEW T, NEW code \in Seq(T), NEW more \in Seq(Seq(T)),
         NEW m, m = n + Len(more), NEW D \in SUBSET (n + 1 .. m), NEW a \in D,
         Branched(code, more, n, m, D, a),
         NEW items, Arranged(items, (n + 1 .. m) \ D, m),
         blocks' = Emitted(code, more), placed' = placed \cup D, at' = a, Then(items), outcome' = outcome
  PROVE  Flow'
<1>1. Open(blocks[at]) /\ Shaped(blocks, placed, at)
  BY FlowMeans DEF Flow, Places, AtPlace
<1>2. Shaped(blocks', placed', at') /\ Len(blocks') = m /\ Open(blocks'[at'])
  BY <1>1, ShapedIfBranched
<1>3. m \in Nat /\ Len(blocks) <= m
  <2>1. Len(more) \in Nat
    OBVIOUS
  <2> QED BY <2>1, FlowMeans
<1>4. todo' = items \o Tail(todo)
  BY DEF Then
<1> QED BY <1>2, <1>3, <1>4, StatementStep

LEMMA GotoStep ==
  ASSUME Flow, Goto
  PROVE  Flow'
<1>1. /\ outcome = "generating" /\ todo # << >> /\ Head(todo).kind = "goto" /\ Head(todo) = todo[1]
      /\ 1 \in Gotos(todo) /\ 1 \notin Places(todo)
  BY FlowMeans DEF Goto, Doing, Gotos, Places
<1>2. PICK q : q = todo
  OBVIOUS
<1>3. PICK n : n = Len(blocks)
  OBVIOUS
<1>4. PICK P : P = placed
  OBVIOUS
<1>5. q \in Seq(Items) /\ q # << >> /\ n \in Nat /\ P \in SUBSET (1 .. n) /\ Planned(q, P, n) /\ 1 \in Gotos(q)
  BY <1>1, <1>2, <1>3, <1>4, FlowMeans DEF Flow
<1>6. Planned(Tail(q), P, n) /\ 1 \in Places(Tail(q)) /\ q[1].block \in 1 .. n
  BY <1>5, PlannedGoto
<1>7. PICK code : code = <<[op |-> "br", to |-> q[1].block]>>
  OBVIOUS
<1>8. PICK T : T = {[op |-> "br", to |-> q[1].block]}
  OBVIOUS
<1>9. code \in Seq(T) /\ Finished(code) /\ Leads(code, n)
  BY <1>6, <1>7, <1>8 DEF Finished, Leads, Targets, Branch
<1>10. blocks' = Emitted(code, << >>) /\ placed' = placed /\ at' = at
  BY <1>1, <1>2, <1>7 DEF Goto, Emit, Br, Statement
<1>11. Open(blocks[at]) /\ Shaped(blocks, placed, at)
  BY <1>1, FlowMeans DEF Flow
<1>12. Shaped(blocks', placed', at') /\ Len(blocks') = Len(blocks) /\ Finished(blocks'[at])
  BY <1>3, <1>9, <1>10, <1>11, ShapedIfEmitted
<1>13. todo' = Tail(todo) /\ outcome' = outcome
  BY FlowMeans DEF Then, Goto
<1>14. Planned(todo', placed', Len(blocks')) /\ 1 \in Places(todo')
  BY <1>2, <1>3, <1>4, <1>6, <1>10, <1>12, <1>13
<1> QED BY <1>1, <1>10, <1>12, <1>13, <1>14, FlowNext

LEMMA PlaceStep ==
  ASSUME Flow, Place
  PROVE  Flow'
<1>1. /\ outcome = "generating" /\ todo # << >> /\ Head(todo).kind = "place" /\ Head(todo) = todo[1]
      /\ 1 \in Places(todo)
  BY FlowMeans DEF Place, Doing, Places
<1>2. PICK q : q = todo
  OBVIOUS
<1>3. PICK n : n = Len(blocks)
  OBVIOUS
<1>4. PICK P : P = placed
  OBVIOUS
<1>5. q \in Seq(Items) /\ q # << >> /\ n \in Nat /\ P \in SUBSET (1 .. n) /\ Planned(q, P, n) /\ 1 \in Places(q)
  BY <1>1, <1>2, <1>3, <1>4, FlowMeans DEF Flow
<1>6. /\ Planned(Tail(q), P \cup {q[1].block}, n) /\ 1 \notin Places(Tail(q))
      /\ q[1].block \in (1 .. n) \ P
  BY <1>5, PlannedPlace
<1>7. PICK b : b = q[1].block
  OBVIOUS
<1>8. placed' = placed \cup {b} /\ at' = b /\ blocks' = blocks /\ outcome' = outcome
  BY <1>1, <1>2, <1>7 DEF Place, Statement
<1>9. Finished(blocks[at]) /\ Shaped(blocks, placed, at)
  BY <1>1, FlowMeans DEF Flow
<1>10. b \in DOMAIN blocks \ placed
  BY <1>3, <1>4, <1>6, <1>7, FlowMeans
<1>11. blocks[b] = << >>
  BY <1>9, <1>10 DEF Shaped
<1>12. Open(blocks'[at'])
  BY <1>8, <1>11 DEF Open
<1>13. Shaped(blocks', placed', at')
  BY <1>8, <1>9, <1>10 DEF Shaped
<1>14. todo' = Tail(todo)
  BY FlowMeans DEF Then, Place
<1>15. Planned(todo', placed', Len(blocks')) /\ 1 \notin Places(todo')
  BY <1>2, <1>3, <1>4, <1>6, <1>7, <1>8, <1>14
<1> QED BY <1>1, <1>8, <1>12, <1>13, <1>15, FlowNext

(***************************************************************************)
(* The codegens of statements without blocks of their own.                 *)
(***************************************************************************)
LEMMA Nothing ==
  ASSUME NEW items, items = << >>
  PROVE  items \in Seq(Items) /\ Places(items) = {} /\ Gotos(items) = {}
BY DEF Places, Gotos

\* Statements that leave nothing to do.
LEMMA EmittingStep ==
  ASSUME Flow, outcome = "generating", todo # << >>, Head(todo).kind \notin {"goto", "place"},
         NEW code, Plain(code), blocks' = Emitted(code, << >>), placed' = placed, at' = at,
         Then(<< >>), outcome' = outcome
  PROVE  Flow'
<1>1. PICK items : items = << >>
  OBVIOUS
<1>2. Then(items)
  BY <1>1
<1> QED BY <1>1, <1>2, Nothing, PlainStep

LEMMA AbortStep ==
  ASSUME Flow, Abort
  PROVE  Flow'
<1>1. /\ Planned(todo, placed, Len(blocks)) /\ Shaped(blocks, placed, at)
      /\ \/ 1 \in Places(todo) /\ Finished(blocks[at])
         \/ 1 \notin Places(todo) /\ Open(blocks[at])
  BY FlowMeans DEF Flow
<1> QED BY <1>1, FlowNext DEF Abort

LEMMA CallStep ==
  ASSUME Flow, GenCall \/ GenLet
  PROVE  Flow'
<1>1. PICK x : x = CallTo(Statement.value)
  OBVIOUS
<1>2. Plain(<<x>>)
  BY <1>1, PlainCode DEF CallTo, Branch
<1>3. blocks' = Emitted(<<x>>, << >>) /\ placed' = placed /\ at' = at /\ outcome' = outcome /\ Then(<< >>)
  BY <1>1 DEF GenCall, GenLet, Emit
<1>4. outcome = "generating" /\ todo # << >> /\ Head(todo).kind \notin {"goto", "place"}
  BY DEF GenCall, GenLet, Doing
<1> QED BY <1>2, <1>3, <1>4, EmittingStep

LEMMA VarStep ==
  ASSUME Flow, GenVar
  PROVE  Flow'
<1>1. PICK x : x = CallTo(Statement.value)
  OBVIOUS
<1>2. PICK y : y = [op |-> "store", from |-> Position(1), to |-> Position(2)]
  OBVIOUS
<1>3. Plain(<<x, y>>)
  BY <1>1, <1>2, PlainCode DEF CallTo, Branch
<1>4. blocks' = Emitted(<<x, y>>, << >>) /\ placed' = placed /\ at' = at /\ outcome' = outcome /\ Then(<< >>)
  BY <1>1, <1>2 DEF GenVar, Emit
<1>5. outcome = "generating" /\ todo # << >> /\ Head(todo).kind \notin {"goto", "place"}
  BY DEF GenVar, Doing
<1> QED BY <1>3, <1>4, <1>5, EmittingStep

LEMMA UseStep ==
  ASSUME Flow, GenUse
  PROVE  Flow'
<1>1. outcome = "generating" /\ todo # << >> /\ Head(todo).kind \notin {"goto", "place"}
  BY DEF GenUse, Doing
<1>2. CASE Abort
  BY <1>2, AbortStep
<1>3. ASSUME NEW code, Plain(code), Emit(code), Then(<< >>), outcome' = outcome
      PROVE  Flow'
  BY <1>1, <1>3, EmittingStep DEF Emit
<1>4. CASE /\ Resolved(Statement.name) /\ IsVariable(Statement.name) /\ Then(<< >>) /\ outcome' = outcome
           /\ Emit(<<[op |-> "load", from |-> Scope(Statement.name).variables[Statement.name]],
                     [op |-> "use", of |-> Position(1)]>>)
  <2>1. PICK x : x = [op |-> "load", from |-> Scope(Statement.name).variables[Statement.name]]
    OBVIOUS
  <2>2. PICK y : y = [op |-> "use", of |-> Position(1)]
    OBVIOUS
  <2>3. Plain(<<x, y>>)
    BY <2>1, <2>2, PlainCode DEF Branch
  <2>4. Emit(<<x, y>>)
    BY <1>4, <2>1, <2>2 DEF Emit
  <2> QED BY <1>3, <1>4, <2>3, <2>4
<1>5. CASE /\ Resolved(Statement.name) /\ ~IsVariable(Statement.name) /\ Then(<< >>) /\ outcome' = outcome
           /\ Emit(<<[op |-> "use", of |-> Scope(Statement.name).values[Statement.name]]>>)
  <2>1. PICK x : x = [op |-> "use", of |-> Scope(Statement.name).values[Statement.name]]
    OBVIOUS
  <2>2. Plain(<<x>>)
    BY <2>1, PlainCode DEF Branch
  <2>3. Emit(<<x>>)
    BY <1>5, <2>1 DEF Emit
  <2> QED BY <1>3, <1>5, <2>2, <2>3
<1> QED BY <1>2, <1>4, <1>5 DEF GenUse

LEMMA AssignStep ==
  ASSUME Flow, GenAssign
  PROVE  Flow'
<1>1. outcome = "generating" /\ todo # << >> /\ Head(todo).kind \notin {"goto", "place"}
  BY DEF GenAssign, Doing
<1>2. CASE Abort
  BY <1>2, AbortStep
<1>3. CASE ~Abort
  <2>1. PICK address : address = Scope(Statement.name).variables[Statement.name]
    OBVIOUS
  <2>2. PICK x : x = [op |-> "load", from |-> address]
    OBVIOUS
  <2>3. PICK y : y = CallTo(Statement.value)
    OBVIOUS
  <2>4. PICK z : z = [op |-> "store", from |-> Position(2), to |-> address]
    OBVIOUS
  <2>5. Plain(<<x, y, z>>)
    BY <2>2, <2>3, <2>4, PlainCode DEF CallTo, Branch
  <2>6. /\ blocks' = Emitted(<<x, y, z>>, << >>) /\ placed' = placed /\ at' = at
        /\ outcome' = outcome /\ Then(<< >>)
    BY <1>3, <2>1, <2>2, <2>3, <2>4 DEF GenAssign, Emit
  <2> QED BY <1>1, <2>5, <2>6, EmittingStep
<1> QED BY <1>2, <1>3

LEMMA ReturnStep ==
  ASSUME Flow, GenReturn
  PROVE  Flow'
<1>1. outcome = "generating" /\ todo # << >> /\ Head(todo).kind \notin {"goto", "place"}
  BY DEF GenReturn, Doing
<1>2. CASE Abort
  BY <1>2, AbortStep
<1>3. CASE Emit(<<Ret>>) /\ Then(<< >>) /\ outcome' = outcome
  <2>1. Plain(<<Ret>>)
    BY PlainCode DEF Ret, Branch
  <2> QED BY <1>1, <1>3, <2>1, EmittingStep DEF Emit
<1> QED BY <1>2, <1>3 DEF GenReturn

LEMMA StatementsAre ==
  ASSUME Flow, todo # << >>, Head(todo).kind \in StatementKind \ {"call"}
  PROVE  Statement \in Syntax
BY FlowMeans DEF Items, Statement, StatementKind

\* Statements are neither branches nor places.
LEMMA PartsAre ==
  ASSUME NEW s \in Syntax
  PROVE  s \in Items /\ s.kind \notin {"goto", "place"}
BY SyntaxAssumption DEF Items, StatementKind

LEMMA BlockStep ==
  ASSUME Flow, GenBlock
  PROVE  Flow'
<1>1. outcome = "generating" /\ todo # << >> /\ Head(todo).kind = "block"
  BY DEF GenBlock, Doing
<1>2. PICK items : items = Statement.stmts
  OBVIOUS
<1>3. items \in Seq(Syntax)
  BY <1>1, <1>2, StatementsAre, SyntaxAssumption DEF StatementKind, Statement
<1>4. items \in Seq(Items) /\ \A i \in DOMAIN items : items[i] \in Syntax
  <2>1. Syntax \subseteq Items
    BY DEF Items
  <2> QED BY <1>3, <2>1
<1>5. Places(items) = {} /\ Gotos(items) = {}
  BY <1>4, PartsAre DEF Places, Gotos
<1>6. Then(items) /\ UNCHANGED <<blocks, placed, at, outcome>>
  BY <1>2 DEF GenBlock
<1> QED BY <1>1, <1>4, <1>5, <1>6, SilentStep

LEMMA LeaveStep ==
  ASSUME Flow, Leave
  PROVE  Flow'
<1>1. PICK items : items = << >>
  OBVIOUS
<1>2. outcome = "generating" /\ todo # << >> /\ Head(todo).kind = "leave"
  BY DEF Leave, Doing
<1>3. Then(items) /\ UNCHANGED <<blocks, placed, at, outcome>>
  BY <1>1 DEF Leave
<1> QED BY <1>1, <1>2, <1>3, Nothing, SilentStep

LEMMA OnStep ==
  ASSUME Flow, GenOn
  PROVE  Flow'
<1>1. outcome = "generating" /\ todo # << >> /\ Head(todo).kind = "on"
  BY DEF GenOn, Doing
<1>2. PICK body : body = Statement.body
  OBVIOUS
<1>3. body \in Items /\ body.kind \notin {"goto", "place"}
  BY <1>1, <1>2, StatementsAre, SyntaxAssumption, PartsAre DEF StatementKind, Statement
<1>4. PICK items : items = <<body, [kind |-> "leave"], [kind |-> "call", value |-> "DeleteRegion"]>>
  OBVIOUS
<1>5. items \in Seq(Items)
  BY <1>3, <1>4 DEF Items
<1>6. Places(items) = {} /\ Gotos(items) = {}
  BY <1>3, <1>4 DEF Places, Gotos
<1>7. Plain(<<CallTo("NewRegion")>>)
  BY PlainCode DEF CallTo, Branch
<1>8. /\ blocks' = Emitted(<<CallTo("NewRegion")>>, << >>) /\ placed' = placed /\ at' = at
      /\ outcome' = outcome /\ Then(items)
  BY <1>2, <1>4 DEF GenOn, Emit
<1> QED BY <1>1, <1>5, <1>6, <1>7, <1>8, PlainStep

LEMMA FinishStep ==
  ASSUME Flow, Finish
  PROVE  Flow'
<1>1. outcome = "generating" /\ todo = << >> /\ todo' = todo
  BY DEF Finish
<1>2. 1 \notin Places(todo)
  BY <1>1 DEF Places
<1>3. Open(blocks[at]) /\ Shaped(blocks, placed, at) /\ Planned(todo, placed, Len(blocks))
  BY <1>1 DEF Flow, AtPlace
<1>4. CASE Emit(<<Ret>>)
  <2>1. Plain(<<Ret>>)
    BY PlainCode DEF Ret, Branch
  <2>2. Open(<<Ret>>) /\ Leads(<<Ret>>, Len(blocks))
    BY <2>1 DEF Plain, Open, Leads, Targets, Branch
  <2>3. PICK code : code = <<Ret>>
    OBVIOUS
  <2>4. PICK T : code \in Seq(T)
    BY <2>1, <2>3 DEF Plain
  <2>5. blocks' = Emitted(code, << >>) /\ placed' = placed /\ at' = at
    BY <1>4, <2>3 DEF Emit
  <2>6. Shaped(blocks', placed', at') /\ Len(blocks') = Len(blocks) /\ Open(blocks'[at'])
    BY <1>3, <2>2, <2>3, <2>4, <2>5, ShapedIfEmitted
  <2> QED BY <1>1, <1>2, <1>3, <2>5, <2>6, FlowNext
<1>5. CASE UNCHANGED <<blocks, placed, at>>
  BY <1>1, <1>2, <1>3, <1>5, FlowNext
<1> QED BY <1>4, <1>5 DEF Finish

(***************************************************************************)
(* Those of statements that branch.                                        *)
(***************************************************************************)
\* A loop's condition, content and continuation, of which only the
\* continuation or only the content is not closed.
LEMMA LoopBlocks ==
  ASSUME NEW n \in Nat, NEW test, NEW T, NEW code \in Seq(T), NEW content \in Seq(T), test \in T,
         test.op \in {"test", "below"}, test.yes = n + 2, test.no = n + 3,
         Finished(code), Leads(code, n + 3), Leads(content, n + 3)
  PROVE  /\ <<<<test>>, content, << >>>> \in Seq(Seq(T)) /\ Len(<<<<test>>, content, << >>>>) = 3
         /\ Finished(content) =>
              Branched(code, <<<<test>>, content, << >>>>, n, n + 3, n + 1 .. n + 3, n + 3)
         /\ Open(content) =>
              Branched(code, <<<<test>>, content, << >>>>, n, n + 3, n + 1 .. n + 2, n + 2)
<1>1. PICK more : more = <<<<test>>, content, << >>>>
  OBVIOUS
<1>2. /\ <<test>> \in Seq(T) /\ << >> \in Seq(T)
      /\ Finished(<<test>>) /\ Leads(<<test>>, n + 3) /\ Leads(<< >>, n + 3) /\ Open(<< >>)
  BY DEF Finished, Leads, Targets, Open, Branch
<1>3. /\ more \in Seq(Seq(T)) /\ Len(more) = 3 /\ DOMAIN more = 1 .. 3
      /\ more[1] = <<test>> /\ more[2] = content /\ more[3] = << >>
  BY <1>1, <1>2
<1>4. \A b \in DOMAIN more : b = 1 \/ b = 2 \/ b = 3
  BY <1>3
<1>5. \A b \in DOMAIN more : Leads(more[b], n + 3)
  BY <1>2, <1>3, <1>4
<1>6. n + 3 - n = 3 /\ n + 2 - n = 2
  OBVIOUS
<1>7. ASSUME Finished(content)
      PROVE  Branched(code, more, n, n + 3, n + 1 .. n + 3, n + 3)
  <2>1. \A b \in DOMAIN more : /\ n + b \in n + 1 .. n + 3
                               /\ n + b # n + 3 => Finished(more[b])
    <3>1. \A b \in DOMAIN more : n + b \in n + 1 .. n + 3
      BY <1>4
    <3>2. \A b \in DOMAIN more : n + b # n + 3 => b = 1 \/ b = 2
      BY <1>4
    <3> QED BY <1>2, <1>3, <1>7, <3>1, <3>2
  <2> QED BY <1>2, <1>3, <1>5, <1>6, <2>1 DEF Branched
<1>8. ASSUME Open(content)
      PROVE  Branched(code, more, n, n + 3, n + 1 .. n + 2, n + 2)
  <2>1. \A b \in DOMAIN more : /\ n + b \notin n + 1 .. n + 2 => more[b] = << >>
                               /\ n + b \in n + 1 .. n + 2 /\ n + b # n + 2 => Finished(more[b])
    <3>1. \A b \in DOMAIN more : n + b \notin n + 1 .. n + 2 => b = 3
      BY <1>4
    <3>2. \A b \in DOMAIN more : n + b \in n + 1 .. n + 2 /\ n + b # n + 2 => b = 1
      BY <1>4
    <3> QED BY <1>2, <1>3, <3>1, <3>2
  <2> QED BY <1>3, <1>5, <1>6, <1>8, <2>1 DEF Branched
<1> QED BY <1>1, <1>3, <1>7, <1>8

LEMMA FillStep ==
  ASSUME Flow, GenFill
  PROVE  Flow'
<1>1. outcome = "generating" /\ todo # << >> /\ Head(todo).kind \notin {"goto", "place"}
  BY DEF GenFill, Doing
<1>2. PICK n : n = Len(blocks)
  OBVIOUS
<1>3. PICK counter : counter = Position(2)
  OBVIOUS
<1>4. PICK code : code = <<CallTo("alloc"), [op |-> "zero", of |-> counter], Br(n + 1)>>
  OBVIOUS
<1>5. PICK test : test = [op |-> "below", of |-> counter, yes |-> n + 2, no |-> n + 3]
  OBVIOUS
<1>6. PICK content : content = <<CallTo("element"), [op |-> "next", of |-> counter], Br(n + 1)>>
  OBVIOUS
<1>7. n \in Nat
  BY <1>2, FlowMeans
<1>8. PICK T : T = {CallTo("alloc"), [op |-> "zero", of |-> counter], Br(n + 1), test, CallTo("element"),
                    [op |-> "next", of |-> counter]}
  OBVIOUS
<1>9. code \in Seq(T) /\ content \in Seq(T) /\ test \in T
  BY <1>4, <1>6, <1>8
<1>10. Finished(code) /\ Finished(content)
  BY <1>4, <1>6 DEF Finished, CallTo, Br, Branch
<1>11. Leads(code, n + 3) /\ Leads(content, n + 3)
  BY <1>4, <1>6, <1>7 DEF Leads, Targets, CallTo, Br
<1>12. test.op \in {"test", "below"} /\ test.yes = n + 2 /\ test.no = n + 3
  BY <1>5
<1>13. PICK more : more = <<<<test>>, content, << >>>>
  OBVIOUS
<1>14. more \in Seq(Seq(T)) /\ Len(more) = 3 /\ Branched(code, more, n, n + 3, n + 1 .. n + 3, n + 3)
  BY <1>7, <1>9, <1>10, <1>11, <1>12, <1>13, LoopBlocks
<1>15. PICK D : D = n + 1 .. n + 3
  OBVIOUS
<1>16. D = {n + 1, n + 2, n + 3}
  BY <1>7, <1>15
<1>17. /\ blocks' = Emitted(code, more) /\ placed' = placed \cup D /\ at' = n + 3
       /\ outcome' = outcome /\ Then(<< >>)
  BY <1>2, <1>3, <1>4, <1>5, <1>6, <1>13, <1>16 DEF GenFill, Created
<1>18. PICK items : items = << >>
  OBVIOUS
<1>19. PICK m : m = n + 3
  OBVIOUS
<1>20. /\ D \in SUBSET (n + 1 .. m) /\ n + 3 \in D /\ m = n + Len(more) /\ (n + 1 .. m) \ D = {}
  BY <1>7, <1>14, <1>15, <1>19
<1>21. Arranged(items, (n + 1 .. m) \ D, m)
  BY <1>18, <1>20, Nothing DEF Arranged, Paired, Covers
<1>22. Then(items) /\ Branched(code, more, n, m, D, n + 3)
  BY <1>14, <1>15, <1>17, <1>18, <1>19
<1> QED BY <1>1, <1>2, <1>9, <1>14, <1>17, <1>20, <1>21, <1>22, BranchStep

\* What a loop leaves to do.
LEMMA LoopItems ==
  ASSUME NEW n \in Nat, NEW body \in Items, body.kind \notin {"goto", "place"},
         NEW items, items = Turn(body, n + 1, n + 3)
  PROVE  Arranged(items, (n + 1 .. n + 3) \ (n + 1 .. n + 2), n + 3)
<1>1. items = <<body, [kind |-> "leave"], [kind |-> "goto", block |-> n + 1], [kind |-> "place", block |-> n + 3]>>
  BY DEF Turn
<1>2. items \in Seq(Items)
  <2>1. PICK leave : leave = [kind |-> "leave"]
    OBVIOUS
  <2>2. PICK goto : goto = [kind |-> "goto", block |-> n + 1]
    OBVIOUS
  <2>3. PICK last : last = [kind |-> "place", block |-> n + 3]
    OBVIOUS
  <2>4. leave \in Items /\ goto \in Items /\ last \in Items
    BY <2>1, <2>2, <2>3 DEF Items
  <2>5. \A u, v, x, y \in Items : <<u, v, x, y>> \in Seq(Items)
    OBVIOUS
  <2>6. items = <<body, leave, goto, last>>
    BY <1>1, <2>1, <2>2, <2>3
  <2> QED BY <2>4, <2>5, <2>6
<1>3. /\ Len(items) = 4 /\ DOMAIN items = 1 .. 4 /\ items[1] = body /\ items[2] = [kind |-> "leave"]
      /\ items[3] = [kind |-> "goto", block |-> n + 1] /\ items[4] = [kind |-> "place", block |-> n + 3]
  BY <1>1
<1>4. Gotos(items) = {3} /\ Places(items) = {4}
  <2>1. items[2].kind = "leave" /\ items[3].kind = "goto" /\ items[4].kind = "place"
    BY <1>3
  <2>2. \A i \in DOMAIN items : i = 1 \/ i = 2 \/ i = 3 \/ i = 4
    BY <1>3
  <2>3. 1 \in DOMAIN items /\ 2 \in DOMAIN items /\ 3 \in DOMAIN items /\ 4 \in DOMAIN items
    BY <1>3
  <2>4. items[1].kind \notin {"goto", "place"}
    BY <1>3
  <2> QED BY <2>1, <2>2, <2>3, <2>4 DEF Gotos, Places
<1>5. (n + 1 .. n + 3) \ (n + 1 .. n + 2) = {n + 3}
  OBVIOUS
<1>6. Paired(items)
  BY <1>4 DEF Paired
<1>7. Covers(items, {n + 3}, n + 3)
  <2>1. n + 1 \in 1 .. n + 3
    OBVIOUS
  <2>2. items[3].block = n + 1 /\ items[4].block = n + 3
    BY <1>3
  <2> QED BY <1>4, <2>1, <2>2 DEF Covers
<1>8. 1 \notin Places(items) /\ Len(items) \notin Gotos(items)
  BY <1>3, <1>4
<1> QED BY <1>2, <1>5, <1>6, <1>7, <1>8 DEF Arranged

\* What loops have in common: the code before them, the label of the test and the
\* code at the beginning of the content.
LEMMA LoopStep ==
  ASSUME Flow, outcome = "generating", todo # << >>, Head(todo).kind \in {"while", "for"},
         NEW n, n = Len(blocks), NEW code, NEW label, NEW content,
         NEW R, code \in Seq(R), Finished(code), Leads(code, n + 3), Plain(content),
         blocks' = Emitted(code, <<<<CondBr(label, n + 2, n + 3)>>, content, << >>>>),
         placed' = placed \cup {n + 1, n + 2}, at' = n + 2, outcome' = outcome,
         Then(Turn(Statement.body, n + 1, n + 3))
  PROVE  Flow'
<1>1. n \in Nat
  BY FlowMeans
<1>3. PICK Q : content \in Seq(Q)
  BY DEF Plain
<1>4. PICK test : test = CondBr(label, n + 2, n + 3)
  OBVIOUS
<1>5. PICK T : T = R \cup Q \cup {test}
  OBVIOUS
<1>6. code \in Seq(T) /\ content \in Seq(T) /\ test \in T
  BY <1>3, <1>5
<1>9. Open(content) /\ Leads(content, n + 3)
  BY DEF Plain, Open, Leads, Targets, Branch
<1>11. test.op \in {"test", "below"} /\ test.yes = n + 2 /\ test.no = n + 3
  BY <1>4 DEF CondBr
<1>12. PICK more : more = <<<<test>>, content, << >>>>
  OBVIOUS
<1>13. more \in Seq(Seq(T)) /\ Len(more) = 3 /\ Branched(code, more, n, n + 3, n + 1 .. n + 2, n + 2)
  BY <1>1, <1>6, <1>9, <1>11, <1>12, LoopBlocks
<1>14. PICK D : D = n + 1 .. n + 2
  OBVIOUS
<1>15. D = {n + 1, n + 2}
  BY <1>1, <1>14
<1>16. PICK m : m = n + 3
  OBVIOUS
<1>17. D \in SUBSET (n + 1 .. m) /\ n + 2 \in D /\ m = n + Len(more)
  BY <1>1, <1>13, <1>14, <1>16
<1>18. PICK body : body = Statement.body
  OBVIOUS
<1>19. body \in Items /\ body.kind \notin {"goto", "place"}
  BY <1>18, StatementsAre, SyntaxAssumption, PartsAre DEF StatementKind, Statement
<1>20. PICK items : items = Turn(body, n + 1, n + 3)
  OBVIOUS
<1>21. Arranged(items, (n + 1 .. m) \ D, m)
  BY <1>1, <1>14, <1>16, <1>19, <1>20, LoopItems
<1>22. Then(items) /\ Branched(code, more, n, m, D, n + 2)
  BY <1>13, <1>14, <1>16, <1>18, <1>20
<1>23. blocks' = Emitted(code, more) /\ placed' = placed \cup D /\ at' = n + 2
  BY <1>4, <1>12, <1>15
<1> QED BY <1>6, <1>13, <1>17, <1>21, <1>22, <1>23, BranchStep

LEMMA WhileStep ==
  ASSUME Flow, GenWhile
  PROVE  Flow'
<1>1. outcome = "generating" /\ todo # << >> /\ Head(todo).kind \in {"while", "for"}
  BY DEF GenWhile, Doing
<1>2. PICK n : n = Len(blocks)
  OBVIOUS
<1>3. PICK none : none = << >>
  OBVIOUS
<1>4. Plain(none)
  BY <1>3 DEF Plain
<1>5. n \in Nat
  BY <1>2, FlowMeans
<1>6. PICK code : code = <<Br(n + 1)>>
  OBVIOUS
<1>7. code \in Seq({Br(n + 1)}) /\ Finished(code) /\ Leads(code, n + 3)
  BY <1>5, <1>6 DEF Finished, Leads, Targets, Br, Branch
<1>8. /\ blocks' = Emitted(code, <<<<CondBr("condition", n + 2, n + 3)>>, none, << >>>>)
      /\ placed' = placed \cup {n + 1, n + 2} /\ at' = n + 2 /\ outcome' = outcome
      /\ Then(Turn(Statement.body, n + 1, n + 3))
  BY <1>2, <1>3, <1>6 DEF GenWhile, Created
<1> QED BY <1>1, <1>2, <1>4, <1>7, <1>8, LoopStep

LEMMA ForStep ==
  ASSUME Flow, GenFor
  PROVE  Flow'
<1>1. outcome = "generating" /\ todo # << >> /\ Head(todo).kind \in {"while", "for"}
  BY DEF GenFor, Doing
<1>2. PICK n : n = Len(blocks)
  OBVIOUS
<1>3. n \in Nat
  BY <1>2, FlowMeans
<1>4. PICK content : content = <<CallTo("next")>>
  OBVIOUS
<1>5. Plain(content)
  BY <1>4, PlainCode DEF CallTo, Branch
<1>6. PICK code : code = <<CallTo("iterable"), Br(n + 1)>>
  OBVIOUS
<1>7. code \in Seq({CallTo("iterable"), Br(n + 1)}) /\ Finished(code) /\ Leads(code, n + 3)
  BY <1>3, <1>6 DEF Finished, Leads, Targets, Br, CallTo, Branch
<1>8. /\ blocks' = Emitted(code, <<<<CondBr("hasNext", n + 2, n + 3)>>, content, << >>>>)
      /\ placed' = placed \cup {n + 1, n + 2} /\ at' = n + 2 /\ outcome' = outcome
      /\ Then(Turn(Statement.body, n + 1, n + 3))
  BY <1>2, <1>4, <1>6 DEF GenFor, Created
<1> QED BY <1>1, <1>2, <1>5, <1>7, <1>8, LoopStep

\* What an if with an else leaves to do, and one without.
LEMMA IfElseItems ==
  ASSUME NEW n \in Nat, NEW then \in Items, then.kind \notin {"goto", "place"},
         NEW else \in Items, else.kind \notin {"goto", "place"},
         NEW goto, goto = [kind |-> "goto", block |-> n + 2],
         NEW yes, yes = [kind |-> "place", block |-> n + 3],
         NEW last, last = [kind |-> "place", block |-> n + 2],
         NEW items, items = <<then, goto, yes, else, goto, last>>
  PROVE  Arranged(items, {n + 2, n + 3}, n + 3)
<1>1. items \in Seq(Items)
  <2>1. goto \in Items /\ yes \in Items /\ last \in Items
    BY DEF Items
  <2> QED BY <2>1
<1>2. /\ Len(items) = 6 /\ DOMAIN items = 1 .. 6 /\ items[1] = then /\ items[2] = goto
      /\ items[3] = yes /\ items[4] = else /\ items[5] = goto /\ items[6] = last
  OBVIOUS
<1>3. Gotos(items) = {2, 5} /\ Places(items) = {3, 6}
  <2>1. \A i \in DOMAIN items : i = 1 \/ i = 2 \/ i = 3 \/ i = 4 \/ i = 5 \/ i = 6
    BY <1>2
  <2>2. /\ items[1].kind \notin {"goto", "place"} /\ items[4].kind \notin {"goto", "place"}
        /\ items[2].kind = "goto" /\ items[5].kind = "goto"
        /\ items[3].kind = "place" /\ items[6].kind = "place"
    BY <1>2
  <2>3. \A i \in {2, 3, 5, 6} : i \in DOMAIN items
    BY <1>2
  <2> QED BY <2>1, <2>2, <2>3 DEF Gotos, Places
<1>4. Paired(items)
  BY <1>3 DEF Paired
<1>5. Covers(items, {n + 2, n + 3}, n + 3)
  <2>1. n + 2 \in 1 .. n + 3
    OBVIOUS
  <2>2. /\ items[2].block = n + 2 /\ items[5].block = n + 2
        /\ items[3].block = n + 3 /\ items[6].block = n + 2
    BY <1>2
  <2> QED BY <1>3, <2>1, <2>2 DEF Covers
<1>6. 1 \notin Places(items) /\ Len(items) \notin Gotos(items)
  BY <1>2, <1>3
<1> QED BY <1>1, <1>4, <1>5, <1>6 DEF Arranged

LEMMA IfItems ==
  ASSUME NEW n \in Nat, NEW then \in Items, then.kind \notin {"goto", "place"},
         NEW goto, goto = [kind |-> "goto", block |-> n + 2],
         NEW last, last = [kind |-> "place", block |-> n + 2],
         NEW items, items = <<then, goto, last>>
  PROVE  Arranged(items, {n + 2}, n + 2)
<1>1. items \in Seq(Items)
  <2>1. goto \in Items /\ last \in Items
    BY DEF Items
  <2> QED BY <2>1
<1>2. /\ Len(items) = 3 /\ DOMAIN items = 1 .. 3 /\ items[1] = then /\ items[2] = goto
      /\ items[3] = last
  OBVIOUS
<1>3. Gotos(items) = {2} /\ Places(items) = {3}
  <2>1. \A i \in DOMAIN items : i = 1 \/ i = 2 \/ i = 3
    BY <1>2
  <2>2. items[1].kind \notin {"goto", "place"} /\ items[2].kind = "goto" /\ items[3].kind = "place"
    BY <1>2
  <2>3. \A i \in {2, 3} : i \in DOMAIN items
    BY <1>2
  <2> QED BY <2>1, <2>2, <2>3 DEF Gotos, Places
<1>4. Paired(items)
  BY <1>3 DEF Paired
<1>5. Covers(items, {n + 2}, n + 2)
  <2>1. n + 2 \in 1 .. n + 2
    OBVIOUS
  <2>2. items[2].block = n + 2 /\ items[3].block = n + 2
    BY <1>2
  <2> QED BY <1>3, <2>1, <2>2 DEF Covers
<1>6. 1 \notin Places(items) /\ Len(items) \notin Gotos(items)
  BY <1>2, <1>3
<1> QED BY <1>1, <1>4, <1>5, <1>6 DEF Arranged

\* The code of an if, and its blocks: none of them has code yet.
LEMMA IfBlocks ==
  ASSUME NEW n \in Nat, NEW m \in Nat, NEW no \in n + 2 .. m,
         NEW code, code = <<CondBr("condition", n + 1, no)>>,
         NEW T, NEW more \in Seq(Seq(T)), m = n + Len(more), \A b \in DOMAIN more : more[b] = << >>
  PROVE  Branched(code, more, n, m, {n + 1}, n + 1)
<1>1. Finished(code)
  BY DEF Finished, CondBr, Branch
<1>2. n + 1 \in 1 .. m /\ no \in 1 .. m
  OBVIOUS
<1>3. Leads(code, m)
  BY <1>2 DEF Leads, Targets, CondBr
<1>4. Leads(<< >>, m) /\ Open(<< >>)
  BY DEF Leads, Open
<1>5. \A b \in DOMAIN more : n + b \in {n + 1} => n + b = n + 1
  OBVIOUS
<1>6. n + 1 - n = 1 /\ 1 \in DOMAIN more
  OBVIOUS
<1>7. Open(more[n + 1 - n])
  BY <1>4, <1>6
<1> QED BY <1>1, <1>3, <1>4, <1>5, <1>7 DEF Branched

LEMMA IfStep ==
  ASSUME Flow, GenIf
  PROVE  Flow'
<1>1. outcome = "generating" /\ todo # << >> /\ Head(todo).kind = "if"
  BY DEF GenIf, Doing
<1>2. PICK n : n = Len(blocks)
  OBVIOUS
<1>3. n \in Nat
  BY <1>2, FlowMeans
<1>4. PICK then : then = Statement.then
  OBVIOUS
<1>5. PICK else : else = Statement.else
  OBVIOUS
<1>6. then \in Syntax /\ else \in Syntax
  BY <1>1, <1>4, <1>5, StatementsAre, SyntaxAssumption DEF StatementKind, Statement
<1>7. /\ then \in Items /\ then.kind \notin {"goto", "place"}
      /\ else \in Items /\ else.kind \notin {"goto", "place"}
  BY <1>6, PartsAre
<1>8. PICK goto : goto = [kind |-> "goto", block |-> n + 2]
  OBVIOUS
<1>9. PICK last : last = [kind |-> "place", block |-> n + 2]
  OBVIOUS
<1>10. PICK D : D = {n + 1}
  OBVIOUS
<1>11. CASE HasElse(Statement)
  <2>1. PICK m : m = n + 3
    OBVIOUS
  <2>2. PICK code : code = <<CondBr("condition", n + 1, n + 3)>>
    OBVIOUS
  <2>3. PICK more : more = <<<< >>, << >>, << >>>>
    OBVIOUS
  <2>4. PICK yes : yes = [kind |-> "place", block |-> n + 3]
    OBVIOUS
  <2>5. PICK items : items = <<then, goto, yes, else, goto, last>>
    OBVIOUS
  <2>6. PICK T : T = {CondBr("condition", n + 1, n + 3)}
    OBVIOUS
  <2>7. code \in Seq(T) /\ more \in Seq(Seq(T)) /\ Len(more) = 3 /\ \A b \in DOMAIN more : more[b] = << >>
    BY <2>2, <2>3, <2>6
  <2>8. m \in Nat /\ n + 3 \in n + 2 .. m /\ m = n + Len(more)
    BY <1>3, <2>1, <2>7
  <2>9. Branched(code, more, n, m, D, n + 1)
    BY <1>3, <1>10, <2>2, <2>7, <2>8, IfBlocks
  <2>10. D \in SUBSET (n + 1 .. m) /\ n + 1 \in D /\ (n + 1 .. m) \ D = {n + 2, n + 3}
    BY <1>3, <1>10, <2>1
  <2>11. Arranged(items, (n + 1 .. m) \ D, m)
    <3>1. Arranged(items, {n + 2, n + 3}, n + 3)
      BY <1>3, <1>7, <1>8, <1>9, <2>4, <2>5, IfElseItems
    <3> QED BY <2>1, <2>10, <3>1
  <2>12. /\ blocks' = Emitted(code, more) /\ placed' = placed \cup D /\ at' = n + 1
         /\ outcome' = outcome /\ Then(items)
    BY <1>2, <1>4, <1>5, <1>8, <1>9, <1>10, <1>11, <2>2, <2>3, <2>4, <2>5 DEF GenIf, Created
  <2> QED BY <1>1, <1>2, <2>7, <2>8, <2>9, <2>10, <2>11, <2>12, BranchStep
<1>12. CASE ~HasElse(Statement)
  <2>1. PICK m : m = n + 2
    OBVIOUS
  <2>2. PICK code : code = <<CondBr("condition", n + 1, n + 2)>>
    OBVIOUS
  <2>3. PICK more : more = <<<< >>, << >>>>
    OBVIOUS
  <2>4. PICK items : items = <<then, goto, last>>
    OBVIOUS
  <2>5. PICK T : T = {CondBr("condition", n + 1, n + 2)}
    OBVIOUS
  <2>6. code \in Seq(T) /\ more \in Seq(Seq(T)) /\ Len(more) = 2 /\ \A b \in DOMAIN more : more[b] = << >>
    BY <2>2, <2>3, <2>5
  <2>7. m \in Nat /\ n + 2 \in n + 2 .. m /\ m = n + Len(more)
    BY <1>3, <2>1, <2>6
  <2>8. Branched(code, more, n, m, D, n + 1)
    BY <1>3, <1>10, <2>2, <2>6, <2>7, IfBlocks
  <2>9. D \in SUBSET (n + 1 .. m) /\ n + 1 \in D /\ (n + 1 .. m) \ D = {n + 2}
    BY <1>3, <1>10, <2>1
  <2>10. Arranged(items, (n + 1 .. m) \ D, m)
    BY <1>3, <1>7, <1>8, <1>9, <2>1, <2>4, <2>9, IfItems
  <2>11. /\ blocks' = Emitted(code, more) /\ placed' = placed \cup D /\ at' = n + 1
         /\ outcome' = outcome /\ Then(items)
    BY <1>2, <1>4, <1>8, <1>9, <1>10, <1>12, <2>2, <2>3, <2>4 DEF GenIf, Created
  <2> QED BY <1>1, <1>2, <2>6, <2>7, <2>8, <2>9, <2>10, <2>11, BranchStep
<1> QED BY <1>11, <1>12

(***************************************************************************)
(* All steps, and what they lead to.                                       *)
(***************************************************************************)
LEMMA FlowInit ==
  ASSUME GenInit
  PROVE  Flow
<1>1. PICK q : q = program.stmts
  OBVIOUS
<1>2. q \in Seq(Items) /\ \A i \in DOMAIN q : q[i] \in Syntax
  <2>1. q \in Seq(Syntax)
    BY <1>1, SyntaxAssumption DEF GenInit
  <2>2. Syntax \subseteq Items
    BY DEF Items
  <2> QED BY <2>1, <2>2
<1>3. Places(q) = {} /\ Gotos(q) = {}
  BY <1>2, PartsAre DEF Places, Gotos
<1>4. Planned(q, {1}, 1)
  BY <1>2, <1>3 DEF Planned, Paired, Covers
<1>5. PICK bs : bs = <<<< >>>>
  OBVIOUS
<1>6. bs \in Seq(Seq({})) /\ Len(bs) = 1 /\ DOMAIN bs = {1} /\ bs[1] = << >>
  BY <1>5
<1>7. Shaped(bs, {1}, 1) /\ Open(bs[1])
  <2>1. \E S : bs \in Seq(Seq(S))
    BY <1>6
  <2>2. Leads(<< >>, 1) /\ Open(<< >>)
    BY DEF Leads, Open
  <2> QED BY <1>6, <2>1, <2>2 DEF Shaped
<1>8. todo = q /\ blocks = bs /\ placed = {1} /\ at = 1 /\ outcome = "generating"
  BY <1>1, <1>5 DEF GenInit
<1>9. ~AtPlace
  <2>1. q # << >> => 1 \in DOMAIN q /\ Head(q) = q[1]
    BY <1>2
  <2> QED BY <1>3, <1>8, <2>1 DEF AtPlace, Places
<1> QED BY <1>4, <1>6, <1>7, <1>8, <1>9 DEF Flow

LEMMA FlowStep ==
  ASSUME Flow, [GenNext]_genVars
  PROVE  Flow'
<1>1. CASE GenCall \/ GenLet
  BY <1>1, CallStep
<1>2. CASE GenVar \/ GenUse \/ GenAssign
  BY <1>2, VarStep, UseStep, AssignStep
<1>3. CASE GenFill \/ GenReturn \/ GenBlock
  BY <1>3, FillStep, ReturnStep, BlockStep
<1>4. CASE GenIf \/ GenWhile \/ GenFor \/ GenOn
  BY <1>4, IfStep, WhileStep, ForStep, OnStep
<1>5. CASE Goto \/ Place \/ Leave \/ Finish
  BY <1>5, GotoStep, PlaceStep, LeaveStep, FinishStep
<1>6. CASE UNCHANGED genVars
  BY <1>6 DEF genVars, Flow, AtPlace
<1> QED BY <1>1, <1>2, <1>3, <1>4, <1>5, <1>6 DEF GenNext

LEMMA FlowMalforms ==
  ASSUME Flow
  PROVE  OnlyReturnsMalform
<1> SUFFICES ASSUME outcome = "generated"
             PROVE  placed = DOMAIN blocks /\ (WellFormed <=> OnlyEndReturns)
  BY DEF OnlyReturnsMalform
<1>1. todo = << >> /\ Shaped(blocks, placed, at) /\ Open(blocks[at])
  BY DEF Flow, AtPlace
<1>2. placed = DOMAIN blocks /\ DOMAIN blocks = 1 .. Len(blocks)
  <2>1. Places(todo) = {}
    BY <1>1 DEF Places
  <2>2. (1 .. Len(blocks)) \ placed = {}
    BY <2>1 DEF Flow, Planned, Covers
  <2> QED BY <2>2, FlowMeans
<1>3. TargetsPlaced
  BY <1>1, <1>2 DEF TargetsPlaced, Shaped, Leads
<1>4. PICK S : blocks \in Seq(Seq(S))
  BY <1>1 DEF Shaped
<1>5. \A b \in placed : /\ Len(blocks[b]) \in Nat /\ DOMAIN blocks[b] = 1 .. Len(blocks[b])
                        /\ blocks[b] # << >> <=> Len(blocks[b]) > 0
  BY <1>2, <1>4
<1>6. \A b \in placed : b # at => /\ Len(blocks[b]) > 0
                                  /\ \A k \in DOMAIN blocks[b] :
                                       blocks[b][k].op \in Branch <=> k = Len(blocks[b])
  BY <1>1 DEF Shaped, Finished
<1>7. at \in placed /\ \A k \in DOMAIN blocks[at] : blocks[at][k].op \notin Branch
  BY <1>1 DEF Shaped, Open
<1>8. \A op : op \in Terminator <=> op \in Branch \/ op = "ret"
  BY DEF Terminator, Branch
<1>9. ASSUME NEW b \in placed, b # at
      PROVE  Closed(b) <=> \A k \in DOMAIN blocks[b] : blocks[b][k].op # "ret"
  <2>1. "ret" \notin Branch
    BY DEF Branch
  <2>2. \A k \in DOMAIN blocks[b] : blocks[b][k].op \in Branch <=> k = Len(blocks[b])
    BY <1>6, <1>9
  <2>3. Len(blocks[b]) > 0 /\ DOMAIN blocks[b] = 1 .. Len(blocks[b])
    BY <1>5, <1>6, <1>9
  <2>4. Closed(b) <=> \A k \in DOMAIN blocks[b] : blocks[b][k].op \in Terminator <=> k = Len(blocks[b])
    BY <2>3 DEF Closed
  <2> QED BY <1>8, <2>1, <2>2, <2>4
<1>10. Closed(at) <=> /\ blocks[at] # << >>
                      /\ \A k \in DOMAIN blocks[at] : blocks[at][k].op = "ret" <=> k = Len(blocks[at])
  BY <1>5, <1>7, <1>8 DEF Closed
<1>11. OnlyEndReturns <=>
         /\ blocks[at] # << >>
         /\ \A k \in DOMAIN blocks[at] : blocks[at][k].op = "ret" <=> k = Len(blocks[at])
         /\ \A b \in placed : b # at => \A k \in DOMAIN blocks[b] : blocks[b][k].op # "ret"
  BY <1>7 DEF OnlyEndReturns
<1>12. (\A b \in placed : Closed(b)) <=> Closed(at) /\ \A b \in placed : b # at => Closed(b)
  BY <1>7
<1> QED BY <1>2, <1>3, <1>9, <1>10, <1>11, <1>12 DEF WellFormed

\* Whatever a body nests, the blocks that its if, while, for, on and [v; n] create
\* are all put into the function and closed once, and branches lead to them
\* (IfStatementNode::codegen, WhileStatementNode::codegen, ForStatementNode::
\* codegen, ArrayInitializerExprNode::codegen): only a return before the end of the body,
\* or none at the end, makes the function malformed.
THEOREM ReturnsMalform == GenSpec => []OnlyReturnsMalform
<1>1. GenInit => Flow
  BY FlowInit
<1>2. Flow /\ [GenNext]_genVars => Flow'
  BY FlowStep
<1>3. Flow => OnlyReturnsMalform
  BY FlowMalforms
<1> QED BY <1>1, <1>2, <1>3, PTL DEF GenSpec
=============================================================================
