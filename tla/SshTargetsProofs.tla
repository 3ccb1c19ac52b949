---------------------------- MODULE SshTargetsProofs ----------------------------
(***************************************************************************)
(* Reading back what was saved: regrouping the flat form of any targets      *)
(* gives targets with the same legs, by induction over the targets saved and *)
(* over the triples read.  An induction over the naturals is an argument     *)
(* about the least number that fails.                                        *)
(***************************************************************************)
EXTENDS SshTargets, FiniteSetTheorems, TLAPS

\* Each set of naturals with a member has a least one: the sets 0..n of its members are
\* well-founded under inclusion.
LEMMA LeastNumber ==
    ASSUME NEW T, T \subseteq Nat, T # {}
    PROVE  \E n \in T : \A m \in T : n <= m
<1> DEFINE upTo == {0..n : n \in T}
<1>1. upTo \subseteq FiniteSubsetsOf(Nat)
  <2>1. \A n \in T : IsFiniteSet(0..n)
    BY FS_Interval
  <2>2. \A n \in T : 0..n \subseteq Nat
    OBVIOUS
  <2>3. QED
    BY <2>1, <2>2, Zenon DEF FiniteSubsetsOf
<1>2. upTo # {}
  OBVIOUS
<1>3. IsWellFoundedOn(StrictSubsetOrdering(Nat), FiniteSubsetsOf(Nat))
  BY FS_StrictSubsetOrderingWellFounded
<1>4. PICK X \in upTo : \A Y \in upTo : ~ (<<Y, X>> \in StrictSubsetOrdering(Nat))
  <2> HIDE DEF upTo
  <2>1. QED
    BY <1>1, <1>2, <1>3, WFMin, Zenon
<1>5. PICK n \in T : X = 0..n
  BY <1>4
<1>6. ASSUME NEW m \in T, ~(n <= m) PROVE FALSE
  <2>1. 0..m \in upTo
    OBVIOUS
  <2>2. (0..m) \subseteq (0..n) /\ (0..m) # (0..n)
    BY <1>6
  <2>3. 0..m \in SUBSET Nat /\ 0..n \in SUBSET Nat
    OBVIOUS
  <2>4. QED
    BY <2>1, <2>2, <2>3, <1>4, <1>5 DEF StrictSubsetOrdering
<1>7. QED
  BY <1>6

\* Induction: a set of naturals with 0 and, below the bound, with the successor of each of
\* its members holds everything up to the bound.
LEMMA Induction ==
    ASSUME NEW n \in Nat, NEW S, 0 \in S, \A i \in 1..n : i - 1 \in S => i \in S
    PROVE  \A i \in 0..n : i \in S
<1> SUFFICES ASSUME NEW k \in 0..n, k \notin S PROVE FALSE
  OBVIOUS
<1> DEFINE T == {i \in 0..n : i \notin S}
<1>1. T \subseteq Nat /\ T # {}
  OBVIOUS
<1>2. PICK i \in T : \A m \in T : i <= m
  <2> HIDE DEF T
  <2>1. QED
    BY <1>1, LeastNumber
<1>3. i # 0 /\ i \in 1..n /\ i - 1 \in 0..n
  BY <1>2
<1>4. i - 1 \notin T
  BY <1>2, <1>3
<1>5. QED
  BY <1>3, <1>4

-------------------------------------------------------------------------------
\* The triple by triple unfolding of Regroup.
RegroupSteps(entries, n, g) ==
    g = [i \in 0..n |-> IF i = 0 THEN <<>> ELSE Add(g[i - 1], entries[i])]

LEMMA RegroupExists == ASSUME NEW entries \in Entries PROVE \E g : RegroupSteps(entries, Len(entries), g)
<1> DEFINE S == {n \in Nat : \E g : RegroupSteps(entries, n, g)}
<1>1. 0 \in S
  <2>1. RegroupSteps(entries, 0, [i \in 0..0 |-> <<>>])
    BY DEF RegroupSteps
  <2>2. QED
    BY <2>1
<1>2. ASSUME NEW n \in 1..Len(entries), n - 1 \in S PROVE n \in S
  <2>1. PICK g : RegroupSteps(entries, n - 1, g)
    BY <1>2
  <2> DEFINE h == [i \in 0..n |-> IF i = n THEN Add(g[n - 1], entries[n]) ELSE g[i]]
  <2>2. ASSUME NEW i \in 0..n
        PROVE  h[i] = IF i = 0 THEN <<>> ELSE Add(h[i - 1], entries[i])
    <3>1. CASE i = n
      BY <3>1
    <3>2. CASE i # n
      <4>1. i \in 0..(n - 1) /\ h[i] = g[i] /\ (i # 0 => h[i - 1] = g[i - 1])
        BY <3>2
      <4>2. g[i] = IF i = 0 THEN <<>> ELSE Add(g[i - 1], entries[i])
        BY <2>1, <4>1 DEF RegroupSteps
      <4>3. QED
        BY <4>1, <4>2
    <3>3. QED
      BY <3>1, <3>2
  <2>3. RegroupSteps(entries, n, h)
    BY <2>2 DEF RegroupSteps
  <2>4. QED
    BY <2>3
<1>3. Len(entries) \in Nat
  BY DEF Entries
<1> HIDE DEF S
<1>4. \A n \in 1..Len(entries) : n - 1 \in S => n \in S
  BY <1>2
<1>5. \A n \in 0..Len(entries) : n \in S
  BY ONLY <1>1, <1>3, <1>4, Induction
<1>6. QED
  BY <1>3, <1>5 DEF S

\* Regroup is the last of its steps.
LEMMA RegroupIsSteps ==
    ASSUME NEW entries \in Entries
    PROVE  \E g : RegroupSteps(entries, Len(entries), g) /\ Regroup(entries) = g[Len(entries)]
<1> DEFINE upTo == CHOOSE g : g = [i \in 0..Len(entries) |-> IF i = 0 THEN <<>> ELSE Add(g[i - 1], entries[i])]
<1>1. upTo = [i \in 0..Len(entries) |-> IF i = 0 THEN <<>> ELSE Add(upTo[i - 1], entries[i])]
  BY RegroupExists DEF RegroupSteps
<1>2. Regroup(entries) = upTo[Len(entries)]
  BY DEF Regroup
<1>3. QED
  BY <1>1, <1>2 DEF RegroupSteps

-------------------------------------------------------------------------------
\* What a triple is to be: the leg it was made of.
LegOf(e) == <<e.server, Dir(e)>>

\* b tells the first n triples and the places of P apart and in the same way, and each
\* triple has its place's leg.
Matches(entries, n, targets, P, b) ==
    /\ b \in [1..n -> P]
    /\ \A k, l \in 1..n : b[k] = b[l] => k = l
    /\ \A p \in P : \E k \in 1..n : b[k] = p
    /\ \A k \in 1..n : Leg(targets, b[k]) = LegOf(entries[k])

\* No server is named twice.
Apart(targets) ==
    \A i, j \in 1..Len(targets) : targets[i].server = targets[j].server => i = j

LEMMA SequenceFacts ==
    ASSUME NEW S, NEW s \in Seq(S)
    PROVE  /\ Len(s) \in Nat /\ DOMAIN s = 1..Len(s)
           /\ \A i \in 1..Len(s) : s[i] \in S
OBVIOUS

LEMMA IsSequence ==
    ASSUME NEW S, NEW n \in Nat, NEW s, s = [i \in 1..n |-> s[i]], \A i \in 1..n : s[i] \in S
    PROVE  s \in Seq(S) /\ Len(s) = n
OBVIOUS

LEMMA TargetFacts ==
    ASSUME NEW targets \in Targets
    PROVE  /\ Len(targets) \in Nat /\ DOMAIN targets = 1..Len(targets)
           /\ \A i \in 1..Len(targets) :
                 /\ targets[i] \in Target
                 /\ Len(targets[i].dirs) \in Nat
                 /\ DOMAIN targets[i].dirs = 1..Len(targets[i].dirs)
           /\ Places(targets) =
                 UNION {{<<i, k>> : k \in 1..Len(targets[i].dirs)} : i \in 1..Len(targets)}
<1>1. Len(targets) \in Nat /\ DOMAIN targets = 1..Len(targets)
  BY SequenceFacts DEF Targets
<1>2. ASSUME NEW i \in 1..Len(targets)
      PROVE  /\ targets[i] \in Target
             /\ Len(targets[i].dirs) \in Nat
             /\ DOMAIN targets[i].dirs = 1..Len(targets[i].dirs)
  <2>1. targets[i] \in Target
    BY SequenceFacts DEF Targets
  <2>2. targets[i].dirs \in Seq(Dirs)
    BY <2>1 DEF Target
  <2>3. QED
    BY <2>1, <2>2, SequenceFacts
<1>3. QED
  BY <1>1, <1>2 DEF Places

\* A place is a pair of numbers: of a target and of one of its dirs.
LEMMA PlaceFacts ==
    ASSUME NEW targets \in Targets
    PROVE  \A p : p \in Places(targets) <=>
              \E i \in 1..Len(targets) : \E k \in 1..Len(targets[i].dirs) : p = <<i, k>>
BY TargetFacts

\* Adding a triple adds one place, with the triple's leg, and leaves the others alone.
LEMMA AddStep ==
    ASSUME NEW targets \in Targets, Apart(targets),
           NEW e \in Entry
    PROVE  /\ Add(targets, e) \in Targets /\ Apart(Add(targets, e))
           /\ \E p : /\ p \notin Places(targets)
                    /\ Places(Add(targets, e)) = Places(targets) \cup {p}
                    /\ Leg(Add(targets, e), p) = LegOf(e)
                    /\ \A q \in Places(targets) : Leg(Add(targets, e), q) = Leg(targets, q)
<1> DEFINE new == Add(targets, e)
<1>1. Dir(e) \in Dirs /\ e.server \in Servers
  BY DEF Dir, Dirs, Entry
<1>2. CASE \E i \in 1..Len(targets) : targets[i].server = e.server
  <2>1. PICK j \in 1..Len(targets) : targets[j].server = e.server
    BY <1>2
  <2> DEFINE k == Len(targets[j].dirs) + 1
  <2>2. new = [i \in 1..Len(targets) |-> IF i = j THEN Insert(targets[j], e) ELSE targets[i]]
    BY <2>1, TargetFacts DEF Add, Apart
  <2>3. /\ Insert(targets[j], e) \in Target
        /\ Insert(targets[j], e).server = targets[j].server
        /\ Len(Insert(targets[j], e).dirs) = k
        /\ Insert(targets[j], e).dirs[k] = Dir(e)
        /\ \A m \in 1..(k - 1) : Insert(targets[j], e).dirs[m] = targets[j].dirs[m]
    <3>1. targets[j] \in Target /\ targets[j].server \in Servers /\ targets[j].dirs \in Seq(Dirs)
      BY TargetFacts DEF Target
    <3>2. targets[j] = [server |-> targets[j].server, dirs |-> targets[j].dirs]
      BY TargetFacts DEF Target
    <3>3. Insert(targets[j], e) = [server |-> targets[j].server, dirs |-> Append(targets[j].dirs, Dir(e))]
      BY <3>2 DEF Insert
    <3>4. QED
      BY <1>1, <3>1, <3>3 DEF Target
  <2> HIDE DEF new
  <2>4. new \in Targets /\ Len(new) = Len(targets)
    BY <2>2, <2>3, TargetFacts, IsSequence DEF Targets
  <2>5. Apart(new)
    BY <2>2, <2>3, <2>4 DEF Apart
  <2>6. k \in Nat \ {0}
    BY TargetFacts
  <2> HIDE DEF k
  <2>7. <<j, k>> \notin Places(targets)
    BY <2>6, PlaceFacts, TargetFacts DEF k
  <2>8. \A p : p \in Places(new) <=> p \in Places(targets) \/ p = <<j, k>>
    <3>1. \A i \in 1..Len(targets) : Len(new[i].dirs) = IF i = j THEN k ELSE Len(targets[i].dirs)
      BY <2>2, <2>3
    <3>2. \A m \in 1..k : m \in 1..Len(targets[j].dirs) \/ m = k
      BY <2>6, TargetFacts DEF k
    <3>3. \A m \in 1..Len(targets[j].dirs) : m \in 1..k
      BY <2>6, TargetFacts DEF k
    <3>4. \A p : p \in Places(new) <=>
              \E i \in 1..Len(targets) : \E m \in 1..Len(new[i].dirs) : p = <<i, m>>
      BY <2>4, PlaceFacts
    <3>5. ASSUME NEW p PROVE p \in Places(new) => p \in Places(targets) \/ p = <<j, k>>
      BY <3>1, <3>2, <3>4, PlaceFacts
    <3>6. ASSUME NEW p \in Places(targets) PROVE p \in Places(new)
      BY <3>1, <3>3, <3>4, PlaceFacts
    <3>7. <<j, k>> \in Places(new)
      BY <2>6, <3>1, <3>4
    <3>8. QED
      BY <3>5, <3>6, <3>7
  <2>9. Leg(new, <<j, k>>) = LegOf(e)
    BY <2>1, <2>2, <2>3 DEF Leg, LegOf
  <2>10. ASSUME NEW q \in Places(targets) PROVE Leg(new, q) = Leg(targets, q)
    <3>1. PICK i \in 1..Len(targets) : \E m \in 1..Len(targets[i].dirs) : q = <<i, m>>
      BY <2>10, PlaceFacts
    <3>2. PICK m \in 1..Len(targets[i].dirs) : q = <<i, m>>
      BY <3>1
    <3>3. i = j => m \in 1..(k - 1)
      BY TargetFacts DEF k
    <3>4. QED
      BY <2>2, <2>3, <3>2, <3>3 DEF Leg
  <2>11. QED
    BY <2>4, <2>5, <2>7, <2>8, <2>9, <2>10 DEF new
<1>3. CASE ~ \E i \in 1..Len(targets) : targets[i].server = e.server
  <2> DEFINE last == Len(targets) + 1
  <2>1. new = Append(targets, NewTarget(e))
    BY <1>3, TargetFacts DEF Add
  <2>2. /\ NewTarget(e) \in Target
        /\ NewTarget(e).server = e.server /\ Len(NewTarget(e).dirs) = 1 /\ NewTarget(e).dirs[1] = Dir(e)
    <3>1. <<Dir(e)>> \in Seq(Dirs) /\ Len(<<Dir(e)>>) = 1
      BY <1>1
    <3>2. QED
      BY <1>1, <3>1 DEF NewTarget, Target
  <2> HIDE DEF new
  <2>3. /\ new \in Targets /\ Len(new) = last /\ new[last] = NewTarget(e)
        /\ \A i \in 1..Len(targets) : new[i] = targets[i]
    BY <2>1, <2>2 DEF Targets
  <2>4. last \in Nat \ {0} /\ \A i \in 1..last : i = last \/ i \in 1..Len(targets)
    BY TargetFacts
  <2>5. Apart(new)
    BY <1>3, <2>2, <2>3, <2>4 DEF Apart
  <2>6. <<last, 1>> \notin Places(targets)
    BY PlaceFacts, TargetFacts
  <2>7. \A p : p \in Places(new) <=> p \in Places(targets) \/ p = <<last, 1>>
    <3>1. \A i \in 1..Len(targets) : i \in 1..last
      BY TargetFacts
    <3> HIDE DEF last
    <3>2. \A p : p \in Places(new) <=>
              \E i \in 1..last : \E m \in 1..Len(new[i].dirs) : p = <<i, m>>
      BY <2>3, PlaceFacts
    <3>3. ASSUME NEW p PROVE p \in Places(new) => p \in Places(targets) \/ p = <<last, 1>>
      <4> SUFFICES ASSUME p \in Places(new), p # <<last, 1>> PROVE p \in Places(targets)
        OBVIOUS
      <4>1. PICK i \in 1..last : \E m \in 1..Len(new[i].dirs) : p = <<i, m>>
        BY <3>2
      <4>2. Len(new[last].dirs) = 1 /\ \A m \in 1..1 : m = 1
        BY <2>2, <2>3
      <4>3. i \in 1..Len(targets)
        BY <2>4, <4>1, <4>2
      <4>4. QED
        BY <2>3, <4>1, <4>3, PlaceFacts
    <3>4. ASSUME NEW p \in Places(targets) PROVE p \in Places(new)
      BY <2>3, <3>1, <3>2, PlaceFacts
    <3>5. <<last, 1>> \in Places(new)
      BY <2>2, <2>3, <2>4, <3>2
    <3>6. QED
      BY <3>3, <3>4, <3>5
  <2>8. Leg(new, <<last, 1>>) = LegOf(e)
    BY <2>2, <2>3 DEF Leg, LegOf
  <2>9. \A q \in Places(targets) : Leg(new, q) = Leg(targets, q)
    BY <2>3, PlaceFacts DEF Leg
  <2>10. QED
    BY <2>3, <2>5, <2>6, <2>7, <2>8, <2>9 DEF new
<1>4. QED
  BY <1>2, <1>3

LEMMA EntryFacts ==
    ASSUME NEW entries \in Entries
    PROVE  /\ Len(entries) \in Nat /\ \A i \in 1..Len(entries) : entries[i] \in Entry
BY SequenceFacts DEF Entries

\* Regrouping any triples gives targets with distinct servers, one place per triple.
LEMMA RegroupMatches ==
    ASSUME NEW entries \in Entries
    PROVE  /\ Regroup(entries) \in Targets /\ Apart(Regroup(entries))
           /\ \E b : Matches(entries, Len(entries), Regroup(entries), Places(Regroup(entries)), b)
<1>1. PICK g : RegroupSteps(entries, Len(entries), g) /\ Regroup(entries) = g[Len(entries)]
  BY RegroupIsSteps
<1> DEFINE S == {i \in 0..Len(entries) :
                    /\ g[i] \in Targets /\ Apart(g[i])
                    /\ \E b : Matches(entries, i, g[i], Places(g[i]), b)}
<1>2. 0 \in S
  <2>1. g[0] = <<>> /\ <<>> \in Targets /\ Apart(<<>>) /\ Places(<<>>) = {}
    BY <1>1, EntryFacts DEF RegroupSteps, Targets, Apart, Places
  <2>2. Matches(entries, 0, <<>>, {}, [k \in 1..0 |-> <<>>])
    BY DEF Matches
  <2>3. QED
    BY <2>1, <2>2, EntryFacts
<1>3. ASSUME NEW i \in 1..Len(entries), i - 1 \in S PROVE i \in S
  <2> DEFINE old == g[i - 1]
  <2> DEFINE new == g[i]
  <2>1. new = Add(old, entries[i]) /\ entries[i] \in Entry
    BY <1>1, EntryFacts DEF RegroupSteps
  <2>2. old \in Targets /\ Apart(old)
    BY <1>3
  <2>3. PICK b : Matches(entries, i - 1, old, Places(old), b)
    BY <1>3
  <2> HIDE DEF old, new
  <2>4. new \in Targets /\ Apart(new)
    BY <2>1, <2>2, AddStep
  <2>5. PICK p : /\ p \notin Places(old) /\ Places(new) = Places(old) \cup {p}
                 /\ Leg(new, p) = LegOf(entries[i])
                 /\ \A q \in Places(old) : Leg(new, q) = Leg(old, q)
    BY <2>1, <2>2, AddStep
  <2> DEFINE c == [k \in 1..i |-> IF k = i THEN p ELSE b[k]]
  <2>6. i \in Nat \ {0} /\ \A k \in 1..i : k = i \/ k \in 1..(i - 1)
    BY EntryFacts
  <2>7. i \in 1..i /\ \A k \in 1..(i - 1) : k \in 1..i /\ k # i
    BY <2>6
  <2>8. \A k \in 1..(i - 1) : b[k] \in Places(old) /\ Leg(old, b[k]) = LegOf(entries[k])
    BY <2>3 DEF Matches
  <2>9. Matches(entries, i, new, Places(new), c)
    <3>1. c \in [1..i -> Places(new)]
      BY <2>5, <2>6, <2>8
    <3>2. \A k, l \in 1..i : c[k] = c[l] => k = l
      BY <2>3, <2>5, <2>6, <2>8 DEF Matches
    <3>3. \A q \in Places(new) : \E k \in 1..i : c[k] = q
      BY <2>3, <2>5, <2>7 DEF Matches
    <3>4. \A k \in 1..i : Leg(new, c[k]) = LegOf(entries[k])
      BY <2>5, <2>6, <2>8
    <3>5. QED
      BY <3>1, <3>2, <3>3, <3>4 DEF Matches
  <2>10. QED
    BY <2>4, <2>9 DEF new
<1> HIDE DEF S
<1>4. Len(entries) \in Nat
  BY EntryFacts
<1>5. \A i \in 1..Len(entries) : i - 1 \in S => i \in S
  BY <1>3
<1>6. \A i \in 0..Len(entries) : i \in S
  BY ONLY <1>2, <1>4, <1>5, Induction
<1>7. QED
  BY <1>1, <1>4, <1>6 DEF S

-------------------------------------------------------------------------------
\* The target by target unfolding of Flatten.
FlattenSteps(targets, n, g) ==
    g = [i \in 0..n |-> IF i = 0 THEN <<>> ELSE g[i - 1] \o Triples(targets[i])]

LEMMA FlattenExists == ASSUME NEW targets \in Targets PROVE \E g : FlattenSteps(targets, Len(targets), g)
<1> DEFINE S == {n \in Nat : \E g : FlattenSteps(targets, n, g)}
<1>1. 0 \in S
  <2>1. FlattenSteps(targets, 0, [i \in 0..0 |-> <<>>])
    BY DEF FlattenSteps
  <2>2. QED
    BY <2>1
<1>2. ASSUME NEW n \in 1..Len(targets), n - 1 \in S PROVE n \in S
  <2>1. PICK g : FlattenSteps(targets, n - 1, g)
    BY <1>2
  <2> DEFINE h == [i \in 0..n |-> IF i = n THEN g[n - 1] \o Triples(targets[n]) ELSE g[i]]
  <2>2. ASSUME NEW i \in 0..n
        PROVE  h[i] = IF i = 0 THEN <<>> ELSE h[i - 1] \o Triples(targets[i])
    <3>1. CASE i = n
      <4>1. n # 0 /\ n - 1 \in 0..n /\ n - 1 # n /\ n \in 0..n
        BY TargetFacts
      <4>2. h[n] = g[n - 1] \o Triples(targets[n]) /\ h[n - 1] = g[n - 1]
        BY <4>1
      <4>3. QED
        BY <3>1, <4>1, <4>2
    <3>2. CASE i # n
      <4>1. i \in 0..(n - 1) /\ h[i] = g[i] /\ (i # 0 => h[i - 1] = g[i - 1])
        BY <3>2
      <4>2. g[i] = IF i = 0 THEN <<>> ELSE g[i - 1] \o Triples(targets[i])
        BY <2>1, <4>1 DEF FlattenSteps
      <4>3. QED
        BY <4>1, <4>2
    <3>3. QED
      BY <3>1, <3>2
  <2>3. FlattenSteps(targets, n, h)
    BY <2>2 DEF FlattenSteps
  <2>4. QED
    BY <2>3
<1>3. Len(targets) \in Nat
  BY TargetFacts
<1> HIDE DEF S
<1>4. \A n \in 1..Len(targets) : n - 1 \in S => n \in S
  BY <1>2
<1>5. \A n \in 0..Len(targets) : n \in S
  BY ONLY <1>1, <1>3, <1>4, Induction
<1>6. QED
  BY <1>3, <1>5 DEF S

\* Flatten is the last of its steps.
LEMMA FlattenIsSteps ==
    ASSUME NEW targets \in Targets
    PROVE  \E g : FlattenSteps(targets, Len(targets), g) /\ Flatten(targets) = g[Len(targets)]
<1> DEFINE upTo == CHOOSE g : g = [i \in 0..Len(targets) |->
                                      IF i = 0 THEN <<>> ELSE g[i - 1] \o Triples(targets[i])]
<1>1. upTo = [i \in 0..Len(targets) |-> IF i = 0 THEN <<>> ELSE upTo[i - 1] \o Triples(targets[i])]
  BY FlattenExists DEF FlattenSteps
<1>2. Flatten(targets) = upTo[Len(targets)]
  BY DEF Flatten
<1>3. QED
  BY <1>1, <1>2 DEF FlattenSteps

LEMMA TriplesFacts ==
    ASSUME NEW targets \in Targets, NEW i \in 1..Len(targets)
    PROVE  /\ Triples(targets[i]) \in Entries /\ Len(Triples(targets[i])) = Len(targets[i].dirs)
           /\ \A k \in 1..Len(targets[i].dirs) :
                 LegOf(Triples(targets[i])[k]) = Leg(targets, <<i, k>>)
<1> DEFINE t == targets[i]
<1> DEFINE n == Len(t.dirs)
<1>1. t.server \in Servers /\ n \in Nat /\ \A k \in 1..n : t.dirs[k] \in Dirs
  <2>1. t.server \in Servers /\ t.dirs \in Seq(Dirs)
    BY TargetFacts DEF Target
  <2>2. QED
    BY <2>1, SequenceFacts
<1> DEFINE e(k) == [server |-> t.server, source |-> t.dirs[k].source, dest |-> t.dirs[k].dest]
<1>2. Triples(t) = [k \in 1..n |-> e(k)]
  BY DEF Triples
<1>3. \A k \in 1..n : e(k) \in Entry
  BY <1>1 DEF Entry, Dirs
<1>4. \A k \in 1..n : e(k).server = t.server /\ Dir(e(k)) = t.dirs[k]
  BY <1>1 DEF Dir, Dirs
<1> HIDE DEF e
<1>5. Triples(t) \in Entries /\ Len(Triples(t)) = n
  BY <1>1, <1>2, <1>3, IsSequence DEF Entries
<1>6. QED
  BY <1>2, <1>4, <1>5 DEF LegOf, Leg

LEMMA ConcatFacts ==
    ASSUME NEW a \in Entries, NEW b \in Entries
    PROVE  /\ a \o b \in Entries /\ Len(a \o b) = Len(a) + Len(b)
           /\ \A k \in 1..Len(a) : (a \o b)[k] = a[k]
           /\ \A k \in 1..Len(b) : (a \o b)[Len(a) + k] = b[k]
<1>1. a \in Seq(Entry) /\ b \in Seq(Entry)
  BY DEF Entries
<1>2. QED
  BY <1>1 DEF Entries

\* Saved targets have one triple per place.
LEMMA FlattenMatches ==
    ASSUME NEW targets \in Targets
    PROVE  /\ Flatten(targets) \in Entries
           /\ \E b : Matches(Flatten(targets), Len(Flatten(targets)), targets, Places(targets), b)
<1>1. PICK g : FlattenSteps(targets, Len(targets), g) /\ Flatten(targets) = g[Len(targets)]
  BY FlattenIsSteps
<1> DEFINE PlacesTo(i) == {p \in Places(targets) : p[1] \in 1..i}
<1> DEFINE S == {i \in 0..Len(targets) :
                    /\ g[i] \in Entries
                    /\ \E b : Matches(g[i], Len(g[i]), targets, PlacesTo(i), b)}
<1>2. 0 \in S
  <2>1. g[0] = <<>> /\ <<>> \in Entries /\ Len(<<>>) = 0 /\ PlacesTo(0) = {}
    BY <1>1, TargetFacts DEF FlattenSteps, Entries
  <2>2. Matches(<<>>, 0, targets, {}, [k \in 1..0 |-> <<>>])
    BY DEF Matches
  <2> HIDE DEF PlacesTo
  <2>3. \E b : Matches(g[0], Len(g[0]), targets, PlacesTo(0), b)
    BY <2>1, <2>2
  <2>4. QED
    BY <2>1, <2>3, TargetFacts
<1>3. ASSUME NEW i \in 1..Len(targets), i - 1 \in S PROVE i \in S
  <2> DEFINE old == g[i - 1]
  <2> DEFINE new == g[i]
  <2> DEFINE n == Len(old)
  <2> DEFINE m == Len(targets[i].dirs)
  <2>1. new = old \o Triples(targets[i])
    <3>1. i \in 0..Len(targets) /\ i # 0
      BY TargetFacts
    <3>2. QED
      BY <1>1, <3>1 DEF FlattenSteps
  <2>2. old \in Entries /\ n \in Nat /\ m \in Nat
    BY <1>3, EntryFacts, TargetFacts
  <2>3. PICK b : Matches(old, n, targets, PlacesTo(i - 1), b)
    BY <1>3
  <2> HIDE DEF old, new
  <2>4. /\ new \in Entries /\ Len(new) = n + m
        /\ \A k \in 1..n : new[k] = old[k]
        /\ \A k \in 1..m : LegOf(new[n + k]) = Leg(targets, <<i, k>>)
    <3> DEFINE t == Triples(targets[i])
    <3>1. t \in Entries /\ Len(t) = m /\ \A k \in 1..m : LegOf(t[k]) = Leg(targets, <<i, k>>)
      BY TriplesFacts
    <3> HIDE DEF t, m
    <3>2. /\ old \o t \in Entries /\ Len(old \o t) = n + m
          /\ \A k \in 1..n : (old \o t)[k] = old[k]
          /\ \A k \in 1..m : (old \o t)[n + k] = t[k]
      BY <2>2, <3>1, ConcatFacts
    <3>3. new = old \o t
      BY <2>1 DEF t
    <3>4. QED
      BY <3>1, <3>2, <3>3
  <2> HIDE DEF n, m
  <2>5. \A p : p \in PlacesTo(i) <=> p \in PlacesTo(i - 1) \/ \E k \in 1..m : p = <<i, k>>
    <3>1. \A p \in Places(targets) : p[1] = i <=> \E k \in 1..m : p = <<i, k>>
      BY PlaceFacts DEF m
    <3>2. \A k \in 1..m : <<i, k>> \in Places(targets)
      BY PlaceFacts DEF m
    <3>3. i \in Nat \ {0} /\ \A j : j \in 1..i <=> j \in 1..(i - 1) \/ j = i
      BY TargetFacts
    <3>4. QED
      BY <3>1, <3>2, <3>3
  <2>6. \A p \in PlacesTo(i - 1), k \in 1..m : p # <<i, k>>
    BY TargetFacts
  <2> DEFINE c == [k \in 1..(n + m) |-> IF k \in 1..n THEN b[k] ELSE <<i, k - n>>]
  <2>7. \A k \in 1..(n + m) : k \in 1..n \/ (k \notin 1..n /\ k - n \in 1..m /\ k = n + (k - n))
    BY <2>2
  <2>8. /\ \A k \in 1..n : k \in 1..(n + m)
        /\ \A k \in 1..m : n + k \in 1..(n + m) /\ n + k \notin 1..n /\ (n + k) - n = k
    BY <2>2
  <2>9. \A k \in 1..n : b[k] \in PlacesTo(i - 1) /\ Leg(targets, b[k]) = LegOf(old[k])
    BY <2>3 DEF Matches
  <2> HIDE DEF PlacesTo
  <2>10. Matches(new, n + m, targets, PlacesTo(i), c)
    <3>1. c \in [1..(n + m) -> PlacesTo(i)]
      BY <2>5, <2>7, <2>9
    <3>2. ASSUME NEW k \in 1..(n + m), NEW l \in 1..(n + m), c[k] = c[l] PROVE k = l
      <4>1. CASE k \in 1..n /\ l \in 1..n
        BY <2>3, <3>2, <4>1 DEF Matches
      <4>2. CASE k \notin 1..n /\ l \notin 1..n
        BY <2>2, <3>2, <4>2
      <4>3. CASE k \in 1..n /\ l \notin 1..n
        BY <2>6, <2>7, <2>9, <3>2, <4>3
      <4>4. CASE k \notin 1..n /\ l \in 1..n
        BY <2>6, <2>7, <2>9, <3>2, <4>4
      <4>5. QED
        BY <4>1, <4>2, <4>3, <4>4
    <3>3. ASSUME NEW q \in PlacesTo(i) PROVE \E k \in 1..(n + m) : c[k] = q
      <4>1. CASE q \in PlacesTo(i - 1)
        <5>1. PICK k \in 1..n : b[k] = q
          BY <2>3, <4>1 DEF Matches
        <5>2. QED
          BY <2>8, <5>1
      <4>2. ASSUME NEW k \in 1..m, q = <<i, k>> PROVE \E l \in 1..(n + m) : c[l] = q
        BY <2>8, <4>2
      <4>3. QED
        BY <2>5, <4>1, <4>2
    <3>4. \A k \in 1..(n + m) : Leg(targets, c[k]) = LegOf(new[k])
      BY <2>4, <2>7, <2>9
    <3>5. QED
      BY <3>1, <3>2, <3>3, <3>4 DEF Matches
  <2>11. QED
    BY <2>4, <2>10 DEF new, n, m
<1>4. Len(targets) \in Nat
  BY TargetFacts
<1>5. PlacesTo(Len(targets)) = Places(targets)
  BY PlaceFacts
<1> HIDE DEF S, PlacesTo
<1>6. \A i \in 1..Len(targets) : i - 1 \in S => i \in S
  BY <1>3
<1>7. \A i \in 0..Len(targets) : i \in S
  BY ONLY <1>2, <1>4, <1>6, Induction
<1>8. Len(targets) \in S
  BY <1>4, <1>7
<1>9. QED
  BY <1>1, <1>5, <1>8 DEF S

-------------------------------------------------------------------------------
\* Targets that match the triples have each leg as often as these do.
LEMMA MatchesCount ==
    ASSUME NEW entries, NEW n \in Nat, NEW targets, NEW b,
           Matches(entries, n, targets, Places(targets), b), NEW leg
    PROVE  Cardinality(PlacesOf(targets, leg)) = Cardinality({k \in 1..n : LegOf(entries[k]) = leg})
<1> DEFINE K == {k \in 1..n : LegOf(entries[k]) = leg}
<1> DEFINE P == PlacesOf(targets, leg)
<1> DEFINE c == [k \in K |-> b[k]]
<1>1. IsFiniteSet(K)
  <2>1. IsFiniteSet(1..n) /\ K \in SUBSET (1..n)
    BY FS_Interval
  <2>2. QED
    BY <2>1, FS_Subset
<1>2. c \in [K -> P]
  BY DEF Matches, PlacesOf
<1>3. \A k, l \in K : c[k] = c[l] => k = l
  BY DEF Matches
<1>4. \A p \in P : \E k \in K : c[k] = p
  BY DEF Matches, PlacesOf
<1> HIDE DEF K, P, c
<1>5. c \in Bijection(K, P)
  BY <1>2, <1>3, <1>4 DEF Bijection, Injection, Surjection, IsInjective
<1>6. QED
  BY <1>1, <1>5, FS_Bijection DEF ExistsBijection, K, P

LEMMA MatchesLegs ==
    ASSUME NEW entries, NEW n, NEW targets, NEW b, Matches(entries, n, targets, Places(targets), b)
    PROVE  {Leg(targets, p) : p \in Places(targets)} = {LegOf(entries[k]) : k \in 1..n}
BY DEF Matches

\* Any targets come back from the job's file with the same legs, each as often, and with
\* each server named once (saveBackupJob and readBackupJobs, the ssh entries).
THEOREM RegroupUndoesFlatten ==
    ASSUME NEW targets \in Targets
    PROVE  /\ Regroup(Flatten(targets)) \in Targets
           /\ Apart(Regroup(Flatten(targets)))
           /\ Legs(Regroup(Flatten(targets))) = Legs(targets)
<1> DEFINE entries == Flatten(targets)
<1> DEFINE n == Len(entries)
<1> DEFINE back == Regroup(entries)
<1>1. entries \in Entries
  BY FlattenMatches
<1>2. PICK b : Matches(entries, n, targets, Places(targets), b)
  BY FlattenMatches
<1> HIDE DEF entries
<1>3. n \in Nat
  BY <1>1, EntryFacts
<1>4. back \in Targets /\ Apart(back)
  BY <1>1, RegroupMatches
<1>5. PICK c : Matches(entries, n, back, Places(back), c)
  BY <1>1, RegroupMatches
<1> HIDE DEF n, back
<1>6. {Leg(back, p) : p \in Places(back)} = {Leg(targets, p) : p \in Places(targets)}
  BY <1>2, <1>5, MatchesLegs
<1>7. ASSUME NEW leg PROVE Cardinality(PlacesOf(back, leg)) = Cardinality(PlacesOf(targets, leg))
  <2> DEFINE count == Cardinality({k \in 1..n : LegOf(entries[k]) = leg})
  <2>1. Cardinality(PlacesOf(back, leg)) = count
    BY <1>3, <1>5, MatchesCount
  <2>2. Cardinality(PlacesOf(targets, leg)) = count
    BY <1>2, <1>3, MatchesCount
  <2>3. QED
    BY <2>1, <2>2
<1>8. Legs(back) = Legs(targets)
  BY <1>6, <1>7 DEF Legs
<1>9. QED
  BY <1>4, <1>8 DEF back, entries
===============================================================================
