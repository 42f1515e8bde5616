-------------------------- MODULE GroupGamesProofs --------------------------
(***************************************************************************)
(* Five games of the groups, for any number of members, accounts, tables,  *)
(* rounds and duels.  Black and white: whatever happens to the links of    *)
(* the members while a table is open, nobody sits at two open tables, a    *)
(* result is final, and the smaller side is the one that is paid.  Big or  *)
(* small: no bet knows the dice, nobody leaves with points on the table,   *)
(* and the card stays until its report is there.  The duel: no die is      *)
(* thrown twice, nobody duels twice at a time, and the stakes are complete *)
(* until they are returned or won.  Niuniu: each guest's stake is settled  *)
(* with the banker alone, and the room's card outlives its report.  The    *)
(* nine cells: one card a round, two presses a cell, few cells a person,   *)
(* and no round for a slot that is past.  Every point is accounted for: a   *)
(* pot is the stakes in it, a bank can pay whatever the dice show, and a    *)
(* wallet is what its member's games brought.  These are sums over sets of *)
(* any finite size; each lemma about a sum takes a smallest subset that     *)
(* contradicts it.                                                         *)
(***************************************************************************)
EXTENDS MCGames, FiniteSetTheorems, WellFoundedInduction, TLAPS

First(s) == CHOOSE x \in s : TRUE
Adds(g, f, D) ==
  g = [s \in SUBSET D |-> IF s = {} THEN 0 ELSE f[First(s)] + g[s \ {First(s)}]]

LEMMA Smallest ==
    ASSUME NEW S, IsFiniteSet(S), NEW F, F \subseteq SUBSET S, F # {}
    PROVE  \E T \in F : \A U \in F : U \subseteq T => U = T
<1>1. IsWellFoundedOn(StrictSubsetOrdering(S), SUBSET S)
  BY FS_StrictSubsetOrderingWellFounded, FS_FiniteSubsetsOfFinite
<1>2. PICK T \in F : \A U \in F : ~(<<U, T>> \in StrictSubsetOrdering(S))
  BY <1>1, WFMin
<1> QED
  BY <1>2 DEF StrictSubsetOrdering

LEMMA OneSum ==
    ASSUME NEW S, IsFiniteSet(S), NEW f, NEW D \in SUBSET S, NEW E \in SUBSET S,
           NEW g, Adds(g, f, D), NEW h, Adds(h, f, E), NEW T, T \subseteq D, T \subseteq E
    PROVE  g[T] = h[T]
<1> DEFINE F == {U \in SUBSET S : U \subseteq D /\ U \subseteq E /\ g[U] # h[U]}
<1>1. SUFFICES ASSUME F # {} PROVE FALSE
  BY <1>1
<1>2. PICK U \in F : \A V \in F : V \subseteq U => V = U
  <2> HIDE DEF F
  <2>1. F \subseteq SUBSET S
    BY DEF F
  <2> QED
    BY <1>1, <2>1, Smallest
<1>3. \A V \in SUBSET D : g[V] = IF V = {} THEN 0 ELSE f[First(V)] + g[V \ {First(V)}]
  BY DEF Adds
<1>4. \A V \in SUBSET E : h[V] = IF V = {} THEN 0 ELSE f[First(V)] + h[V \ {First(V)}]
  BY DEF Adds
<1>5. U # {}
  BY <1>2, <1>3, <1>4
<1>6. First(U) \in U
  BY <1>5 DEF First
<1>7. g[U \ {First(U)}] = h[U \ {First(U)}]
  BY <1>2, <1>6
<1> QED
  BY <1>2, <1>3, <1>4, <1>5, <1>7

LEMMA SomeSum ==
    ASSUME NEW S, IsFiniteSet(S), NEW f
    PROVE  \E g : Adds(g, f, S)
<1> DEFINE F == {U \in SUBSET S : ~\E g : Adds(g, f, U)}
<1>1. SUFFICES ASSUME F # {} PROVE FALSE
  OBVIOUS
<1>2. PICK T \in F : \A V \in F : V \subseteq T => V = T
  <2> HIDE DEF F
  <2>1. F \subseteq SUBSET S
    BY DEF F
  <2> QED
    BY <1>1, <2>1, Smallest
<1> DEFINE sums(U) == CHOOSE g : Adds(g, f, U)
           below(s) == sums(s)[s]
           all == [s \in SUBSET T |-> IF s = T THEN (IF T = {} THEN 0 ELSE f[First(T)] + below(T \ {First(T)})) ELSE below(s)]
<1>3. \A U \in SUBSET T : U # T => Adds(sums(U), f, U)
  BY <1>2
<1> HIDE DEF sums
<1>4. \A U \in SUBSET T : U # T /\ U # {} => below(U) = f[First(U)] + below(U \ {First(U)})
  <2>1. SUFFICES ASSUME NEW U \in SUBSET T, U # T, U # {} PROVE below(U) = f[First(U)] + below(U \ {First(U)})
    OBVIOUS
  <2>2. First(U) \in U
    BY <2>1 DEF First
  <2> DEFINE V == U \ {First(U)}
  <2>3. Adds(sums(U), f, U) /\ Adds(sums(V), f, V) /\ V \subseteq U /\ V \in SUBSET T
    BY <2>1, <2>2, <1>3
  <2>4. sums(U)[V] = sums(V)[V]
    BY <2>3, OneSum, IsFiniteSet(S), U \in SUBSET S, V \in SUBSET S
  <2>5. sums(U)[U] = f[First(U)] + sums(U)[V]
    BY <2>1, <2>3 DEF Adds
  <2> QED
    BY <2>4, <2>5
<1>5. {} # T => below({}) = 0
  BY <1>3 DEF Adds
<1> HIDE DEF below
<1>6. Adds(all, f, T)
  <2>1. \A s \in SUBSET T : s # {} => First(s) \in s /\ s \ {First(s)} \in SUBSET T /\ s \ {First(s)} # T
    BY DEF First
  <2>2. \A s \in SUBSET T : all[s] = IF s = {} THEN 0 ELSE f[First(s)] + all[s \ {First(s)}]
    BY <2>1, <1>4, <1>5
  <2>3. all = [s \in SUBSET T |-> all[s]]
    OBVIOUS
  <2> QED
    BY <2>2, <2>3 DEF Adds
<1> QED
  BY <1>2, <1>6

LEMMA SumIs ==
    ASSUME NEW S, IsFiniteSet(S), NEW f
    PROVE  \E g : Adds(g, f, S) /\ SumFunctionOnSet(f, S) = g[S]
<1> DEFINE g == CHOOSE g : Adds(g, f, S)
<1>1. Adds(g, f, S)
  BY SomeSum
<1>2. SumFunctionOnSet(f, S) = g[S]
  BY DEF SumFunctionOnSet, FoldFunctionOnSet, MapThenFoldSet, Adds, First
<1> QED
  BY <1>1, <1>2

LEMMA SumStep ==
    ASSUME NEW S, IsFiniteSet(S), NEW f
    PROVE  SumFunctionOnSet(f, S) = IF S = {} THEN 0 ELSE f[First(S)] + SumFunctionOnSet(f, S \ {First(S)})
<1>1. PICK g : Adds(g, f, S) /\ SumFunctionOnSet(f, S) = g[S]
  BY SumIs
<1>2. CASE S = {}
  BY <1>1, <1>2 DEF Adds
<1>3. CASE S # {}
  <2> DEFINE T == S \ {First(S)}
  <2>1. IsFiniteSet(T) /\ T \in SUBSET S /\ S \in SUBSET S
    BY FS_RemoveElement
  <2>2. PICK h : Adds(h, f, T) /\ SumFunctionOnSet(f, T) = h[T]
    BY <2>1, SumIs
  <2>3. g[T] = h[T]
    BY <1>1, <2>1, <2>2, OneSum
  <2>4. g[S] = f[First(S)] + g[T]
    BY <1>1, <1>3 DEF Adds
  <2> QED
    BY <1>1, <1>3, <2>2, <2>3, <2>4
<1> QED
  BY <1>2, <1>3

LEMMA NoSum == ASSUME NEW f PROVE SumFunctionOnSet(f, {}) = 0
BY FS_EmptySet, SumStep

(* A sum takes its terms in any order: any one of them may come first.     *)
LEMMA SumInt ==
    ASSUME NEW S, IsFiniteSet(S), NEW f, \A x \in S : f[x] \in Int
    PROVE  SumFunctionOnSet(f, S) \in Int
<1> DEFINE F == {U \in SUBSET S : SumFunctionOnSet(f, U) \notin Int}
<1>1. SUFFICES ASSUME F # {} PROVE FALSE
  OBVIOUS
<1>2. PICK T \in F : \A V \in F : V \subseteq T => V = T
  <2>1. F \subseteq SUBSET S
    OBVIOUS
  <2> HIDE DEF F
  <2> QED
    BY <1>1, <2>1, Smallest
<1>3. IsFiniteSet(T)
  BY <1>2, FS_Subset
<1>4. T # {} => First(T) \in T
  BY DEF First
<1>5. T # {} => SumFunctionOnSet(f, T \ {First(T)}) \in Int
  BY <1>2, <1>4
<1>6. T # {}
  BY <1>2, NoSum
<1>7. SumFunctionOnSet(f, T) = f[First(T)] + SumFunctionOnSet(f, T \ {First(T)})
  BY <1>3, <1>6, SumStep
<1> QED
  BY <1>2, <1>4, <1>5, <1>6, <1>7

LEMMA SumPick ==
    ASSUME NEW S, IsFiniteSet(S), NEW f, \A x \in S : f[x] \in Int, NEW y \in S
    PROVE  SumFunctionOnSet(f, S) = f[y] + SumFunctionOnSet(f, S \ {y})
<1> DEFINE Total(U) == SumFunctionOnSet(f, U)
           F == {U \in SUBSET S : \E x \in U : Total(U) # f[x] + Total(U \ {x})}
<1>1. SUFFICES ASSUME F # {} PROVE FALSE
  BY <1>1
<1>2. PICK T \in F : \A V \in F : V \subseteq T => V = T
  <2>1. F \subseteq SUBSET S
    OBVIOUS
  <2> HIDE DEF F
  <2> QED
    BY <1>1, <2>1, Smallest
<1>3. PICK x \in T : Total(T) # f[x] + Total(T \ {x})
  BY <1>2
<1>4. \A U \in SUBSET S : IsFiniteSet(U) /\ Total(U) \in Int
  BY FS_Subset, SumInt
<1>5. \A U \in SUBSET S : U # {} => First(U) \in U /\ Total(U) = f[First(U)] + Total(U \ {First(U)})
  BY <1>4, SumStep DEF First
<1> HIDE DEF Total
<1> DEFINE c == First(T)
<1>6. c \in T /\ c # x /\ Total(T) = f[c] + Total(T \ {c})
  BY <1>3, <1>5
<1>7. Total(T \ {c}) = f[x] + Total((T \ {c}) \ {x})
  BY <1>2, <1>3, <1>6
<1>8. Total(T \ {x}) = f[c] + Total((T \ {x}) \ {c})
  BY <1>2, <1>3, <1>6
<1>9. (T \ {c}) \ {x} = (T \ {x}) \ {c} /\ Total((T \ {x}) \ {c}) \in Int
  BY <1>4
<1>10. f[c] \in Int /\ f[x] \in Int
  BY <1>2, <1>6
<1>11. Total(T) = f[x] + Total(T \ {x})
  <2> DEFINE rest == Total((T \ {x}) \ {c})
  <2>1. Total(T) = f[c] + (f[x] + rest) /\ Total(T \ {x}) = f[c] + rest /\ rest \in Int
    BY <1>6, <1>7, <1>8, <1>9
  <2> HIDE DEF rest
  <2> QED
    BY <1>10, <2>1
<1> QED
  BY <1>3, <1>11

LEMMA SumSame ==
    ASSUME NEW S, IsFiniteSet(S), NEW f, NEW g, \A x \in S : f[x] = g[x]
    PROVE  SumFunctionOnSet(f, S) = SumFunctionOnSet(g, S)
<1>1. PICK h : Adds(h, f, S) /\ SumFunctionOnSet(f, S) = h[S]
  BY SumIs
<1>2. PICK i : Adds(i, g, S) /\ SumFunctionOnSet(g, S) = i[S]
  BY SumIs
<1>3. Adds(h, g, S)
  BY <1>1 DEF Adds, First
<1>4. S \in SUBSET S
  OBVIOUS
<1> QED
  BY <1>1, <1>2, <1>3, <1>4, OneSum

LEMMA SumChange ==
    ASSUME NEW S, IsFiniteSet(S), NEW f, NEW g, NEW y \in S,
           \A x \in S : f[x] \in Int /\ g[x] \in Int, \A x \in S \ {y} : f[x] = g[x]
    PROVE  SumFunctionOnSet(g, S) = SumFunctionOnSet(f, S) + g[y] - f[y]
<1>1. IsFiniteSet(S \ {y})
  BY FS_RemoveElement
<1>2. SumFunctionOnSet(f, S \ {y}) = SumFunctionOnSet(g, S \ {y}) /\ SumFunctionOnSet(f, S \ {y}) \in Int
  BY <1>1, SumSame, SumInt
<1>3. /\ SumFunctionOnSet(f, S) = f[y] + SumFunctionOnSet(f, S \ {y})
      /\ SumFunctionOnSet(g, S) = g[y] + SumFunctionOnSet(g, S \ {y})
  BY SumPick
<1> QED
  BY <1>2, <1>3

LEMMA SumPlus ==
    ASSUME NEW S, IsFiniteSet(S), NEW f, NEW g, NEW h,
           \A x \in S : f[x] \in Int /\ g[x] \in Int /\ h[x] = f[x] + g[x]
    PROVE  SumFunctionOnSet(h, S) = SumFunctionOnSet(f, S) + SumFunctionOnSet(g, S)
<1> DEFINE F == {U \in SUBSET S : SumFunctionOnSet(h, U) # SumFunctionOnSet(f, U) + SumFunctionOnSet(g, U)}
<1>1. SUFFICES ASSUME F # {} PROVE FALSE
  OBVIOUS
<1>2. PICK T \in F : \A V \in F : V \subseteq T => V = T
  <2>1. F \subseteq SUBSET S
    OBVIOUS
  <2> HIDE DEF F
  <2> QED
    BY <1>1, <2>1, Smallest
<1>3. IsFiniteSet(T) /\ T \subseteq S
  BY <1>2, FS_Subset
<1>4. T # {}
  <2>1. SumFunctionOnSet(f, {}) = 0 /\ SumFunctionOnSet(g, {}) = 0 /\ SumFunctionOnSet(h, {}) = 0
    BY NoSum
  <2>2. ~(0 # 0 + 0)
    OBVIOUS
  <2>3. SumFunctionOnSet(h, T) # SumFunctionOnSet(f, T) + SumFunctionOnSet(g, T)
    BY <1>2
  <2>4. ASSUME T = {} PROVE FALSE
    BY <2>1, <2>2, <2>3, <2>4
  <2> QED
    BY <2>4
<1> DEFINE y == First(T)
<1>5. y \in T
  BY <1>4 DEF First
<1> HIDE DEF y
<1> DEFINE R == T \ {y}
<1>6. /\ SumFunctionOnSet(f, T) = f[y] + SumFunctionOnSet(f, R)
      /\ SumFunctionOnSet(g, T) = g[y] + SumFunctionOnSet(g, R)
      /\ SumFunctionOnSet(h, T) = h[y] + SumFunctionOnSet(h, R)
  BY <1>3, <1>4, SumStep DEF y
<1>7. R \in SUBSET S /\ R # T /\ R \subseteq T /\ IsFiniteSet(R)
  BY <1>3, <1>5, FS_RemoveElement
<1>8. SumFunctionOnSet(h, R) = SumFunctionOnSet(f, R) + SumFunctionOnSet(g, R)
  BY <1>2, <1>7
<1>9. SumFunctionOnSet(f, R) \in Int /\ SumFunctionOnSet(g, R) \in Int
  BY <1>7, SumInt
<1>10. f[y] \in Int /\ g[y] \in Int /\ h[y] = f[y] + g[y]
  BY <1>3, <1>5
<1>11. SumFunctionOnSet(h, T) = SumFunctionOnSet(f, T) + SumFunctionOnSet(g, T)
  BY <1>6, <1>8, <1>9, <1>10
<1> QED
  BY <1>2, <1>11

LEMMA SumEach ==
    ASSUME NEW S, IsFiniteSet(S), NEW f, NEW n \in Int, NEW T, T \subseteq S,
           \A x \in S : f[x] = IF x \in T THEN n ELSE 0
    PROVE  SumFunctionOnSet(f, S) = n * Cardinality(T)
<1> DEFINE Right(U) == SumFunctionOnSet(f, U) = n * Cardinality(U \cap T)
           F == {U \in SUBSET S : ~Right(U)}
<1>1. SUFFICES ASSUME F # {} PROVE FALSE
  <2>1. S \cap T = T
    OBVIOUS
  <2> QED
    BY <1>1, <2>1
<1>2. PICK U \in F : \A V \in F : V \subseteq U => V = U
  <2>1. F \subseteq SUBSET S
    OBVIOUS
  <2> HIDE DEF F
  <2> QED
    BY <1>1, <2>1, Smallest
<1>3. IsFiniteSet(U) /\ U \subseteq S /\ IsFiniteSet(U \cap T)
  BY <1>2, FS_Subset, U \cap T \subseteq U
<1>4. U # {}
  <2>1. SUFFICES ASSUME U = {} PROVE FALSE
    OBVIOUS
  <2>2. Cardinality(U \cap T) = 0 /\ SumFunctionOnSet(f, U) = 0
    BY <1>3, <2>1, SumStep, FS_EmptySet, U \cap T = {}
  <2> QED
    BY <1>2, <2>2
<1> DEFINE y == First(U)
<1>5. y \in U
  BY <1>4 DEF First
<1> HIDE DEF y
<1> DEFINE R == U \ {y}
<1>6. SumFunctionOnSet(f, U) = f[y] + SumFunctionOnSet(f, R)
  BY <1>3, <1>4, SumStep DEF y
<1>7. R \in SUBSET S /\ R # U /\ R \subseteq U /\ R \cap T = (U \cap T) \ {y}
  BY <1>3, <1>5
<1>8. Right(R)
  BY <1>2, <1>7
<1>9. Cardinality(R \cap T) = Cardinality(U \cap T) - (IF y \in T THEN 1 ELSE 0)
  <2>1. y \in U \cap T <=> y \in T
    BY <1>5
  <2>2. Cardinality(U \cap T) \in Int
    BY <1>3, FS_CardinalityType
  <2> QED
    <3>1. Cardinality((U \cap T) \ {y}) = IF y \in U \cap T THEN Cardinality(U \cap T) - 1 ELSE Cardinality(U \cap T)
      BY <1>3, FS_RemoveElement
    <3>2. Cardinality(R \cap T) = IF y \in T THEN Cardinality(U \cap T) - 1 ELSE Cardinality(U \cap T)
      BY <1>7, <2>1, <3>1
    <3> HIDE DEF R
    <3> QED
      BY <2>2, <3>2
<1>10. Cardinality(U \cap T) \in Int
  BY <1>3, FS_CardinalityType
<1>11. SumFunctionOnSet(f, U) = n * Cardinality(U \cap T)
  <2> DEFINE k == Cardinality(U \cap T)
  <2> HIDE DEF k
  <2>1. k \in Int /\ Cardinality(R \cap T) = k - (IF y \in T THEN 1 ELSE 0)
    BY <1>9, <1>10 DEF k
  <2>2. SumFunctionOnSet(f, U) = f[y] + n * (k - (IF y \in T THEN 1 ELSE 0))
    BY <1>6, <1>8, <2>1
  <2>3. f[y] = IF y \in T THEN n ELSE 0
    BY <1>3, <1>5
  <2>4. n * (k - 1) = n * k - n /\ n * (k - 0) = n * k /\ n * k \in Int
    BY <2>1
  <2>5. SumFunctionOnSet(f, U) = n * k
    BY <2>1, <2>2, <2>3, <2>4
  <2> QED
    BY <2>5 DEF k
<1> QED
  BY <1>2, <1>11

LEMMA SumWithin ==
    ASSUME NEW S, IsFiniteSet(S), NEW f, NEW T, T \subseteq S,
           \A x \in S : f[x] \in Int, \A x \in S \ T : f[x] = 0
    PROVE  SumFunctionOnSet(f, S) = SumFunctionOnSet(f, T)
<1> DEFINE F == {U \in SUBSET S : T \subseteq U /\ SumFunctionOnSet(f, U) # SumFunctionOnSet(f, T)}
<1>1. SUFFICES ASSUME F # {} PROVE FALSE
  BY <1>1
<1>2. PICK U \in F : \A V \in F : V \subseteq U => V = U
  <2>1. F \subseteq SUBSET S
    OBVIOUS
  <2> HIDE DEF F
  <2> QED
    BY <1>1, <2>1, Smallest
<1>3. PICK y \in U : y \notin T
  BY <1>2
<1>4. IsFiniteSet(U) /\ IsFiniteSet(U \ {y}) /\ U \ {y} \in SUBSET S /\ T \subseteq U \ {y}
  BY <1>2, <1>3, FS_Subset, FS_RemoveElement
<1>5. SumFunctionOnSet(f, U) = f[y] + SumFunctionOnSet(f, U \ {y}) /\ f[y] = 0
  BY <1>2, <1>3, <1>4, SumPick
<1>6. SumFunctionOnSet(f, U \ {y}) \in Int
  BY <1>4, SumInt
<1>7. U \ {y} \notin F
  BY <1>2, <1>3, <1>4
<1> QED
  BY <1>2, <1>4, <1>5, <1>6, <1>7

LEMMA SumAtMost ==
    ASSUME NEW S, IsFiniteSet(S), NEW f, NEW g,
           \A x \in S : f[x] \in Int /\ g[x] \in Int /\ f[x] <= g[x]
    PROVE  SumFunctionOnSet(f, S) <= SumFunctionOnSet(g, S)
<1> DEFINE F == {U \in SUBSET S : ~(SumFunctionOnSet(f, U) <= SumFunctionOnSet(g, U))}
<1>1. SUFFICES ASSUME F # {} PROVE FALSE
  OBVIOUS
<1>2. PICK T \in F : \A V \in F : V \subseteq T => V = T
  <2>1. F \subseteq SUBSET S
    OBVIOUS
  <2> HIDE DEF F
  <2> QED
    BY <1>1, <2>1, Smallest
<1>3. IsFiniteSet(T) /\ T \subseteq S
  BY <1>2, FS_Subset
<1>4. T # {}
  <2>1. SumFunctionOnSet(f, {}) = 0 /\ SumFunctionOnSet(g, {}) = 0
    BY NoSum
  <2>2. 0 <= 0
    OBVIOUS
  <2>3. ~(SumFunctionOnSet(f, T) <= SumFunctionOnSet(g, T))
    BY <1>2
  <2>4. ASSUME T = {} PROVE FALSE
    BY <2>1, <2>2, <2>3, <2>4
  <2> QED
    BY <2>4
<1> DEFINE y == First(T)
<1>5. y \in T
  BY <1>4 DEF First
<1> HIDE DEF y
<1> DEFINE R == T \ {y}
<1>6. /\ SumFunctionOnSet(f, T) = f[y] + SumFunctionOnSet(f, R)
      /\ SumFunctionOnSet(g, T) = g[y] + SumFunctionOnSet(g, R)
  BY <1>3, <1>4, SumStep DEF y
<1>7. R \in SUBSET S /\ R # T /\ R \subseteq T /\ IsFiniteSet(R)
  BY <1>3, <1>5, FS_RemoveElement
<1>8. SumFunctionOnSet(f, R) <= SumFunctionOnSet(g, R)
  BY <1>2, <1>7
<1>9. SumFunctionOnSet(f, R) \in Int /\ SumFunctionOnSet(g, R) \in Int
  BY <1>7, SumInt
<1>10. f[y] \in Int /\ g[y] \in Int /\ f[y] <= g[y]
  BY <1>3, <1>5
<1>11. SumFunctionOnSet(f, T) <= SumFunctionOnSet(g, T)
  BY <1>6, <1>8, <1>9, <1>10
<1> QED
  BY <1>2, <1>11

-----------------------------------------------------------------------------

States == {"none", "lobby"} \cup Ends

(* The invariant: the tables' columns are functions of the table, and      *)
(* OneOpenTableEach, which is inductive with that.                         *)
Columns ==
    /\ state \in [Tables -> States]
    /\ players = [t \in Tables |-> players[t]]
    /\ mode = [t \in Tables |-> mode[t]]
    /\ timer = [t \in Tables |-> timer[t]]
    /\ book.fund = [t \in Tables |-> book.fund[t]]

NoRowsYet == \A t \in Tables : state[t] = "none" => players[t] = {}

BInv == Columns /\ NoRowsYet /\ OneOpenTableEach

(* What a handler does to the tables' columns and the pots: it touches one *)
(* table that is open, or one that does not exist yet.                     *)
Touches(t) ==
    /\ \A s \in Tables \ {t} :
          /\ state'[s] = state[s] /\ players'[s] = players[s]
          /\ mode'[s] = mode[s] /\ book'.fund[s] = book.fund[s]
    /\ state[t] \notin Ends

LEMMA InitBInv == Init => BInv
<1> SUFFICES ASSUME Init PROVE BInv
  OBVIOUS
<1>1. /\ state = [t \in Tables |-> "none"] /\ players = [t \in Tables |-> {}]
      /\ mode = [t \in Tables |-> ""] /\ timer = [t \in Tables |-> 0]
  BY DEF Init
<1>2. book.fund = [t \in Tables |-> 0]
  BY DEF Init, Opened
<1>3. Columns
  BY <1>1, <1>2 DEF Columns, States
<1>4. NoRowsYet /\ OneOpenTableEach
  BY <1>1 DEF NoRowsYet, OneOpenTableEach
<1>5. QED
  BY <1>3, <1>4 DEF BInv

LEMMA CreateStep ==
    ASSUME BInv, NEW t \in Tables, NEW tg, NEW u, NEW place, Create(t, tg, u, place)
    PROVE  Columns' /\ Touches(t) /\ state'[t] # "none"
BY DEF BInv, Columns, Create, Touches, States, Ends

LEMMA JoinStep ==
    ASSUME BInv, NEW t \in Tables, NEW tg, NEW u, NEW side, Join(t, tg, u, side)
    PROVE  Columns' /\ Touches(t) /\ state'[t] # "none"
<1> DEFINE amt    == Only(u, stake[t])
           frozen == Reserve(book, t, amt)
           staked == Consume(frozen, t, amt)
           seated == players[t] \cup {[user |-> u, tg |-> tg, choice |-> side, award |-> 0]}
<1>1. Columns /\ state[t] = "lobby"
  BY DEF BInv, Join, Open
<1>2. /\ frozen.fund = book.fund
      /\ staked.fund = [s \in Tables |-> staked.fund[s]]
      /\ \A s \in Tables \ {t} : staked.fund[s] = book.fund[s]
  <2>1. frozen.fund = book.fund
    BY DEF Reserve
  <2>2. staked.fund = [frozen.fund EXCEPT ![t] = @ + Sum(amt)]
    BY DEF Consume
  <2> HIDE DEF frozen, staked
  <2>3. QED
    BY <1>1, <2>1, <2>2 DEF Columns
<1>3. CASE ~Fills(seated)
  <2>1. /\ book' = staked /\ players' = [players EXCEPT ![t] = seated]
        /\ UNCHANGED <<state, mode, timer>>
    BY <1>3 DEF Join
  <2> HIDE DEF staked, seated
  <2>2. QED
    BY <1>1, <1>2, <2>1 DEF Columns, Touches, Ends
<1>4. CASE Fills(seated)
  <2>1. PICK awards :
           /\ book' = Pay(staked, t, awards)
           /\ players' = [players EXCEPT ![t] = Awarded(seated, awards)]
    BY <1>4 DEF Join
  <2>2. /\ state' = [state EXCEPT ![t] = "settled"] /\ timer' = timer
        /\ \E m : mode' = [mode EXCEPT ![t] = m]
    BY <1>4 DEF Join
  <2> HIDE DEF staked, seated
  <2>3. /\ book'.fund = [s \in Tables |-> book'.fund[s]]
        /\ \A s \in Tables \ {t} : book'.fund[s] = book.fund[s]
    <3>1. book'.fund = [staked.fund EXCEPT ![t] = @ - Sum(awards)]
      BY <2>1 DEF Pay
    <3>2. QED
      BY <1>2, <3>1
  <2>4. QED
    BY <1>1, <2>1, <2>2, <2>3 DEF Columns, Touches, States, Ends
<1>5. QED
  BY <1>3, <1>4

LEMMA ExpireStep ==
    ASSUME BInv, NEW t \in Tables, Expire(t)
    PROVE  Columns' /\ Touches(t) /\ state'[t] \in Ends
<1>1. Columns /\ state[t] = "lobby"
  BY DEF BInv, Expire, Due
<1>2. /\ book' = Pay(book, t, Each(Refunded(t), stake[t]))
      /\ \E ps : players' = [players EXCEPT ![t] = ps]
      /\ \E m : mode' = [mode EXCEPT ![t] = m]
      /\ state' = [state EXCEPT ![t] = IF timer[t] = 0 THEN "expired" ELSE "cancelled"]
      /\ timer' = timer
  BY DEF Expire
<1>3. /\ book'.fund = [s \in Tables |-> book'.fund[s]]
      /\ \A s \in Tables \ {t} : book'.fund[s] = book.fund[s]
  <2> DEFINE refunds == Each(Refunded(t), stake[t])
  <2>1. book'.fund = [book.fund EXCEPT ![t] = @ - Sum(refunds)]
    BY <1>2 DEF Pay
  <2> HIDE DEF refunds
  <2>2. QED
    BY <1>1, <2>1 DEF Columns
<1>4. QED
  BY <1>1, <1>2, <1>3 DEF Columns, Touches, States, Ends

(* Time and the world outside leave the tables' results and pots alone.    *)
LEMMA OutsideStep ==
    ASSUME BInv, Tick \/ Environment \/ UNCHANGED vars
    PROVE  Columns' /\ UNCHANGED <<state, players, mode, book.fund>>
<1>1. CASE Tick
  BY <1>1 DEF Tick, BInv, Columns
<1>2. CASE Environment
  BY <1>2 DEF Environment, Rebind, Suspend, Switch, OtherPoints, Earn, tables, BInv, Columns
<1>3. CASE UNCHANGED vars
  BY <1>3 DEF vars, world, tables, BInv, Columns
<1>4. QED
  BY <1>1, <1>2, <1>3

(* Seating a member nobody of either identity sits as keeps the tables     *)
(* apart; a table that closes, or opens empty, cannot mix them up.         *)
LEMMA Apart ==
    ASSUME BInv, [Next]_vars
    PROVE  OneOpenTableEach'
<1>1. ASSUME NEW t \in Tables, NEW tg \in Tgs, NEW u \in Users,
             NEW place \in Topics, Create(t, tg, u, place)
      PROVE  OneOpenTableEach'
  <2>1. players' = players /\ players[t] = {}
    BY <1>1 DEF Create, BInv, NoRowsYet
  <2>2. Touches(t)
    BY <1>1, CreateStep
  <2>3. QED
    BY <2>1, <2>2 DEF BInv, OneOpenTableEach, Touches
<1>2. ASSUME NEW t \in Tables, NEW tg \in Tgs, NEW u \in Users, NEW side \in Sides,
             Join(t, tg, u, side)
      PROVE  OneOpenTableEach'
  <2> DEFINE new == [user |-> u, tg |-> tg, choice |-> side, award |-> 0]
  <2>1. Touches(t)
    BY <1>2, JoinStep
  <2>2. /\ state[t] = "lobby" /\ ~Occupied(u, tg)
        /\ state'[t] = "lobby" => players'[t] = players[t] \cup {new}
    BY <1>2 DEF Join, Open, BInv, Columns
  <2>3. \A s \in Tables : \A p \in players[s] :
           state[s] = "lobby" => p.user # u /\ p.tg # tg
    BY <2>2 DEF Occupied
  <2>4. new.user = u /\ new.tg = tg
    OBVIOUS
  <2> HIDE DEF new
  <2>5. SUFFICES ASSUME NEW r \in Tables, NEW s \in Tables, NEW p \in players'[r], NEW q \in players'[s],
                        state'[r] = "lobby", state'[s] = "lobby", p.user = q.user \/ p.tg = q.tg
                 PROVE  r = s /\ p = q
    BY DEF OneOpenTableEach
  <2>6. /\ state[r] = "lobby" /\ (p \in players[r] \/ (r = t /\ p = new))
        /\ state[s] = "lobby" /\ (q \in players[s] \/ (s = t /\ q = new))
    BY <2>1, <2>2, <2>5 DEF Touches
  <2>7. CASE p \in players[r] /\ q \in players[s]
    BY <2>5, <2>6, <2>7 DEF BInv, OneOpenTableEach
  <2>8. CASE p = new /\ r = t
    BY <2>3, <2>4, <2>5, <2>6, <2>8
  <2>9. CASE q = new /\ s = t
    BY <2>3, <2>4, <2>5, <2>6, <2>9
  <2>10. QED
    BY <2>6, <2>7, <2>8, <2>9
<1>3. ASSUME NEW t \in Tables, Expire(t)
      PROVE  OneOpenTableEach'
  <2>1. Touches(t) /\ state'[t] # "lobby"
    BY <1>3, ExpireStep DEF Ends
  <2>2. QED
    BY <2>1 DEF Touches, BInv, OneOpenTableEach
<1>4. CASE Tick \/ Environment \/ UNCHANGED vars
  BY <1>4, OutsideStep DEF BInv, OneOpenTableEach
<1>5. QED
  BY <1>1, <1>2, <1>3, <1>4 DEF Next

LEMMA NextBInv ==
    ASSUME BInv, [Next]_vars
    PROVE  BInv'
<1>1. ASSUME NEW t \in Tables, Touches(t), state'[t] # "none"
      PROVE  NoRowsYet'
  BY <1>1 DEF Touches, BInv, NoRowsYet
<1>2. ASSUME NEW t \in Tables, NEW tg \in Tgs, NEW u \in Users,
             (\E place \in Topics : Create(t, tg, u, place)) \/ \E side \in Sides : Join(t, tg, u, side)
      PROVE  Columns' /\ NoRowsYet'
  <2>1. Columns' /\ Touches(t) /\ state'[t] # "none"
    BY <1>2, CreateStep, JoinStep
  <2>2. QED
    BY <1>1, <2>1
<1>3. ASSUME NEW t \in Tables, Expire(t)
      PROVE  Columns' /\ NoRowsYet'
  <2>1. Columns' /\ Touches(t) /\ state'[t] \in Ends
    BY <1>3, ExpireStep
  <2>2. state'[t] # "none"
    BY <2>1 DEF Ends
  <2>3. QED
    BY <1>1, <2>1, <2>2
<1>4. Columns' /\ NoRowsYet'
  <2>1. CASE Tick \/ Environment \/ UNCHANGED vars
    <3>1. Columns' /\ UNCHANGED <<state, players>>
      BY <2>1, OutsideStep
    <3>2. QED
      BY <3>1 DEF BInv, NoRowsYet
  <2>2. CASE \E t \in Tables, tg \in Tgs, u \in Users :
                (\E place \in Topics : Create(t, tg, u, place)) \/ \E side \in Sides : Join(t, tg, u, side)
    BY <1>2, <2>2
  <2>3. CASE \E t \in Tables : Expire(t)
    BY <1>3, <2>3
  <2>4. QED
    BY <2>1, <2>2, <2>3 DEF Next
<1>5. QED
  BY <1>4, Apart DEF BInv

(* A step never alters a table that has ended: its handlers refuse it.     *)
LEMMA EndedIsLeftAlone ==
    ASSUME BInv, [Next]_vars, NEW t \in Tables, state[t] \in Ends
    PROVE  UNCHANGED <<state[t], players[t], mode[t], book.fund[t]>>
<1>1. ASSUME NEW s \in Tables, Touches(s)
      PROVE  UNCHANGED <<state[t], players[t], mode[t], book.fund[t]>>
  <2>1. t \in Tables \ {s}
    BY <1>1 DEF Touches
  <2>2. QED
    BY <1>1, <2>1 DEF Touches
<1>2. CASE \E s \in Tables, tg \in Tgs, u \in Users :
              (\E place \in Topics : Create(s, tg, u, place)) \/ \E side \in Sides : Join(s, tg, u, side)
  BY <1>1, <1>2, CreateStep, JoinStep
<1>3. CASE \E s \in Tables : Expire(s)
  BY <1>1, <1>3, ExpireStep
<1>4. CASE Tick \/ Environment \/ UNCHANGED vars
  BY <1>4, OutsideStep
<1>5. QED
  BY <1>2, <1>3, <1>4 DEF Next

(* The invariant holds in every reachable state.                           *)
THEOREM BlackwhiteInvariant == Spec => []BInv
<1>1. BInv /\ [Next]_vars => BInv'
  BY NextBInv
<1>2. QED
  BY <1>1, InitBInv, PTL DEF Spec

(* Nobody sits at two open tables of black and white under either of the   *)
(* two identities, although links change (join, blackwhite.py:80).         *)
THEOREM BlackwhiteOneTableEach == Spec => []OneOpenTableEach
BY BlackwhiteInvariant, PTL DEF BInv

(* No later click, tick or change outside alters a table that has settled  *)
(* (_settle, blackwhite.py:101).                                           *)
THEOREM BlackwhiteResultIsFinal == Spec => ResultIsFinal
<1>1. BInv /\ [Next]_vars =>
         [\A t \in Tables : state[t] \in Ends =>
             UNCHANGED <<state[t], players[t], mode[t], book.fund[t]>>]_vars
  BY EndedIsLeftAlone
<1>2. QED
  BY <1>1, BlackwhiteInvariant, PTL DEF Spec, ResultIsFinal

-----------------------------------------------------------------------------
(* Who wins.  Nobody is seated twice, so a full table has as many members   *)
(* as seats and each of them is on one side; the seats are odd in number,   *)
(* so one side is the smaller, and the pot holds a point for each winner.   *)

\* What a row says that the result depends on.
Rows == \A t \in Tables : /\ \A p \in players[t] : p.user \in Users /\ p.choice \in Sides
                          /\ state[t] \notin Ends => IsFiniteSet(players[t]) /\ mode[t] = ""

Staked == stake \in [Tables -> Nat \ {0}]

ResultInv == Rows /\ Staked /\ MinorityWins

(* The split of a pot with a point for everybody: winners and nobody else   *)
(* get something, and their shares differ by one point at most.             *)
LEMMA SplitIsFair ==
    ASSUME NEW total \in Nat, NEW winners \in SUBSET Users, IsFiniteSet(winners), winners # {},
           Cardinality(winners) <= total, NEW f \in FairSplits(total, winners)
    PROVE  /\ \A u \in Users : f[u] > 0 <=> u \in winners
           /\ \A u, v \in winners : f[u] - f[v] \in {-1, 0, 1}
<1> DEFINE n == Cardinality(winners)
           share == total \div n
<1>1. n \in Nat \ {0}
  BY FS_CardinalityType, FS_EmptySet
<1>2. PICK lucky \in SUBSET winners :
        f = [u \in Users |-> IF u \in winners THEN share + (IF u \in lucky THEN 1 ELSE 0) ELSE 0]
  BY DEF FairSplits
<1>3. share \in Nat /\ share > 0
  BY <1>1
<1> HIDE DEF share
<1>4. QED
  BY <1>2, <1>3

LEMMA WholeShare == ASSUME NEW a \in Nat, NEW b \in Nat \ {0} PROVE (a * b) \div b = a
OBVIOUS

(* Mapping each row to its member loses nothing when nobody is seated twice. *)
LEMMA AsManyMembers ==
    ASSUME NEW S, IsFiniteSet(S), \A p, q \in S : p.user = q.user => p = q
    PROVE  IsFiniteSet({p.user : p \in S}) /\ Cardinality({p.user : p \in S}) = Cardinality(S)
<1> DEFINE T == {p.user : p \in S}
           f == [p \in S |-> p.user]
<1>1. f \in [S -> T] /\ (\A t \in T : \E p \in S : f[p] = t) /\ \A p, q \in S : f[p] = f[q] => p = q
  OBVIOUS
<1>2. f \in Surjection(S, T) /\ f \in Injection(S, T)
  BY <1>1 DEF Surjection, Injection, IsInjective
<1> HIDE DEF T, f
<1>3. IsFiniteSet(T) /\ Cardinality(T) = Cardinality(S)
  BY <1>2, FS_Surjection
<1>4. QED
  BY <1>3 DEF T

(* The two sides of a full table.                                          *)
SideOf(S, side) == {p.user : p \in {q \in S : q.choice = side}}

LEMMA TwoSides ==
    ASSUME NEW S, IsFiniteSet(S), \A p, q \in S : p.user = q.user => p = q,
           \A p \in S : p.user \in Users /\ p.choice \in Sides, Cardinality(S) = Seats
    PROVE  /\ \A p \in S, side \in Sides : p.user \in SideOf(S, side) <=> p.choice = side
           /\ \A side \in Sides : SideOf(S, side) \in SUBSET Users /\ IsFiniteSet(SideOf(S, side))
           /\ Cardinality(SideOf(S, "black")) \in Nat /\ Cardinality(SideOf(S, "white")) \in Nat
           /\ Cardinality(SideOf(S, "black")) + Cardinality(SideOf(S, "white")) = Seats
<1> DEFINE B == SideOf(S, "black")
           W == SideOf(S, "white")
           all == {p.user : p \in S}
<1>1. \A p \in S, side \in Sides : p.user \in SideOf(S, side) <=> p.choice = side
  BY DEF SideOf
<1>2. IsFiniteSet(all) /\ Cardinality(all) = Seats
  BY AsManyMembers
<1>3. B \cup W = all /\ B \cap W = {}
  BY DEF SideOf, Sides
<1>4. \A side \in Sides : SideOf(S, side) \in SUBSET Users /\ SideOf(S, side) \in SUBSET all
  BY DEF SideOf
<1> HIDE DEF all
<1>5. \A side \in Sides : IsFiniteSet(SideOf(S, side)) /\ Cardinality(SideOf(S, side)) \in Nat
  BY <1>2, <1>4, FS_Subset, FS_CardinalityType
<1>6. IsFiniteSet(B) /\ IsFiniteSet(W) /\ Cardinality(B) \in Nat /\ Cardinality(W) \in Nat
  BY <1>5 DEF Sides
<1>7. Cardinality(B) + Cardinality(W) = Seats
  <2>1. Cardinality(B \cup W) = Cardinality(B) + Cardinality(W) - Cardinality(B \cap W)
    BY <1>6, FS_Union
  <2>2. Cardinality(B \cap W) = 0 /\ Cardinality(B \cup W) = Seats
    BY <1>2, <1>3, FS_EmptySet
  <2> HIDE DEF B, W
  <2>3. QED
    BY <1>6, <2>1, <2>2
<1>8. QED
  BY <1>1, <1>4, <1>5, <1>6, <1>7

(* What is written on the rows is the award; the rest stays.               *)
LEMMA AwardedRows ==
    ASSUME NEW S, NEW awards, NEW p \in Awarded(S, awards)
    PROVE  \E q \in S : /\ p.user = q.user /\ p.choice = q.choice /\ p.award = awards[q.user]
BY DEF Awarded

LEMMA SameSides ==
    ASSUME NEW S, NEW awards, NEW side
    PROVE  SideOf(Awarded(S, awards), side) = SideOf(S, side)
<1> DEFINE paid(p) == [user |-> p.user, tg |-> p.tg, choice |-> p.choice, award |-> awards[p.user]]
<1>1. \A p \in S : paid(p) \in Awarded(S, awards) /\ paid(p).user = p.user /\ paid(p).choice = p.choice
  BY DEF Awarded
<1>2. SideOf(S, side) \subseteq SideOf(Awarded(S, awards), side)
  BY <1>1 DEF SideOf
<1>3. \A p \in Awarded(S, awards) : \E q \in S : p.user = q.user /\ p.choice = q.choice
  BY AwardedRows
<1>4. SideOf(Awarded(S, awards), side) \subseteq SideOf(S, side)
  BY <1>3 DEF SideOf
<1>5. QED
  BY <1>2, <1>4

(* Everybody back what he put in: by consent, by the clock or the switch.   *)
LEMMA AllTheSame ==
    ASSUME NEW S, \A p \in S : p.user \in Users, NEW members, NEW amount,
           \A p \in S : p.user \in members,
           NEW p \in Awarded(S, Each(members, amount))
    PROVE  p.award = amount
BY AwardedRows DEF Each

-----------------------------------------------------------------------------
(* The last choice: the table pays the smaller side, or everybody when all  *)
(* agree.                                                                  *)
Decided(t) ==
    \A p, q \in players[t] :
        /\ mode[t] \in {"same", "timeout", "disabled"} => p.award = stake[t]
        /\ mode[t] \in Sides =>
              /\ p.award > 0 <=> p.choice = mode[t]
              /\ 2 * Cardinality(Pick(t, mode[t])) < Seats
              /\ p.choice = q.choice => p.award - q.award \in {-1, 0, 1}

LEMMA FullTable ==
    ASSUME NEW S, IsFiniteSet(S), \A p, q \in S : p.user = q.user => p = q,
           \A p \in S : p.user \in Users /\ p.choice \in Sides, Cardinality(S) = Seats,
           NEW amount \in Nat \ {0},
           NEW winner \in Sides, NEW loser \in Sides,
           SideOf(S, winner) # {},
           2 * Cardinality(SideOf(S, winner)) < Seats,
           NEW awards \in FairSplits(amount * Seats, SideOf(S, winner)),
           NEW p \in Awarded(S, awards), NEW q \in Awarded(S, awards)
    PROVE  /\ p.award > 0 <=> p.choice = winner
           /\ p.choice = q.choice => p.award - q.award \in {-1, 0, 1}
<1> DEFINE W == SideOf(S, winner)
           n == Cardinality(W)
<1>1. /\ \A r \in S : r.user \in W <=> r.choice = winner
      /\ W \in SUBSET Users /\ IsFiniteSet(W) /\ n \in Nat
  BY TwoSides, FS_CardinalityType
<1>2. amount * Seats \in Nat /\ n <= amount * Seats
  <2>1. Seats \in Nat /\ n <= Seats
    BY <1>1, BlackwhiteAssumption
  <2>2. QED
    BY <1>1, <2>1
<1>3. /\ \A u \in Users : awards[u] > 0 <=> u \in W
      /\ \A u, v \in W : awards[u] - awards[v] \in {-1, 0, 1}
      /\ \A u \in Users : u \notin W => awards[u] = 0
  <2>1. \A u \in Users : u \notin W => awards[u] = 0
    BY DEF FairSplits
  <2>2. QED
    BY <1>1, <1>2, <2>1, SplitIsFair
<1>4. PICK a \in S : p.user = a.user /\ p.choice = a.choice /\ p.award = awards[a.user]
  BY AwardedRows
<1>5. PICK b \in S : q.user = b.user /\ q.choice = b.choice /\ q.award = awards[b.user]
  BY AwardedRows
<1> HIDE DEF W
<1>6. p.award > 0 <=> p.choice = winner
  BY <1>1, <1>3, <1>4
<1>7. p.choice = q.choice => p.award - q.award \in {-1, 0, 1}
  <2>1. CASE a.user \in W /\ b.user \in W
    BY <1>3, <1>4, <1>5, <2>1
  <2>2. CASE a.user \notin W /\ b.user \notin W
    BY <1>3, <1>4, <1>5, <2>2
  <2>3. QED
    BY <1>1, <1>4, <1>5, <2>1, <2>2
<1>8. QED
  BY <1>6, <1>7

LEMMA JoinResult ==
    ASSUME BInv, ResultInv, NEW t \in Tables, NEW tg \in Tgs, NEW u \in Users, NEW side \in Sides,
           Join(t, tg, u, side)
    PROVE  Rows' /\ Decided(t)'
<1> DEFINE new == [user |-> u, tg |-> tg, choice |-> side, award |-> 0]
           seated == players[t] \cup {new}
           on(s) == {p.user : p \in {q \in seated : q.choice = s}}
           all == {p.user : p \in seated}
<1>1. /\ state[t] = "lobby" /\ UNCHANGED stake /\ Touches(t) /\ stake[t] \in Nat \ {0}
      /\ t \in DOMAIN players /\ t \in DOMAIN state /\ t \in DOMAIN mode
  BY JoinStep DEF Join, Open, BInv, Columns, ResultInv, Staked
<1>2. IsFiniteSet(seated) /\ \A p \in seated : p.user \in Users /\ p.choice \in Sides
  <2>1. IsFiniteSet(players[t]) /\ \A p \in players[t] : p.user \in Users /\ p.choice \in Sides
    BY <1>1 DEF ResultInv, Rows, Ends
  <2>2. new.user \in Users /\ new.choice \in Sides
    OBVIOUS
  <2> HIDE DEF new
  <2>3. QED
    BY <2>1, <2>2, FS_AddElement
<1>3. \A p, q \in seated : p.user = q.user => p = q
  <2>1. \A p, q \in players[t] : p.user = q.user => p = q
    BY <1>1 DEF BInv, OneOpenTableEach
  <2>2. \A p \in players[t] : p.user # u
    BY <1>1 DEF Join, Occupied
  <2>3. new.user = u
    OBVIOUS
  <2> HIDE DEF new
  <2>4. QED
    BY <2>1, <2>2, <2>3
<1>4. ASSUME NEW s \in Tables \ {t}
      PROVE  /\ \A p \in players'[s] : p.user \in Users /\ p.choice \in Sides
             /\ state'[s] \notin Ends => IsFiniteSet(players'[s]) /\ mode'[s] = ""
  BY <1>1 DEF Touches, ResultInv, Rows
<1>5. CASE ~Fills(seated)
  <2>1. players'[t] = seated /\ state'[t] = "lobby" /\ mode'[t] = ""
    BY <1>1, <1>5 DEF Join, ResultInv, Rows, Ends
  <2> HIDE DEF seated
  <2>2. Rows'
    BY <1>2, <1>4, <2>1 DEF Rows
  <2>3. Decided(t)'
    BY <2>1 DEF Decided, Sides
  <2>4. QED
    BY <2>2, <2>3
<1>6. CASE Fills(seated)
  <2>1. PICK awards \in Awards(all, on("black"), on("white"), stake[t] * Seats) :
          /\ players' = [players EXCEPT ![t] = Awarded(seated, awards)]
          /\ state' = [state EXCEPT ![t] = "settled"]
          /\ mode' = [mode EXCEPT ![t] =
               IF on("black") = {} \/ on("white") = {} THEN "same"
               ELSE IF Cardinality(on("black")) < Cardinality(on("white"))
                    THEN "black" ELSE "white"]
    BY <1>6 DEF Join
  <2>2. /\ on("black") = SideOf(seated, "black") /\ on("white") = SideOf(seated, "white")
        /\ Cardinality(seated) = Seats
    BY <1>6 DEF SideOf, Fills
  <2>3. \A p \in seated : p.user \in all
    OBVIOUS
  <2>4. Cardinality(all) = Seats
    BY <1>2, <1>3, <2>2, AsManyMembers
  <2> HIDE DEF seated, on, all
  <2> DEFINE B == SideOf(seated, "black")
             W == SideOf(seated, "white")
  <2>5. /\ players'[t] = Awarded(seated, awards) /\ state'[t] = "settled"
        /\ mode'[t] = IF B = {} \/ W = {} THEN "same"
                      ELSE IF Cardinality(B) < Cardinality(W) THEN "black" ELSE "white"
    BY <1>1, <2>1, <2>2
  <2>6. Rows'
    <3>1. \A p \in players'[t] : p.user \in Users /\ p.choice \in Sides
      BY <1>2, <2>5, AwardedRows
    <3>2. QED
      BY <1>4, <2>5, <3>1 DEF Rows, Ends
  <2>7. /\ \A s : Pick(t, s)' = SideOf(seated, s)
    <3>1. \A s : Pick(t, s)' = SideOf(players'[t], s)
      BY DEF Pick, SideOf
    <3>2. QED
      BY <2>5, <3>1, SameSides
  <2>8. /\ Cardinality(B) \in Nat /\ Cardinality(W) \in Nat /\ Cardinality(B) + Cardinality(W) = Seats
    BY <1>2, <1>3, <2>2, TwoSides
  <2>9. CASE B = {} \/ W = {}
    <3>1. mode'[t] = "same" /\ awards = Each(all, stake[t])
      <4>1. (stake[t] * Seats) \div Seats = stake[t]
        <5>1. Seats \in Nat \ {0}
          BY BlackwhiteAssumption
        <5>2. QED
          BY <1>1, <5>1, WholeShare
      <4>2. QED
        BY <2>1, <2>2, <2>4, <2>5, <2>9, <4>1 DEF Awards
    <3>2. \A p \in players'[t] : p.award = stake[t]
      BY <1>2, <2>3, <2>5, <3>1, AllTheSame
    <3>3. QED
      BY <1>1, <2>6, <3>1, <3>2 DEF Decided, Sides
  <2>10. CASE B # {} /\ W # {}
    <3> DEFINE m == IF Cardinality(B) < Cardinality(W) THEN "black" ELSE "white"
               l == IF Cardinality(B) < Cardinality(W) THEN "white" ELSE "black"
    <3>1. /\ mode'[t] = m /\ m \in Sides /\ l \in Sides /\ SideOf(seated, m) # {}
          /\ awards \in FairSplits(stake[t] * Seats, SideOf(seated, m))
      BY <2>1, <2>2, <2>5, <2>10 DEF Awards, Sides
    <3>2. 2 * Cardinality(SideOf(seated, m)) < Seats
      BY <2>8, BlackwhiteAssumption
    <3> HIDE DEF m, l
    <3>3. \A p, q \in players'[t] : /\ p.award > 0 <=> p.choice = m
                                    /\ p.choice = q.choice => p.award - q.award \in {-1, 0, 1}
      BY <1>1, <1>2, <1>3, <2>2, <2>5, <3>1, <3>2, FullTable
    <3>4. m \notin {"same", "timeout", "disabled"}
      BY <3>1 DEF Sides
    <3>5. QED
      BY <2>6, <2>7, <3>1, <3>2, <3>3, <3>4 DEF Decided
  <2>11. QED
    BY <2>9, <2>10
<1>7. QED
  BY <1>5, <1>6

LEMMA ExpireResult ==
    ASSUME BInv, ResultInv, NEW t \in Tables, Expire(t)
    PROVE  Rows' /\ Decided(t)'
<1>1. /\ Touches(t) /\ state'[t] \in Ends /\ UNCHANGED stake
      /\ players'[t] = Awarded(players[t], Each(Refunded(t), stake[t]))
      /\ mode'[t] \in {"timeout", "disabled"}
  BY ExpireStep DEF Expire, BInv, Columns
<1>2. \A p \in players[t] : p.user \in Users /\ p.choice \in Sides /\ p.user \in Refunded(t)
  BY DEF ResultInv, Rows, Refunded
<1>3. \A p \in players'[t] : p.user \in Users /\ p.choice \in Sides
  BY <1>1, <1>2, AwardedRows
<1>4. \A p \in players'[t] : p.award = stake[t]
  BY <1>1, <1>2, AllTheSame
<1>5. Rows'
  BY <1>1, <1>3 DEF Touches, ResultInv, Rows
<1>6. Decided(t)'
  BY <1>1, <1>4 DEF Decided, Sides
<1>7. QED
  BY <1>5, <1>6

(* A table a step does not touch keeps its result.                         *)
LEMMA ResultKept ==
    ASSUME ResultInv, NEW t \in Tables, UNCHANGED <<players[t], mode[t], stake[t]>>
    PROVE  Decided(t)'
BY DEF ResultInv, MinorityWins, Decided, Pick

LEMMA ResultStep == BInv /\ ResultInv /\ [Next]_vars => ResultInv'
<1> SUFFICES ASSUME BInv, ResultInv, [Next]_vars PROVE ResultInv'
  OBVIOUS
<1>1. UNCHANGED stake
  <2>1. ASSUME NEW t, NEW tg, NEW u, NEW x, Create(t, tg, u, x) \/ Join(t, tg, u, x) PROVE UNCHANGED stake
    BY <2>1 DEF Create, Join
  <2>2. CASE (\E t \in Tables : Expire(t)) \/ Tick \/ Environment
    BY <2>2 DEF Expire, Tick, Environment, Rebind, Suspend, Switch, OtherPoints, tables
  <2>3. CASE UNCHANGED vars
    BY <2>3 DEF vars, tables
  <2>4. QED
    BY <2>1, <2>2, <2>3 DEF Next
<1>2. Staked'
  BY <1>1 DEF ResultInv, Staked
<1>3. ASSUME NEW t \in Tables, Touches(t), Decided(t)' PROVE MinorityWins'
  <2>1. ASSUME NEW s \in Tables \ {t} PROVE Decided(s)'
    BY <1>1, <1>3, ResultKept DEF Touches
  <2>2. \A s \in Tables : Decided(s)'
    BY <1>3, <2>1
  <2>3. QED
    BY <2>2 DEF MinorityWins, Decided
<1>4. ASSUME NEW t \in Tables, NEW tg, NEW u, NEW place, Create(t, tg, u, place) PROVE Rows' /\ MinorityWins'
  <2>1. /\ UNCHANGED <<players, mode>> /\ \A s \in Tables : state'[s] \notin Ends => state[s] \notin Ends
    BY <1>4 DEF Create, Ends, BInv, Columns
  <2>2. QED
    <3>1. Rows'
      BY <1>1, <2>1 DEF ResultInv, Rows
    <3>2. MinorityWins'
      BY <1>1, <2>1 DEF ResultInv, MinorityWins, Pick
    <3>3. QED
      BY <3>1, <3>2
<1>5. ASSUME NEW t \in Tables, NEW tg \in Tgs, NEW u \in Users, NEW side \in Sides, Join(t, tg, u, side)
      PROVE  Rows' /\ MinorityWins'
  BY <1>3, <1>5, JoinStep, JoinResult
<1>6. ASSUME NEW t \in Tables, Expire(t) PROVE Rows' /\ MinorityWins'
  BY <1>3, <1>6, ExpireStep, ExpireResult
<1>7. CASE Tick \/ Environment \/ UNCHANGED vars
  <2>1. UNCHANGED <<state, players, mode>>
    BY <1>7, OutsideStep
  <2>2. QED
    BY <1>1, <1>2, <2>1 DEF ResultInv, Rows, MinorityWins, Pick
<1>8. QED
  BY <1>2, <1>4, <1>5, <1>6, <1>7 DEF Next, ResultInv

(* A full table pays the smaller side and nobody else, equally but for one  *)
(* point; when all agree, when time runs out or the game is switched off,   *)
(* everybody has his stake back (_settle, expire and fair_split): for any   *)
(* odd number of seats, any stakes and however many members and tables.     *)
THEOREM BlackwhiteMinorityWins == Spec => []MinorityWins
<1>1. Init => ResultInv
  <2> SUFFICES ASSUME Init PROVE ResultInv
    OBVIOUS
  <2>1. /\ players = [t \in Tables |-> {}] /\ mode = [t \in Tables |-> ""] /\ stake \in [Tables -> Stakes]
    BY DEF Init
  <2>2. Staked
    BY <2>1, BlackwhiteAssumption DEF Staked
  <2>3. Rows /\ MinorityWins
    BY <2>1, FS_EmptySet DEF Rows, MinorityWins
  <2>4. QED
    BY <2>2, <2>3 DEF ResultInv
<1>2. ResultInv => MinorityWins
  BY DEF ResultInv
<1>3. QED
  BY <1>1, <1>2, ResultStep, BlackwhiteInvariant, PTL DEF Spec

(*-------------------------------------------------------------------------*)
(* The dice round.                                                         *)

(* Every account can be bound to a member of its own.                      *)
DiceConstants ==
    /\ Dice!DiceAssumption
    /\ \E l \in [Phones -> Company] : Dice!IsInjective(l)

(* The row has its columns, and only members are bound.                    *)
DiceRow ==
    /\ clock \in Nat
    /\ link \in [Phones -> Company \cup {Null}]
    /\ account \in [Company -> {"here", "leaving", "gone", "removed"}]
    /\ tickets = [m \in Messages |-> tickets[m]]
    /\ round = [state |-> round.state, user |-> round.user, tg |-> round.tg, capital |-> round.capital,
                deadline |-> round.deadline, closed |-> round.closed, number |-> round.number,
                timeout |-> round.timeout, dice |-> round.dice, error |-> round.error]
    /\ round.state \in {"none", "opening", "open", "locked", "fixed"} \cup Dice!Terminal

(* Who has points on the table is a member; nobody has before the round.   *)
TicketsOf ==
    /\ round.state # "none" => round.user \in Company
    /\ \A m \in Dice!Accepted : tickets[m].user \in Company
    /\ round.state = "none" => Dice!Accepted = {}

(* Every bet was accepted before now, and before the betting closed; the   *)
(* beacon round was chosen at that moment.                                 *)
Times ==
    /\ \A m \in Dice!Accepted : tickets[m].at \in Nat /\ tickets[m].at <= clock
    /\ round.state \in {"none", "opening", "open"} => round.number = 0
    /\ round.number # 0 =>
          /\ round.closed \in Nat /\ round.number = Dice!FutureRound(round.closed)
          /\ \A m \in Dice!Accepted : tickets[m].at <= round.closed

DiceInv == DiceRow /\ TicketsOf /\ Times /\ Dice!StakersStay

LEMMA DiceInit == ASSUME DiceConstants, Dice!Init PROVE DiceInv
<1>1. clock \in Nat /\ link \in [Phones -> Company \cup {Null}]
  BY DEF DiceConstants, Dice!Init, Dice!DiceAssumption
<1>2. account \in [Company -> {"here", "leaving", "gone", "removed"}]
  BY DEF Dice!Init
<1>3. /\ tickets = [m \in Messages |-> Null] /\ Dice!Accepted = {}
  BY DEF Dice!Init, Dice!Accepted
<1>4. round = Dice!NoRound
  BY DEF Dice!Init
<1>5. DiceRow /\ TicketsOf /\ Times /\ Dice!StakersStay
  BY <1>1, <1>2, <1>3, <1>4 DEF DiceRow, TicketsOf, Times, Dice!StakersStay, Dice!Live, Dice!NoRound, Dice!Terminal
<1>6. QED
  BY <1>5 DEF DiceInv

(* The beacon round of a moment comes more than the margin after it.       *)
LEMMA Unpublished ==
    ASSUME DiceConstants, NEW c \in Nat
    PROVE  Dice!FutureRound(c) \in Nat /\ c + Safety < Dice!RoundTime(Dice!FutureRound(c)) /\ Dice!FutureRound(c) # 0
<1>1. Period \in Nat \ {0} /\ Safety \in Nat
  BY DEF DiceConstants, Dice!DiceAssumption
<1>2. (c + Safety) \div Period \in Nat
  BY <1>1
<1>3. c + Safety < ((c + Safety) \div Period + 1) * Period
  BY <1>1
<1>4. QED
  BY <1>1, <1>2, <1>3 DEF Dice!FutureRound, Dice!RoundTime

LEMMA DiceCreate ==
    ASSUME DiceConstants, DiceInv, NEW a \in Phones, NEW c \in Capitals, Dice!Create(a, c)
    PROVE  DiceInv'
<1>1. /\ link[a] \in Company /\ account[link[a]] = "here" /\ Dice!Accepted = {}
      /\ round' = [Dice!NoRound EXCEPT !.state = "opening", !.user = link[a], !.tg = a, !.capital = c,
                                !.deadline = clock + Window, !.timeout = clock + Window + Wait]
      /\ UNCHANGED <<clock, tickets, link, account>>
  BY DEF Dice!Create, Dice!Actor, Dice!Member, Dice!people, DiceInv, DiceRow, TicketsOf
<1>2. Dice!Accepted' = {}
  BY <1>1 DEF Dice!Accepted
<1>3. DiceRow'
  BY <1>1 DEF DiceInv, DiceRow, Dice!NoRound, Dice!Terminal
<1>4. TicketsOf' /\ Times'
  BY <1>1, <1>2 DEF Dice!NoRound, TicketsOf, Times
<1>5. Dice!StakersStay'
  BY <1>1, <1>2 DEF Dice!NoRound, Dice!StakersStay, Dice!Recipients
<1>6. QED
  BY <1>3, <1>4, <1>5 DEF DiceInv

LEMMA DiceBet ==
    ASSUME DiceConstants, DiceInv, NEW m \in Messages, Dice!GroupBet(m)
    PROVE  DiceInv'
<1> DEFINE u == link[m.tg]
<1>1. PICK amount :
        /\ u \in Company /\ account[u] = "here" /\ round.state = "open"
        /\ tickets' = [tickets EXCEPT ![m] = [user |-> u, amount |-> amount, at |-> clock]]
        /\ round' \in {round, Dice!Locked(round)}
        /\ UNCHANGED <<clock, link, account>>
  <2>1. m.tg \in Phones
    BY DEF DiceConstants, Dice!DiceAssumption
  <2>2. QED
    BY <2>1 DEF Dice!GroupBet, Dice!Actor, Dice!Member, Dice!people, DiceInv, DiceRow
<1>2. /\ \A n \in Dice!Accepted' : n = m \/ (n \in Dice!Accepted /\ tickets'[n] = tickets[n])
      /\ tickets'[m].user = u /\ tickets'[m].at = clock
  BY <1>1 DEF Dice!Accepted, DiceInv, DiceRow
<1>3. round.number = 0 /\ Dice!FutureRound(clock) # 0
  BY <1>1, Unpublished DEF DiceInv, DiceRow, Times
<1>4. /\ round'.user = round.user /\ round'.state \in {"open", "locked"}
      /\ round'.number # 0 => round'.closed = clock /\ round'.number = Dice!FutureRound(clock)
      /\ round'.state = "open" => round'.number = 0
  BY <1>1, <1>3 DEF DiceInv, DiceRow, Dice!Locked
<1>5. DiceRow'
  <2>1. tickets' = [n \in Messages |-> tickets'[n]]
    BY <1>1 DEF DiceInv, DiceRow
  <2>2. QED
    BY <1>1, <2>1 DEF DiceInv, DiceRow, Dice!Locked
<1>6. TicketsOf'
  BY <1>1, <1>2, <1>4 DEF DiceInv, TicketsOf
<1>7. Times'
  <2>1. \A n \in Dice!Accepted' : tickets'[n].at \in Nat /\ tickets'[n].at <= clock
    BY <1>2 DEF DiceInv, DiceRow, Times
  <2>2. QED
    BY <1>1, <1>4, <2>1 DEF DiceInv, DiceRow, Times, Dice!FutureRound
<1>8. Dice!StakersStay'
  <2>1. \A v \in Dice!Recipients' : v = u \/ v \in Dice!Recipients
    BY <1>2, <1>4 DEF Dice!Recipients
  <2>2. QED
    BY <1>1, <2>1 DEF DiceInv, Dice!StakersStay, Dice!Live
<1>9. QED
  BY <1>5, <1>6, <1>7, <1>8 DEF DiceInv

(* A step that keeps the bets, the people and the bank, and takes the row  *)
(* from a state that is not the end to its next state.                     *)
LEMMA DiceRowMoves ==
    ASSUME DiceInv, UNCHANGED <<clock, tickets, link, account>>,
           round.state # "none", round'.state # "none", DiceRow',
           round'.user = round.user, round'.number = round.number, round'.closed = round.closed,
           round'.state \in {"opening", "open"} => round.state \in {"opening", "open"},
           Dice!Live' => Dice!Live
    PROVE  DiceInv'
<1>1. Dice!Accepted' = Dice!Accepted /\ Dice!Recipients' = Dice!Recipients
  BY DEF Dice!Accepted, Dice!Recipients
<1>2. TicketsOf'
  BY <1>1 DEF DiceInv, TicketsOf
<1>3. Times'
  BY <1>1 DEF DiceInv, Times, Dice!FutureRound
<1>4. Dice!StakersStay'
  BY <1>1 DEF DiceInv, Dice!StakersStay
<1>5. QED
  BY <1>2, <1>3, <1>4 DEF DiceInv

LEMMA DiceClose ==
    ASSUME DiceConstants, DiceInv, Dice!Close
    PROVE  DiceInv'
<1>1. round' = Dice!Locked(round) /\ UNCHANGED <<clock, tickets, link, account>> /\ Dice!Live
  BY DEF Dice!Close, Dice!people, Dice!Live
<1>2. DiceRow'
  BY <1>1 DEF DiceInv, DiceRow, Dice!Locked
<1>3. /\ round'.user = round.user /\ round'.state = "locked"
      /\ round'.closed = clock /\ round'.number = Dice!FutureRound(clock) /\ Dice!FutureRound(clock) # 0
  BY <1>1, Unpublished DEF DiceInv, DiceRow, Dice!Locked
<1>4. Dice!Accepted' = Dice!Accepted /\ Dice!Recipients' = Dice!Recipients
  BY <1>1, <1>3 DEF Dice!Accepted, Dice!Recipients
<1>5. TicketsOf'
  BY <1>1, <1>3, <1>4 DEF DiceInv, TicketsOf, Dice!Live
<1>6. Times'
  BY <1>1, <1>3, <1>4 DEF DiceInv, DiceRow, Times, Dice!FutureRound
<1>7. Dice!StakersStay'
  BY <1>1, <1>4 DEF DiceInv, Dice!StakersStay
<1>8. QED
  BY <1>2, <1>5, <1>6, <1>7 DEF DiceInv

(* The dice fall, the round is settled, or cannot be.                      *)
LEMMA DiceEnds ==
    ASSUME DiceInv, (\E d : Dice!Fix(d)) \/ Dice!Settle \/ Dice!SettleFails
    PROVE  DiceInv'
<1>1. /\ UNCHANGED <<clock, tickets, link, account>> /\ round.state \in {"locked", "fixed"}
  BY DEF Dice!Fix, Dice!Settle, Dice!SettleFails, Dice!MaySettle, Dice!people
<1>2. /\ DiceRow' /\ round'.state \in {"locked", "fixed"} \cup Dice!Terminal
      /\ round'.user = round.user /\ round'.number = round.number /\ round'.closed = round.closed
  <2>1. CASE \E d : Dice!Fix(d)
    BY <1>1, <2>1 DEF DiceInv, DiceRow, Dice!Fix, Dice!Terminal
  <2>2. CASE Dice!Settle
    BY <1>1, <2>2 DEF DiceInv, DiceRow, Dice!Settle, Dice!Terminal
  <2>3. CASE Dice!SettleFails
    BY <1>1, <2>3 DEF DiceInv, DiceRow, Dice!SettleFails, Dice!Terminal
  <2>4. QED
    BY <2>1, <2>2, <2>3
<1>3. QED
  BY <1>1, <1>2, DiceRowMoves DEF Dice!Live, Dice!Terminal

(* What is sent, answered, pressed and recovered opens the betting at most. *)
DicePost ==
    \/ Dice!SendOpen \/ Dice!SendReport \/ Dice!PressOpen \/ Dice!PressReport \/ Dice!Clean \/ Dice!RecoverOpen
    \/ \E s, arrived : Dice!OpenAnswered(s, arrived) \/ Dice!ReportAnswered(s, arrived)
    \/ \E s : Dice!RecoverReport(s)

LEMMA DiceMail ==
    ASSUME DiceInv, DicePost \/ UNCHANGED Dice!vars
    PROVE  DiceInv'
<1>1. /\ UNCHANGED <<clock, tickets, link, account>>
      /\ round' = round \/ (round.state = "opening" /\ round' = [round EXCEPT !.state = "open"])
  BY DEF DicePost, Dice!vars, Dice!money, Dice!people, Dice!Bound, Dice!SendOpen, Dice!SendReport, Dice!PressOpen, Dice!PressReport,
         Dice!Clean, Dice!RecoverOpen, Dice!OpenAnswered, Dice!ReportAnswered, Dice!RecoverReport
<1>2. CASE round' = round
  BY <1>1, <1>2 DEF DiceInv, DiceRow, TicketsOf, Times, Dice!FutureRound, Dice!StakersStay, Dice!Live, Dice!Accepted, Dice!Recipients
<1>3. CASE round.state = "opening" /\ round' = [round EXCEPT !.state = "open"]
  <2>1. /\ DiceRow' /\ round'.state = "open"
        /\ round'.user = round.user /\ round'.number = round.number /\ round'.closed = round.closed
    BY <1>1, <1>3 DEF DiceInv, DiceRow
  <2>2. QED
    BY <1>1, <1>3, <2>1, DiceRowMoves DEF Dice!Live
<1>4. QED
  BY <1>1, <1>2, <1>3

(* Members leave, are removed or change their links, and time passes.      *)
DiceWorld ==
    \/ \E u \in Company : Dice!BeginDeletion(u) \/ Dice!Remove(u) \/ \E gone \in BOOLEAN : Dice!EndDeletion(u, gone)
    \/ \E a \in Phones, u \in Company \cup {Null} : Dice!Relink(a, u)
    \/ Dice!Tick

LEMMA DicePeople ==
    ASSUME DiceInv, DiceWorld
    PROVE  DiceInv'
<1>1. UNCHANGED <<round, tickets>> /\ (clock' = clock \/ clock' = clock + 1)
  BY DEF DiceWorld, Dice!BeginDeletion, Dice!Remove, Dice!EndDeletion, Dice!Relink, Dice!Tick, Dice!money
<1>2. Dice!Accepted' = Dice!Accepted /\ Dice!Recipients' = Dice!Recipients /\ Dice!Live' = Dice!Live
  BY <1>1 DEF Dice!Accepted, Dice!Recipients, Dice!Live
<1>3. DiceRow' /\ Dice!StakersStay'
  <2>1. ASSUME NEW u \in Company, Dice!BeginDeletion(u) PROVE DiceRow' /\ Dice!StakersStay'
    BY <1>1, <1>2, <2>1 DEF DiceInv, DiceRow, Dice!BeginDeletion, Dice!NoStakes, Dice!StakersStay
  <2>2. ASSUME NEW u \in Company, Dice!Remove(u) PROVE DiceRow' /\ Dice!StakersStay'
    BY <1>1, <1>2, <2>2 DEF DiceInv, DiceRow, Dice!Remove, Dice!StakersStay
  <2>3. ASSUME NEW u \in Company, NEW gone \in BOOLEAN, Dice!EndDeletion(u, gone) PROVE DiceRow' /\ Dice!StakersStay'
    BY <1>1, <1>2, <2>3 DEF DiceInv, DiceRow, Dice!EndDeletion, Dice!StakersStay
  <2>4. ASSUME NEW a \in Phones, NEW u \in Company \cup {Null}, Dice!Relink(a, u) PROVE DiceRow' /\ Dice!StakersStay'
    BY <1>1, <1>2, <2>4 DEF DiceInv, DiceRow, Dice!Relink, Dice!StakersStay
  <2>5. CASE Dice!Tick
    BY <1>1, <1>2, <2>5 DEF DiceInv, DiceRow, Dice!Tick, Dice!people, Dice!StakersStay
  <2>6. QED
    BY <2>1, <2>2, <2>3, <2>4, <2>5 DEF DiceWorld
<1>4. TicketsOf'
  BY <1>1, <1>2 DEF DiceInv, TicketsOf
<1>5. Times'
  BY <1>1, <1>2 DEF DiceInv, DiceRow, Times, Dice!FutureRound
<1>6. QED
  BY <1>3, <1>4, <1>5 DEF DiceInv

LEMMA DiceStep == ASSUME DiceConstants, DiceInv, [Dice!Next]_(Dice!vars) PROVE DiceInv'
BY DiceCreate, DiceBet, DiceClose, DiceEnds, DiceMail, DicePeople DEF Dice!Next, DicePost, DiceWorld

LEMMA DiceTells == ASSUME DiceConstants, DiceInv PROVE Dice!NobodyForesaw /\ Dice!StakersStay
<1> SUFFICES ASSUME DiceInv PROVE Dice!NobodyForesaw
  BY DEF DiceInv
<1> SUFFICES ASSUME round.number > 0, NEW m \in Dice!Accepted
             PROVE  tickets[m].at + Safety < Dice!RoundTime(round.number)
  BY DEF Dice!NobodyForesaw
<1>1. /\ round.number # 0 /\ tickets[m].at \in Nat /\ tickets[m].at <= round.closed
      /\ round.closed \in Nat /\ round.number = Dice!FutureRound(round.closed)
  BY DEF DiceInv, Times
<1>2. round.closed + Safety < Dice!RoundTime(round.number)
  BY <1>1, Unpublished
<1>3. Safety \in Nat /\ Period \in Nat /\ round.number \in Nat
  BY <1>1, Unpublished DEF DiceConstants, Dice!DiceAssumption
<1>4. Dice!RoundTime(round.number) \in Int
  BY <1>3 DEF Dice!RoundTime
<1>5. QED
  BY <1>1, <1>2, <1>3, <1>4

(* A bet is blind: when it was accepted, the round of the beacon that       *)
(* decides it was not out, not even for a host whose clock is late by the   *)
(* margin (dice_quicknet.py); and a member with points on the table does    *)
(* not leave before they are paid (account_deletion.py, dice_group.py).     *)
THEOREM DiceBetsAreBlind ==
    ASSUME DiceConstants
    PROVE  Dice!Spec => [](Dice!NobodyForesaw /\ Dice!StakersStay)
<1>1. Dice!Init => DiceInv
  BY DiceInit
<1>2. DiceInv /\ [Dice!Next]_(Dice!vars) => DiceInv'
  BY DiceStep
<1>3. DiceInv => Dice!NobodyForesaw /\ Dice!StakersStay
  BY DiceTells
<1>4. QED
  BY <1>1, <1>2, <1>3, PTL DEF Dice!Spec

(* The report of a round: there is none before the round ends, it is in     *)
(* the group when it is known to be sent, and every copy after the first    *)
(* was asked for by an operator.                                           *)
ReportInv ==
    /\ report = [state |-> report.state, copies |-> report.copies]
    /\ report.copies \in Nat /\ retries \in Nat
    /\ round.state \notin Dice!Terminal => report = Dice!NoMail /\ ~cleaning
    /\ report.state = "sent" => report.copies > 0
    /\ report.state \in {"none", "pending", "sending"} => report.copies <= retries
    /\ report.copies <= 1 + retries
    /\ cleaning => report.state = "sent"

LEMMA ReportStep ==
    ASSUME ErrorsRefuse, DiceInv, ReportInv, [Dice!Next]_(Dice!vars)
    PROVE  ReportInv'
<1>1. CASE UNCHANGED <<report, cleaning, retries>> /\ (round'.state \notin Dice!Terminal => round.state \notin Dice!Terminal)
  BY <1>1 DEF ReportInv, Dice!NoMail
<1>2. CASE Dice!Settle
  <2>1. /\ report' = [state |-> "pending", copies |-> 0] /\ UNCHANGED <<cleaning, retries>>
        /\ round.state \notin Dice!Terminal /\ round'.state \in Dice!Terminal
    BY <1>2 DEF Dice!Settle, Dice!MaySettle, Dice!Terminal, Dice!NoMail, DiceInv, DiceRow
  <2>2. QED
    BY <2>1 DEF ReportInv
<1>3. CASE Dice!SendReport \/ Dice!PressReport \/ Dice!Clean \/ \E s \in {"sent", "pending"} : Dice!RecoverReport(s)
  <2>1. UNCHANGED round
    BY <1>3 DEF Dice!SendReport, Dice!PressReport, Dice!Clean, Dice!RecoverReport, Dice!money
  <2>2. CASE Dice!SendReport
    BY <2>1, <2>2 DEF ReportInv, Dice!SendReport, Dice!NoMail
  <2>3. CASE Dice!PressReport
    BY <2>1, <2>3 DEF ReportInv, Dice!PressReport, Dice!NoMail
  <2>4. CASE Dice!Clean
    BY <2>1, <2>4 DEF ReportInv, Dice!Clean, Dice!NoMail
  <2>5. ASSUME NEW s \in {"sent", "pending"}, Dice!RecoverReport(s) PROVE ReportInv'
    <3>1. /\ report.state \in {"unknown", "failed"} /\ retries' = retries + 1 /\ (s = "sent" => report.copies > 0)
          /\ report' = [report EXCEPT !.state = s] /\ (cleaning' => cleaning)
      BY <2>5 DEF Dice!RecoverReport, Dice!Recover
    <3>2. report' = [state |-> s, copies |-> report.copies]
      BY <3>1 DEF ReportInv
    <3>3. round.state \in Dice!Terminal /\ ~cleaning
      BY <3>1 DEF ReportInv, Dice!NoMail
    <3>4. QED
      BY <2>1, <3>1, <3>2, <3>3 DEF ReportInv
  <2>6. QED
    BY <1>3, <2>2, <2>3, <2>4, <2>5
<1>4. ASSUME NEW s \in {"sent", "pending", "failed", "unknown"}, NEW arrived \in BOOLEAN, Dice!ReportAnswered(s, arrived)
      PROVE  ReportInv'
  <2>1. /\ report.state = "sending" /\ UNCHANGED <<round, cleaning, retries>>
        /\ report' = [state |-> s, copies |-> report.copies + (IF arrived THEN 1 ELSE 0)]
        /\ (s = "sent" => arrived) /\ (s \in {"pending", "failed"} => ~arrived)
    BY <1>4, ErrorsRefuse DEF Dice!ReportAnswered, Dice!Answered, Dice!Result, Dice!money
  <2>2. CASE arrived
    BY <2>1, <2>2 DEF ReportInv, Dice!NoMail
  <2>3. CASE ~arrived
    BY <2>1, <2>3 DEF ReportInv, Dice!NoMail
  <2>4. QED
    BY <2>2, <2>3
<1>5. CASE Dice!PressOpen \/ Dice!RecoverOpen
  <2>1. /\ UNCHANGED report /\ retries' \in Nat /\ (retries' = retries \/ retries' = retries + 1) /\ (cleaning' => cleaning)
        /\ round'.state \notin Dice!Terminal => round.state \notin Dice!Terminal
    BY <1>5 DEF Dice!PressOpen, Dice!RecoverOpen, Dice!Recover, Dice!Bound, Dice!money, Dice!Terminal, ReportInv, DiceInv, DiceRow
  <2>2. QED
    BY <2>1 DEF ReportInv, Dice!NoMail
<1>6. CASE \/ Dice!SendOpen \/ \E s \in {"sent", "pending", "failed", "unknown"}, arrived \in BOOLEAN : Dice!OpenAnswered(s, arrived)
           \/ UNCHANGED Dice!vars \/ DiceWorld
  <2>1. UNCHANGED <<report, cleaning, retries>>
    BY <1>6 DEF Dice!SendOpen, Dice!OpenAnswered, Dice!vars, Dice!mail, DiceWorld, Dice!BeginDeletion, Dice!Remove, Dice!EndDeletion, Dice!Relink, Dice!Tick
  <2>2. round'.state \notin Dice!Terminal => round.state \notin Dice!Terminal
    BY <1>6 DEF Dice!SendOpen, Dice!OpenAnswered, Dice!Bound, Dice!vars, Dice!money, Dice!Terminal, DiceWorld, Dice!BeginDeletion, Dice!Remove,
                Dice!EndDeletion, Dice!Relink, Dice!Tick, DiceInv, DiceRow
  <2>3. QED
    BY <1>1, <2>1, <2>2
<1>7. CASE \/ Dice!Close \/ Dice!SettleFails \/ \E d \in {"big", "small", "triple"} : Dice!Fix(d)
           \/ \E m \in Messages : Dice!GroupBet(m)
  <2>1. UNCHANGED <<report, cleaning, retries>> /\ round.state \notin Dice!Terminal
    BY <1>7 DEF Dice!Close, Dice!SettleFails, Dice!Fix, Dice!GroupBet, Dice!mail, Dice!MaySettle, Dice!Terminal
  <2>2. QED
    BY <1>1, <2>1
<1>8. ASSUME NEW a \in Phones, NEW c \in Capitals, Dice!Create(a, c) PROVE ReportInv'
  <2>1. UNCHANGED <<report, cleaning, retries>> /\ round.state \notin Dice!Terminal
    BY <1>8 DEF Dice!Create, Dice!Terminal
  <2>2. QED
    BY <1>1, <2>1
<1>9. QED
  BY <1>2, <1>3, <1>4, <1>5, <1>6, <1>7, <1>8 DEF Dice!Next, DiceWorld

LEMMA ReportStart == ASSUME Dice!Init PROVE ReportInv
BY DEF Dice!Init, ReportInv, Dice!NoMail

LEMMA ReportTells == ASSUME ReportInv PROVE Dice!CardUntilReport
BY DEF ReportInv, Dice!CardUntilReport

(* The card of a round is taken away only when its report is in the group,  *)
(* and the group sees a second report only if an operator asked for it      *)
(* (bot_dice.py, _dice_deliver, recover_delivery), whatever answers of      *)
(* Telegram are lost, provided that a 5xx answer means that nothing was     *)
(* posted: after one the report is sent again (report_delivery.py).         *)
THEOREM DiceCardUntilReport ==
    ASSUME DiceConstants, ErrorsRefuse
    PROVE  Dice!Spec => []Dice!CardUntilReport
<1>1. Dice!Init => DiceInv /\ ReportInv
  BY DiceInit, ReportStart
<1>2. DiceInv /\ ReportInv /\ [Dice!Next]_(Dice!vars) => (DiceInv /\ ReportInv)'
  BY DiceStep, ReportStep
<1>3. DiceInv /\ ReportInv => Dice!CardUntilReport
  BY ReportTells
<1>4. QED
  BY <1>1, <1>2, <1>3, PTL DEF Dice!Spec

(*-------------------------------------------------------------------------*)
(* The duel.                                                               *)

(* A die is thrown only when Telegram says so: a 5xx answer is a refusal,   *)
(* as bot_pk.py takes it to be.                                            *)
PkConstants == Duel!PkAssumption /\ ErrorsRefuse

DuelStates == {"none", "pending", "rolling", "settled", "cancelled", "declined", "withdrawn", "expired"}

Party == [tg : Handles \cup {Null}, uid : Pair \cup {Null}]

DuelRow == [state : DuelStates, actor : Party, target : Party, stake : Nat, card : {"none", "shown"},
            roll : {"", "ready", "sending"}, rolls : Seq(Faces), attempts : Nat, winner : Duel!Sides \cup {Null}]

DuelType ==
    /\ link \in [Handles -> Pair \cup {Null}]
    /\ duel \in [Tables -> DuelRow]
    /\ held \in [Tables -> [Duel!Sides -> Nat]]
    /\ call \in [Tables -> Nat]
    /\ thrown \in [Tables -> Seq([slot : Nat, face : Faces])]

(* What the group has seen of a duel is what the row has recorded, and at   *)
(* most one die more: the one whose answer was lost, which is never thrown  *)
(* again.  While a call is out, or another may be made, nothing is missing. *)
SeenDice(d) ==
    LET n    == Len(duel[d].rolls)
        seen == Len(thrown[d]) IN
    /\ \A i \in 1 .. seen : thrown[d][i].slot = i
    /\ \A i \in 1 .. n : thrown[d][i].face = duel[d].rolls[i]
    /\ seen \in {n, n + 1}
    /\ call[d] # 0 => call[d] = n + 1 /\ seen = n
    /\ duel[d].roll = "ready" => seen = n /\ call[d] = 0
    /\ duel[d].state = "settled" => seen = n /\ call[d] = 0
    /\ duel[d].state \in {"none", "pending"} => n = 0 /\ seen = 0 /\ call[d] = 0

DuelDice == \A d \in Tables : SeenDice(d)

DuelInv == DuelType /\ DuelDice /\ Duel!OneDuelEach /\ Duel!StakesComplete

(* A step is about one duel, and says of the others that they stay.        *)
Aside(d) ==
    \A e \in Tables \ {d} :
        duel'[e] = duel[e] /\ held'[e] = held[e] /\ call'[e] = call[e] /\ thrown'[e] = thrown[e]

StakesOf(d) ==
    held[d] = [s \in Duel!Sides |-> IF duel[d].state = "rolling" \/ (duel[d].state = "pending" /\ s = "actor")
                                 THEN duel[d].stake ELSE 0]

(* The duel keeps its members, and is not opened by a step other than the   *)
(* challenge.                                                              *)
Keeps(d) ==
    /\ duel'[d].actor.uid = duel[d].actor.uid /\ duel'[d].target.uid = duel[d].target.uid
    /\ duel'[d].state \in Duel!Active => duel[d].state \in Duel!Active

LEMMA OneDuelMoves ==
    ASSUME DuelInv, NEW d \in Tables, DuelType', Aside(d), SeenDice(d)', StakesOf(d)', Keeps(d)
    PROVE  DuelInv'
<1>1. DuelDice'
  <2> SUFFICES ASSUME NEW e \in Tables PROVE SeenDice(e)'
    BY DEF DuelDice
  <2>1. CASE e = d
    BY <2>1
  <2>2. CASE e # d
    <3>1. duel'[e] = duel[e] /\ call'[e] = call[e] /\ thrown'[e] = thrown[e]
      BY <2>2 DEF Aside
    <3>2. SeenDice(e)
      BY DEF DuelInv, DuelDice
    <3>3. QED
      BY <3>1, <3>2 DEF SeenDice
  <2>3. QED
    BY <2>1, <2>2
<1>2. Duel!StakesComplete'
  <2> SUFFICES ASSUME NEW e \in Tables
               PROVE  held'[e] = [s \in Duel!Sides |-> IF duel'[e].state = "rolling" \/ (duel'[e].state = "pending" /\ s = "actor")
                                                     THEN duel'[e].stake ELSE 0]
    BY DEF Duel!StakesComplete
  <2>1. CASE e = d
    BY <2>1 DEF StakesOf
  <2>2. CASE e # d
    BY <2>2 DEF DuelInv, Duel!StakesComplete, Aside
  <2>3. QED
    BY <2>1, <2>2
<1>3. Duel!OneDuelEach'
  <2>1. \A e \in Tables : /\ duel'[e].actor.uid = duel[e].actor.uid /\ duel'[e].target.uid = duel[e].target.uid
                         /\ duel'[e].state \in Duel!Active => duel[e].state \in Duel!Active
    BY DEF Aside, Keeps
  <2>2. QED
    BY <2>1 DEF DuelInv, Duel!OneDuelEach
<1>4. QED
  BY <1>1, <1>2, <1>3 DEF DuelInv

(* What a close leaves.                                                    *)
LEMMA ClosedDuel ==
    ASSUME DuelInv, NEW d \in Tables, NEW s \in {"cancelled", "declined", "withdrawn", "expired"}, Duel!Close(d, s)
    PROVE  /\ duel' \in [Tables -> DuelRow] /\ held' \in [Tables -> [Duel!Sides -> Nat]]
           /\ \A e \in Tables \ {d} : duel'[e] = duel[e] /\ held'[e] = held[e]
           /\ StakesOf(d)' /\ Keeps(d)
           /\ duel'[d].rolls = duel[d].rolls /\ duel'[d].roll = "" /\ duel'[d].state = s
<1>1. duel' = [duel EXCEPT ![d].state = s, ![d].roll = ""] /\ held' = [held EXCEPT ![d] = Duel!Nothing]
  BY DEF Duel!Close
<1>2. /\ duel' \in [Tables -> DuelRow]
      /\ duel'[d].rolls = duel[d].rolls /\ duel'[d].roll = "" /\ duel'[d].state = s
      /\ duel'[d].actor = duel[d].actor /\ duel'[d].target = duel[d].target
      /\ \A e \in Tables \ {d} : duel'[e] = duel[e]
  <2> DEFINE r == [duel[d] EXCEPT !.state = s, !.roll = ""]
  <2>1. duel \in [Tables -> DuelRow]
    BY DEF DuelInv, DuelType
  <2>2. duel' = [duel EXCEPT ![d] = r]
    BY <1>1, <2>1
  <2>3. /\ r \in DuelRow /\ r.rolls = duel[d].rolls /\ r.roll = "" /\ r.state = s
        /\ r.actor = duel[d].actor /\ r.target = duel[d].target
    BY <2>1 DEF DuelRow, DuelStates
  <2>4. QED
    BY <2>1, <2>2, <2>3
<1>3. /\ held' \in [Tables -> [Duel!Sides -> Nat]] /\ held'[d] = [side \in Duel!Sides |-> 0]
      /\ \A e \in Tables \ {d} : held'[e] = held[e]
  BY <1>1 DEF DuelInv, DuelType, Duel!Nothing
<1>4. StakesOf(d)'
  BY <1>2, <1>3 DEF StakesOf
<1>5. Keeps(d)
  BY <1>2 DEF Keeps, Duel!Active
<1>6. QED
  BY <1>2, <1>3, <1>4, <1>5

LEMMA DuelCloses ==
    ASSUME DuelInv, NEW d \in Tables, NEW s \in {"cancelled", "declined", "withdrawn", "expired"}, Duel!Close(d, s),
           UNCHANGED <<link, call, thrown>>
    PROVE  DuelInv'
<1>1. SeenDice(d)'
  <2>1. SeenDice(d)
    BY DEF DuelInv, DuelDice
  <2>2. QED
    BY <2>1, ClosedDuel DEF SeenDice
<1>2. DuelType' /\ Aside(d)
  BY ClosedDuel DEF DuelInv, DuelType, Aside
<1>3. QED
  BY <1>1, <1>2, ClosedDuel, OneDuelMoves

LEMMA DuelCreate ==
    ASSUME PkConstants, DuelInv, NEW d \in Tables, NEW a \in Handles, NEW b \in Handles, NEW amount \in DuelStakes,
           Duel!Create(d, a, b, amount)
    PROVE  DuelInv'
<1> DEFINE x == [tg |-> a, uid |-> link[a]]
           y == [tg |-> b, uid |-> link[b]]
           r == [Duel!NoRow EXCEPT !.state = "pending", !.actor = x, !.target = y, !.stake = amount]
<1>1. /\ duel[d].state = "none" /\ link[a] \in Pair /\ link[b] \in Pair /\ link[a] # link[b]
      /\ ~Duel!Busy(link[a]) /\ ~Duel!Busy(link[b])
      /\ held' = [held EXCEPT ![d]["actor"] = amount]
      /\ UNCHANGED <<link, call, thrown>>
  BY DEF Duel!Create, Duel!Valid, DuelInv, DuelType
<1>2. duel \in [Tables -> DuelRow] /\ held \in [Tables -> [Duel!Sides -> Nat]] /\ amount \in Nat
  BY DEF DuelInv, DuelType, PkConstants, Duel!PkAssumption
<1>3. /\ r \in DuelRow /\ r.state = "pending" /\ r.rolls = <<>> /\ r.roll = "" /\ r.stake = amount
      /\ r.actor.uid = link[a] /\ r.target.uid = link[b]
  <2>1. x \in Party /\ y \in Party /\ x.uid = link[a] /\ y.uid = link[b]
    BY <1>1 DEF Party
  <2>2. <<>> \in Seq(Faces)
    OBVIOUS
  <2> HIDE DEF x, y
  <2>3. QED
    BY <1>2, <2>1, <2>2 DEF DuelRow, DuelStates, Duel!NoRow
<1>31. duel' = [duel EXCEPT ![d] = r]
  BY DEF Duel!Create
<1> HIDE DEF r
<1>4. /\ duel' \in [Tables -> DuelRow] /\ duel'[d] = r /\ \A e \in Tables \ {d} : duel'[e] = duel[e]
  BY <1>31, <1>2, <1>3
<1>5. held[d] = [s \in Duel!Sides |-> 0]
  BY <1>1 DEF DuelInv, Duel!StakesComplete
<1>6. /\ held' \in [Tables -> [Duel!Sides -> Nat]] /\ \A e \in Tables \ {d} : held'[e] = held[e]
      /\ held'[d] = [s \in Duel!Sides |-> IF s = "actor" THEN amount ELSE 0]
  BY <1>1, <1>2, <1>5 DEF Duel!Sides
<1>7. DuelType'
  BY <1>1, <1>4, <1>6 DEF DuelInv, DuelType
<1>8. DuelDice'
  <2> SUFFICES ASSUME NEW e \in Tables PROVE SeenDice(e)'
    BY DEF DuelDice
  <2>1. SeenDice(e)
    BY DEF DuelInv, DuelDice
  <2>2. CASE e = d
    <3> SUFFICES SeenDice(d)'
      BY <2>2
    <3>1. Len(duel[d].rolls) = 0 /\ Len(thrown[d]) = 0 /\ call[d] = 0
      BY <1>1, <2>1, <2>2 DEF SeenDice
    <3>2. duel'[d].rolls = <<>> /\ duel'[d].roll = "" /\ duel'[d].state = "pending" /\ Len(<<>>) = 0
      BY <1>3, <1>4
    <3>3. thrown'[d] = thrown[d] /\ call'[d] = call[d]
      BY <1>1
    <3>4. Len(duel'[d].rolls) = 0 /\ Len(thrown'[d]) = 0 /\ call'[d] = 0
      BY <3>1, <3>2, <3>3
    <3>5. duel'[d].roll = "" /\ duel'[d].state = "pending"
      BY <3>2
    <3>6. (\A i \in 1 .. Len(thrown'[d]) : thrown'[d][i].slot = i)
      BY <3>4
    <3>7. (\A i \in 1 .. Len(duel'[d].rolls) : thrown'[d][i].face = duel'[d].rolls[i])
      BY <3>4
    <3>8. QED
      BY <3>4, <3>5, <3>6, <3>7 DEF SeenDice
  <2>3. CASE e # d
    BY <1>1, <1>4, <2>1, <2>3 DEF SeenDice
  <2>4. QED
    BY <2>2, <2>3
<1>9. Duel!StakesComplete'
  <2> SUFFICES ASSUME NEW e \in Tables
               PROVE  held'[e] = [s \in Duel!Sides |-> IF duel'[e].state = "rolling" \/ (duel'[e].state = "pending" /\ s = "actor")
                                                     THEN duel'[e].stake ELSE 0]
    BY DEF Duel!StakesComplete
  <2>1. CASE e = d
    BY <1>3, <1>4, <1>6, <2>1
  <2>2. CASE e # d
    <3>1. duel'[e] = duel[e] /\ held'[e] = held[e]
      BY <1>4, <1>6, <2>2
    <3>2. QED
      BY <3>1 DEF DuelInv, Duel!StakesComplete
  <2>3. QED
    BY <2>1, <2>2
<1>10. Duel!OneDuelEach'
  <2>1. \A e \in Tables \ {d} : duel'[e].state \in Duel!Active =>
            {duel'[e].actor.uid, duel'[e].target.uid} \cap {link[a], link[b]} = {}
    BY <1>1, <1>4 DEF Duel!Busy
  <2>2. duel'[d].actor.uid = link[a] /\ duel'[d].target.uid = link[b]
    BY <1>3, <1>4
  <2> SUFFICES ASSUME NEW e \in Tables, NEW f \in Tables, e # f,
                      duel'[e].state \in Duel!Active, duel'[f].state \in Duel!Active
               PROVE  {duel'[e].actor.uid, duel'[e].target.uid} \cap {duel'[f].actor.uid, duel'[f].target.uid} = {}
    BY DEF Duel!OneDuelEach
  <2>3. CASE e # d /\ f # d
    BY <1>4, <2>3 DEF DuelInv, Duel!OneDuelEach
  <2>4. CASE e = d
    BY <2>1, <2>2, <2>4
  <2>5. CASE f = d
    BY <2>1, <2>2, <2>5
  <2>6. QED
    BY <2>3, <2>4, <2>5
<1>11. QED
  BY <1>7, <1>8, <1>9, <1>10 DEF DuelInv

(* A change of the row that is not about the dice, and of the escrow.      *)
LEMMA DuelChanges ==
    ASSUME DuelInv, NEW d \in Tables, NEW r \in DuelRow, NEW h \in [Duel!Sides -> Nat],
           duel' = [duel EXCEPT ![d] = r], held' = [held EXCEPT ![d] = h],
           UNCHANGED <<link, call, thrown>>,
           r.rolls = duel[d].rolls, r.actor = duel[d].actor, r.target = duel[d].target,
           r.state \in Duel!Active, duel[d].state \in Duel!Active,
           r.roll = "ready" => Len(thrown[d]) = Len(duel[d].rolls) /\ call[d] = 0,
           r.state = "pending" => duel[d].state = "pending",
           h = [s \in Duel!Sides |-> IF r.state = "rolling" \/ (r.state = "pending" /\ s = "actor") THEN r.stake ELSE 0]
    PROVE  DuelInv'
<1>1. duel \in [Tables -> DuelRow] /\ held \in [Tables -> [Duel!Sides -> Nat]]
  BY DEF DuelInv, DuelType
<1>2. /\ duel' \in [Tables -> DuelRow] /\ held' \in [Tables -> [Duel!Sides -> Nat]]
      /\ duel'[d] = r /\ held'[d] = h
      /\ \A e \in Tables \ {d} : duel'[e] = duel[e] /\ held'[e] = held[e]
  BY <1>1
<1>3. DuelType' /\ Aside(d)
  BY <1>2 DEF DuelInv, DuelType, Aside
<1>4. StakesOf(d)' /\ Keeps(d)
  BY <1>2 DEF StakesOf, Keeps
<1>5. SeenDice(d)'
  <2>1. SeenDice(d)
    BY DEF DuelInv, DuelDice
  <2>2. QED
    BY <1>2, <2>1 DEF SeenDice, Duel!Active
<1>6. QED
  BY <1>3, <1>4, <1>5, OneDuelMoves

LEMMA DuelAnswered ==
    ASSUME DuelInv, NEW d \in Tables,
           \/ Duel!Expire(d) \/ \E answer \in {"sent", "failed"} : Duel!Publish(d, answer)
           \/ \E a \in Handles : Duel!Decline(d, a) \/ Duel!Accept(d, a)
    PROVE  DuelInv'
<1> DEFINE shown  == [duel[d] EXCEPT !.card = "shown"]
           rolls  == [duel[d] EXCEPT !.state = "rolling", !.roll = "ready"]
           staked == [held[d] EXCEPT !["target"] = duel[d].stake]
<1>1. duel \in [Tables -> DuelRow] /\ held \in [Tables -> [Duel!Sides -> Nat]] /\ SeenDice(d) /\ StakesOf(d)
  BY DEF DuelInv, DuelType, DuelDice, Duel!StakesComplete, StakesOf
<1>2. CASE \E s \in {"cancelled", "declined", "withdrawn", "expired"} : Duel!Close(d, s) /\ UNCHANGED <<link, call, thrown>>
  BY <1>2, DuelCloses
<1>3. CASE duel[d].state \in Duel!Active /\ duel' = [duel EXCEPT ![d] = shown] /\ UNCHANGED <<held, link, call, thrown>>
  <2>1. /\ shown \in DuelRow /\ shown.rolls = duel[d].rolls /\ shown.actor = duel[d].actor
        /\ shown.target = duel[d].target /\ shown.state = duel[d].state /\ shown.roll = duel[d].roll
        /\ shown.stake = duel[d].stake
    BY <1>1 DEF DuelRow
  <2>2. held[d] \in [Duel!Sides -> Nat] /\ held' = [held EXCEPT ![d] = held[d]]
    BY <1>1, <1>3
  <2> HIDE DEF shown
  <2>3. /\ shown.roll = "ready" => Len(thrown[d]) = Len(duel[d].rolls) /\ call[d] = 0
        /\ held[d] = [s \in Duel!Sides |-> IF shown.state = "rolling" \/ (shown.state = "pending" /\ s = "actor")
                                           THEN shown.stake ELSE 0]
    BY <1>1, <2>1 DEF SeenDice, StakesOf
  <2>4. shown.state \in Duel!Active /\ (shown.state = "pending" => duel[d].state = "pending")
    BY <1>3, <2>1
  <2>5. QED
    BY <1>3, <2>1, <2>2, <2>3, <2>4, DuelChanges
<1>4. CASE /\ duel[d].state = "pending" /\ duel' = [duel EXCEPT ![d] = rolls]
           /\ held' = [held EXCEPT ![d] = staked] /\ UNCHANGED <<link, call, thrown>>
  <2>1. /\ rolls \in DuelRow /\ rolls.rolls = duel[d].rolls /\ rolls.actor = duel[d].actor
        /\ rolls.target = duel[d].target /\ rolls.state = "rolling" /\ rolls.stake = duel[d].stake
    BY <1>1 DEF DuelRow, DuelStates
  <2>2. duel[d].stake \in Nat
    BY <1>1 DEF DuelRow
  <2>3. staked \in [Duel!Sides -> Nat] /\ staked = [s \in Duel!Sides |-> duel[d].stake]
    BY <1>1, <1>4, <2>2 DEF StakesOf, Duel!Sides
  <2>4. Len(thrown[d]) = Len(duel[d].rolls) /\ call[d] = 0
    BY <1>1, <1>4 DEF SeenDice
  <2> HIDE DEF rolls, staked
  <2>5. staked = [s \in Duel!Sides |-> IF rolls.state = "rolling" \/ (rolls.state = "pending" /\ s = "actor")
                                   THEN rolls.stake ELSE 0]
    BY <2>1, <2>3
  <2>6. duel[d].state \in Duel!Active /\ rolls.state \in Duel!Active
    BY <1>4, <2>1 DEF Duel!Active
  <2>7. QED
    BY <1>4, <2>1, <2>3, <2>4, <2>5, <2>6, DuelChanges
<1>5. CASE \E answer \in {"sent", "failed"} : Duel!Publish(d, answer)
  <2>1. CASE Duel!Publish(d, "sent")
    BY <1>1, <1>3, <2>1 DEF Duel!Publish
  <2>2. CASE Duel!Publish(d, "failed")
    BY <1>2, <2>2 DEF Duel!Publish
  <2>3. QED
    BY <1>5, <2>1, <2>2
<1>6. ASSUME NEW a \in Handles, Duel!Decline(d, a) PROVE DuelInv'
  BY <1>2, <1>6 DEF Duel!Decline
<1>7. ASSUME NEW a \in Handles, Duel!Accept(d, a) PROVE DuelInv'
  <2>1. CASE Duel!IsSide(d, duel[d].actor.tg, "actor")
    <3>1. /\ duel[d].state = "pending" /\ UNCHANGED <<link, call, thrown>>
          /\ held' = [held EXCEPT ![d]["target"] = duel[d].stake]
          /\ duel' = [duel EXCEPT ![d].state = "rolling", ![d].roll = "ready"]
      BY <1>7, <2>1 DEF Duel!Accept
    <3>2. duel' = [duel EXCEPT ![d] = rolls]
      BY <1>1, <3>1
    <3>3. held' = [held EXCEPT ![d] = staked]
      BY <1>1, <3>1
    <3>4. QED
      BY <1>4, <3>1, <3>2, <3>3
  <2>2. CASE ~Duel!IsSide(d, duel[d].actor.tg, "actor")
    BY <1>2, <1>7, <2>2 DEF Duel!Accept
  <2>3. QED
    BY <2>1, <2>2
<1>8. CASE Duel!Expire(d)
  BY <1>2, <1>8 DEF Duel!Expire
<1>9. QED
  BY <1>5, <1>6, <1>7, <1>8

LEMMA DuelBegins ==
    ASSUME DuelInv, NEW d \in Tables, Duel!BeginRoll(d)
    PROVE  DuelInv'
<1> DEFINE r == [duel[d] EXCEPT !.roll = "sending", !.attempts = duel[d].attempts + 1]
<1>1. /\ duel \in [Tables -> DuelRow] /\ held \in [Tables -> [Duel!Sides -> Nat]] /\ call \in [Tables -> Nat]
      /\ SeenDice(d) /\ StakesOf(d) /\ UNCHANGED <<link, thrown>>
  BY DEF DuelInv, DuelType, DuelDice, Duel!StakesComplete, StakesOf, Duel!BeginRoll
<1>2. CASE duel[d].roll = "sending"
  BY <1>1, <1>2, DuelCloses DEF Duel!BeginRoll
<1>3. CASE duel[d].roll # "sending"
  <2>1. /\ duel[d].state = "rolling" /\ duel[d].roll = "ready" /\ UNCHANGED held
        /\ duel' = [duel EXCEPT ![d].roll = "sending", ![d].attempts = @ + 1]
        /\ call' = [call EXCEPT ![d] = Len(duel[d].rolls) + 1]
    BY <1>3 DEF Duel!BeginRoll, Duel!Slot
  <2>2. /\ r \in DuelRow /\ r.rolls = duel[d].rolls /\ r.actor = duel[d].actor /\ r.roll = "sending"
        /\ r.target = duel[d].target /\ r.state = duel[d].state /\ r.stake = duel[d].stake
    <3>1. duel[d] \in DuelRow
      BY <1>1
    <3>2. duel[d].attempts \in Nat
      BY <3>1 DEF DuelRow
    <3>3. duel[d].attempts + 1 \in Nat
      BY <3>2
    <3>4. QED
      BY <3>1, <3>3 DEF DuelRow
  <2>3. duel' = [duel EXCEPT ![d] = r]
    BY <1>1, <2>1
  <2>4. Len(duel[d].rolls) \in Nat
    <3>1. duel[d].rolls \in Seq(Faces)
      BY <1>1 DEF DuelRow
    <3>2. QED
      BY <3>1
  <2> HIDE DEF r
  <2>5. /\ duel' \in [Tables -> DuelRow] /\ duel'[d] = r /\ call' \in [Tables -> Nat]
        /\ call'[d] = Len(duel[d].rolls) + 1
        /\ \A e \in Tables \ {d} : duel'[e] = duel[e] /\ call'[e] = call[e]
    <3>1. duel' \in [Tables -> DuelRow] /\ duel'[d] = r /\ \A e \in Tables \ {d} : duel'[e] = duel[e]
      BY <1>1, <2>2, <2>3
    <3>2. Len(duel[d].rolls) + 1 \in Nat
      BY <2>4
    <3>3. /\ call' \in [Tables -> Nat] /\ call'[d] = Len(duel[d].rolls) + 1
          /\ \A e \in Tables \ {d} : call'[e] = call[e]
      BY <1>1, <2>1, <3>2
    <3>4. QED
      BY <3>1, <3>3
  <2>6. DuelType' /\ Aside(d) /\ Keeps(d) /\ StakesOf(d)'
    <3>1. DuelType' /\ Aside(d)
      BY <1>1, <2>1, <2>5 DEF DuelInv, DuelType, Aside
    <3>2. Keeps(d) /\ StakesOf(d)'
      BY <1>1, <2>1, <2>2, <2>5 DEF Keeps, StakesOf
    <3>3. QED
      BY <3>1, <3>2
  <2>7. SeenDice(d)'
    BY <1>1, <2>1, <2>2, <2>4, <2>5 DEF SeenDice
  <2>8. QED
    BY <2>6, <2>7, OneDuelMoves
<1>4. QED
  BY <1>2, <1>3

(* What a throw shows: the die of the slot it was called for.              *)
LEMMA DieSeen ==
    ASSUME DuelInv, NEW d \in Tables, NEW f \in Faces, call[d] # 0, Duel!Shown(d, f)
    PROVE  LET n == Len(duel[d].rolls) IN
           /\ n \in Nat /\ thrown' \in [Tables -> Seq([slot : Nat, face : Faces])]
           /\ \A e \in Tables \ {d} : thrown'[e] = thrown[e]
           /\ Len(thrown'[d]) = n + 1
           /\ \A i \in 1 .. n + 1 : thrown'[d][i].slot = i
           /\ \A i \in 1 .. n : thrown'[d][i].face = duel[d].rolls[i]
           /\ thrown'[d][n + 1].face = f
<1> DEFINE n   == Len(duel[d].rolls)
           die == [slot |-> call[d], face |-> f]
           t   == Append(thrown[d], die)
<1>1. thrown \in [Tables -> Seq([slot : Nat, face : Faces])] /\ call \in [Tables -> Nat] /\ duel[d] \in DuelRow
  BY DEF DuelInv, DuelType
<1>2. duel[d].rolls \in Seq(Faces)
  BY <1>1 DEF DuelRow
<1>3. n \in Nat /\ thrown[d] \in Seq([slot : Nat, face : Faces])
  <2>1. n \in Nat
    BY <1>2
  <2>2. thrown[d] \in Seq([slot : Nat, face : Faces])
    BY <1>1
  <2>3. QED
    BY <2>1, <2>2
<1>4. /\ call[d] = n + 1 /\ Len(thrown[d]) = n
      /\ \A i \in 1 .. n : thrown[d][i].slot = i /\ thrown[d][i].face = duel[d].rolls[i]
  BY DEF DuelInv, DuelDice, SeenDice
<1>5. die \in [slot : Nat, face : Faces] /\ die.slot = n + 1 /\ die.face = f
  BY <1>1, <1>4
<1>6. thrown' = [thrown EXCEPT ![d] = t]
  BY <1>1 DEF Duel!Shown
<1> HIDE DEF die, n
<1>7. /\ t \in Seq([slot : Nat, face : Faces]) /\ Len(t) = n + 1 /\ t[n + 1] = die
      /\ \A i \in 1 .. n : t[i] = thrown[d][i]
  BY <1>3, <1>4, <1>5
<1> HIDE DEF t
<1>8. \A i \in 1 .. n + 1 : i \in 1 .. n \/ i = n + 1
  BY <1>3
<1>9. thrown' \in [Tables -> Seq([slot : Nat, face : Faces])] /\ thrown'[d] = t
      /\ \A e \in Tables \ {d} : thrown'[e] = thrown[e]
  BY <1>1, <1>6, <1>7
<1>10. (\A i \in 1 .. n + 1 : t[i].slot = i) /\ (\A i \in 1 .. n : t[i].face = duel[d].rolls[i])
  BY <1>4, <1>5, <1>7, <1>8
<1>11. QED
  BY <1>3, <1>5, <1>7, <1>9, <1>10 DEF n

(* A call ends: nothing is out any more.                                   *)
LEMMA CallEnds ==
    ASSUME DuelInv, NEW d \in Tables, call' = [call EXCEPT ![d] = 0]
    PROVE  call' \in [Tables -> Nat] /\ call'[d] = 0 /\ \A e \in Tables \ {d} : call'[e] = call[e]
BY DEF DuelInv, DuelType

(* The die is thrown, its answer comes, and the row records it.            *)
LEMMA DuelRecords ==
    ASSUME DuelInv, NEW d \in Tables, NEW f \in Faces, Duel!Rolled(d, f), Duel!Standing(d)
    PROVE  DuelInv'
<1> DEFINE rolls == Append(duel[d].rolls, f)
           n == Len(duel[d].rolls)
<1>1. /\ duel \in [Tables -> DuelRow] /\ held \in [Tables -> [Duel!Sides -> Nat]]
      /\ duel[d] \in DuelRow /\ duel[d].state = "rolling" /\ StakesOf(d)
      /\ Duel!Shown(d, f) /\ call[d] # 0 /\ call' = [call EXCEPT ![d] = 0] /\ UNCHANGED link
      /\ Duel!Record(d, rolls)
  BY DEF DuelInv, DuelType, Duel!Rolled, Duel!Standing, Duel!StakesComplete, StakesOf
<1>2. duel[d].rolls \in Seq(Faces)
  BY <1>1 DEF DuelRow
<1>3. /\ rolls \in Seq(Faces) /\ Len(rolls) = n + 1 /\ rolls[n + 1] = f
      /\ \A i \in 1 .. n : rolls[i] = duel[d].rolls[i]
  BY <1>2
<1> HIDE DEF rolls
<1> DEFINE done(w) == [duel[d] EXCEPT !.state = "settled", !.roll = "", !.rolls = rolls, !.attempts = 0, !.winner = w]
           again   == [duel[d] EXCEPT !.roll = "ready", !.rolls = rolls, !.attempts = 0]
           Recorded(r) ==
             /\ r.rolls = rolls /\ r.actor = duel[d].actor /\ r.target = duel[d].target /\ r.stake = duel[d].stake
             /\ r.state \in {"settled", "rolling"}
             /\ held'[d] = [s \in Duel!Sides |-> IF r.state = "rolling" THEN r.stake ELSE 0]
<1> DEFINE Written ==
             /\ held' \in [Tables -> [Duel!Sides -> Nat]] /\ \A e \in Tables \ {d} : held'[e] = held[e]
             /\ \E r \in DuelRow : Recorded(r) /\ duel' = [duel EXCEPT ![d] = r]
<1>4. Written
  <2>1. ASSUME NEW w \in Duel!Sides \cup {Null}, Duel!Finish(d, rolls, w) PROVE Written
    <3>1. done(w) \in DuelRow /\ duel' = [duel EXCEPT ![d] = done(w)]
      BY <1>1, <1>3, <2>1 DEF DuelRow, DuelStates, Duel!Finish
    <3>2. held' \in [Tables -> [Duel!Sides -> Nat]] /\ held'[d] = [s \in Duel!Sides |-> 0] /\ \A e \in Tables \ {d} : held'[e] = held[e]
      BY <1>1, <2>1 DEF Duel!Finish, Duel!Nothing
    <3>3. Recorded(done(w))
      BY <1>1, <3>2 DEF DuelRow
    <3>4. QED
      BY <3>1, <3>2, <3>3
  <2>2. ASSUME duel' = [duel EXCEPT ![d].roll = "ready", ![d].rolls = rolls, ![d].attempts = 0], UNCHANGED held PROVE Written
    <3>1. again \in DuelRow /\ duel' = [duel EXCEPT ![d] = again]
      BY <1>1, <1>3, <2>2 DEF DuelRow
    <3>2. Recorded(again)
      BY <1>1, <2>2 DEF DuelRow, StakesOf
    <3>3. QED
      BY <1>1, <2>2, <3>1, <3>2
  <2>3. QED
    BY <1>1, <2>1, <2>2 DEF Duel!Record, Duel!Sides
<1>5. PICK r \in DuelRow : Recorded(r) /\ duel' = [duel EXCEPT ![d] = r]
  BY <1>4
<1>6. /\ duel' \in [Tables -> DuelRow] /\ duel'[d] = r /\ \A e \in Tables \ {d} : duel'[e] = duel[e]
  BY <1>1, <1>5
<1>7. /\ n \in Nat /\ Len(thrown'[d]) = n + 1 /\ thrown' \in [Tables -> Seq([slot : Nat, face : Faces])]
      /\ (\A i \in 1 .. n + 1 : thrown'[d][i].slot = i) /\ thrown'[d][n + 1].face = f
      /\ (\A i \in 1 .. n : thrown'[d][i].face = duel[d].rolls[i])
      /\ \A e \in Tables \ {d} : thrown'[e] = thrown[e]
  BY <1>1, DieSeen
<1>8. call' \in [Tables -> Nat] /\ call'[d] = 0 /\ \A e \in Tables \ {d} : call'[e] = call[e]
  BY <1>1, CallEnds
<1> HIDE DEF n, done, again
<1>9. DuelType' /\ Aside(d)
  BY <1>1, <1>4, <1>6, <1>7, <1>8 DEF DuelInv, DuelType, Aside
<1>10. StakesOf(d)' /\ Keeps(d)
  BY <1>1, <1>5, <1>6 DEF StakesOf, Keeps, Duel!Active
<1>11. SeenDice(d)'
  <2>1. \A i \in 1 .. n + 1 : i \in 1 .. n \/ i = n + 1
    BY <1>7
  <2>2. \A i \in 1 .. n + 1 : thrown'[d][i].face = rolls[i]
    BY <1>3, <1>7, <2>1
  <2>3. duel'[d].rolls = rolls /\ Len(duel'[d].rolls) = n + 1 /\ duel'[d].state \in {"settled", "rolling"}
    BY <1>3, <1>5, <1>6
  <2>4. QED
    BY <1>7, <1>8, <2>2, <2>3 DEF SeenDice
<1>12. QED
  BY <1>9, <1>10, <1>11, OneDuelMoves

(* A throw ends and its die is not recorded: what was seen is what is       *)
(* recorded, or one more.                                                  *)
LEMMA CallOver ==
    ASSUME DuelInv, NEW d \in Tables, call[d] # 0, call' = [call EXCEPT ![d] = 0],
           thrown' = thrown \/ \E f \in Faces : Duel!Shown(d, f)
    PROVE  LET n == Len(duel[d].rolls) IN
           /\ thrown' \in [Tables -> Seq([slot : Nat, face : Faces])] /\ call' \in [Tables -> Nat]
           /\ \A e \in Tables \ {d} : thrown'[e] = thrown[e] /\ call'[e] = call[e]
           /\ call'[d] = 0
           /\ \A i \in 1 .. Len(thrown'[d]) : thrown'[d][i].slot = i
           /\ \A i \in 1 .. n : thrown'[d][i].face = duel[d].rolls[i]
           /\ Len(thrown'[d]) \in {n, n + 1} /\ (thrown' = thrown => Len(thrown'[d]) = n)
<1>1. call' \in [Tables -> Nat] /\ call'[d] = 0 /\ \A e \in Tables \ {d} : call'[e] = call[e]
  BY CallEnds
<1>2. SeenDice(d) /\ thrown \in [Tables -> Seq([slot : Nat, face : Faces])]
  BY DEF DuelInv, DuelDice, DuelType
<1>3. CASE thrown' = thrown
  BY <1>1, <1>2, <1>3 DEF SeenDice
<1>4. CASE thrown' # thrown /\ \E f \in Faces : Duel!Shown(d, f)
  BY <1>1, <1>4, DieSeen
<1>5. QED
  BY <1>3, <1>4

LEMMA DuelRefused ==
    ASSUME PkConstants, DuelInv, NEW d \in Tables, NEW answer \in {"retry", "lost"}, NEW seen \in BOOLEAN,
           Duel!NotRolled(d, answer, seen)
    PROVE  DuelInv'
<1> DEFINE again == [duel[d] EXCEPT !.roll = "ready"]
<1>1. /\ call[d] # 0 /\ call' = [call EXCEPT ![d] = 0] /\ UNCHANGED link
      /\ thrown' = thrown \/ \E f \in Faces : Duel!Shown(d, f)
      /\ answer = "retry" => thrown' = thrown
      /\ Duel!RollFailed(d, answer = "retry")
  BY DEF Duel!NotRolled, PkConstants
<1>2. SeenDice(d) /\ StakesOf(d) /\ duel \in [Tables -> DuelRow] /\ held \in [Tables -> [Duel!Sides -> Nat]]
  BY DEF DuelInv, DuelDice, DuelType, Duel!StakesComplete, StakesOf
<1> DEFINE recorded == Len(duel[d].rolls)
           known == Len(thrown'[d])
<1>20. /\ \A i \in 1 .. known : thrown'[d][i].slot = i
       /\ \A i \in 1 .. recorded : thrown'[d][i].face = duel[d].rolls[i]
       /\ known \in {recorded, recorded + 1} /\ (thrown' = thrown => known = recorded)
       /\ call'[d] = 0
  BY <1>1, CallOver
<1>21. recorded \in Nat
  <2>1. duel[d].rolls \in Seq(Faces)
    BY <1>2 DEF DuelRow
  <2>2. QED
    BY <2>1
<1>22. ASSUME duel'[d].rolls = duel[d].rolls, duel'[d].roll = "ready" => known = recorded,
              duel'[d].state \notin {"settled", "none", "pending"}
       PROVE  SeenDice(d)'
  <2>1. Len(duel'[d].rolls) = recorded
    BY <1>22
  <2> HIDE DEF recorded, known
  <2>2. QED
    BY <1>20, <1>21, <1>22, <2>1 DEF SeenDice, known
<1> HIDE DEF recorded, known
<1>3. CASE UNCHANGED <<held, duel>>
  <2>1. SeenDice(d)'
    <3>1. duel'[d].rolls = duel[d].rolls /\ duel'[d].roll = duel[d].roll /\ duel'[d].state = duel[d].state
      BY <1>3
    <3>2. duel[d].roll # "ready" /\ duel[d].state \notin {"settled", "none", "pending"}
      BY <1>1, <1>2 DEF SeenDice
    <3>3. QED
      BY <1>22, <3>1, <3>2
  <2>2. DuelType' /\ Aside(d) /\ Keeps(d) /\ StakesOf(d)'
    BY <1>1, <1>2, <1>3, CallOver DEF DuelInv, DuelType, Aside, Keeps, StakesOf
  <2>3. QED
    BY <2>1, <2>2, OneDuelMoves
<1>4. CASE Duel!Close(d, "cancelled")
  <2>1. /\ duel' \in [Tables -> DuelRow] /\ held' \in [Tables -> [Duel!Sides -> Nat]]
        /\ \A e \in Tables \ {d} : duel'[e] = duel[e] /\ held'[e] = held[e]
        /\ StakesOf(d)' /\ Keeps(d)
        /\ duel'[d].rolls = duel[d].rolls /\ duel'[d].roll = "" /\ duel'[d].state = "cancelled"
    BY <1>4, ClosedDuel
  <2>2. SeenDice(d)'
    <3>1. duel'[d].rolls = duel[d].rolls /\ duel'[d].roll = "" /\ duel'[d].state = "cancelled"
      BY <2>1
    <3>2. QED
      BY <1>22, <3>1
  <2>3. DuelType' /\ Aside(d)
    BY <1>1, <2>1, CallOver DEF DuelInv, DuelType, Aside
  <2>4. QED
    BY <2>1, <2>2, <2>3, OneDuelMoves
<1>5. CASE answer = "retry" /\ Duel!Standing(d) /\ duel' = [duel EXCEPT ![d].roll = "ready"] /\ UNCHANGED held
  <2>1. /\ again \in DuelRow /\ again.rolls = duel[d].rolls /\ again.actor = duel[d].actor
        /\ again.target = duel[d].target /\ again.state = "rolling" /\ again.stake = duel[d].stake
    BY <1>2, <1>5 DEF DuelRow, Duel!Standing
  <2>2. duel' = [duel EXCEPT ![d] = again]
    BY <1>2, <1>5
  <2> HIDE DEF again
  <2>3. duel' \in [Tables -> DuelRow] /\ duel'[d] = again /\ \A e \in Tables \ {d} : duel'[e] = duel[e]
    BY <1>2, <2>1, <2>2
  <2>4. DuelType' /\ Aside(d)
    BY <1>1, <1>5, <2>3, CallOver DEF DuelInv, DuelType, Aside
  <2>5. Keeps(d) /\ StakesOf(d)'
    BY <1>2, <1>5, <2>1, <2>3 DEF Keeps, StakesOf, Duel!Standing, Duel!Active
  <2>6. SeenDice(d)'
    <3>1. duel'[d].rolls = duel[d].rolls /\ duel'[d].state = "rolling"
      BY <2>1, <2>3
    <3>2. thrown' = thrown
      BY <1>1, <1>5
    <3>3. known = recorded
      BY <1>20, <3>2
    <3>4. QED
      BY <1>22, <3>1, <3>3
  <2>7. QED
    BY <2>4, <2>5, <2>6, OneDuelMoves
<1>6. QED
  BY <1>1, <1>3, <1>4, <1>5 DEF Duel!RollFailed

(* The answer comes too late for the row, or the process ends.             *)
LEMMA DuelForgets ==
    ASSUME DuelInv, NEW d \in Tables,
           \/ \E f \in Faces : Duel!Rolled(d, f) /\ ~Duel!Standing(d)
           \/ \E seen \in BOOLEAN : Duel!Crash(d, seen)
    PROVE  DuelInv'
<1>1. /\ call[d] # 0 /\ call' = [call EXCEPT ![d] = 0] /\ UNCHANGED <<link, duel, held>>
      /\ thrown' = thrown \/ \E f \in Faces : Duel!Shown(d, f)
  BY DEF Duel!Rolled, Duel!Crash
<1>2. SeenDice(d) /\ StakesOf(d)
  BY DEF DuelInv, DuelDice, Duel!StakesComplete, StakesOf
<1>3. SeenDice(d)'
  <2> DEFINE n == Len(duel[d].rolls)
             k == Len(thrown'[d])
  <2>1. /\ \A i \in 1 .. k : thrown'[d][i].slot = i
        /\ \A i \in 1 .. n : thrown'[d][i].face = duel[d].rolls[i]
        /\ k \in {n, n + 1} /\ call'[d] = 0
    BY <1>1, CallOver
  <2>2. duel'[d] = duel[d]
    BY <1>1
  <2>3. duel[d].roll # "ready" /\ duel[d].state \notin {"settled", "none", "pending"}
    BY <1>1, <1>2 DEF SeenDice
  <2>4. QED
    BY <2>1, <2>2, <2>3 DEF SeenDice
<1>4. DuelType' /\ Aside(d) /\ Keeps(d) /\ StakesOf(d)'
  BY <1>1, <1>2, CallOver DEF DuelInv, DuelType, Aside, Keeps, StakesOf
<1>5. QED
  BY <1>3, <1>4, OneDuelMoves

LEMMA DuelStep == ASSUME PkConstants, DuelInv, [Duel!Next]_(Duel!vars) PROVE DuelInv'
<1>1. ASSUME UNCHANGED <<duel, held, call, thrown>>, link' \in [Handles -> Pair \cup {Null}] PROVE DuelInv'
  <2>1. DuelType'
    BY <1>1 DEF DuelInv, DuelType
  <2>2. DuelDice'
    BY <1>1 DEF DuelInv, DuelDice, SeenDice
  <2>3. Duel!OneDuelEach' /\ Duel!StakesComplete'
    BY <1>1 DEF DuelInv, Duel!OneDuelEach, Duel!StakesComplete
  <2>4. QED
    BY <2>1, <2>2, <2>3 DEF DuelInv
<1>2. CASE UNCHANGED Duel!vars \/ \E a \in Handles, u \in Pair \cup {Null} : Duel!Relink(a, u)
  <2>1. UNCHANGED <<duel, held, call, thrown>>
    BY <1>2 DEF Duel!vars, Duel!Relink
  <2>2. link' \in [Handles -> Pair \cup {Null}]
    BY <1>2 DEF Duel!vars, Duel!Relink, DuelInv, DuelType
  <2>3. QED
    BY <1>1, <2>1, <2>2
<1>3. ASSUME NEW d \in Tables, NEW f \in Faces, Duel!Rolled(d, f) PROVE DuelInv'
  BY <1>3, DuelRecords, DuelForgets
<1>4. QED
  BY <1>2, <1>3, DuelCreate, DuelAnswered, DuelBegins, DuelRefused, DuelForgets DEF Duel!Next

LEMMA DuelStart == ASSUME PkConstants, Duel!Init PROVE DuelInv
<1>1. /\ duel = [d \in Tables |-> Duel!NoRow] /\ held = [d \in Tables |-> [s \in Duel!Sides |-> 0]]
      /\ call = [d \in Tables |-> 0] /\ thrown = [d \in Tables |-> <<>>]
      /\ link \in [Handles -> Pair]
  BY DEF Duel!Init
<1>2. Duel!NoRow \in DuelRow
  BY DEF Duel!NoRow, DuelRow, DuelStates, Party
<1>3. DuelType
  BY <1>1, <1>2 DEF DuelType
<1>4. DuelDice
  <2> SUFFICES ASSUME NEW d \in Tables PROVE SeenDice(d)
    BY DEF DuelDice
  <2>1. /\ Len(duel[d].rolls) = 0 /\ Len(thrown[d]) = 0 /\ call[d] = 0
        /\ duel[d].roll = "" /\ duel[d].state = "none"
    BY <1>1 DEF Duel!NoRow
  <2>4. duel[d].rolls = <<>> /\ thrown[d] = <<>>
    BY <1>1 DEF Duel!NoRow
  <2>2. \A i \in 1 .. Len(thrown[d]) : thrown[d][i].slot = i
    BY <2>4
  <2>3. \A i \in 1 .. Len(duel[d].rolls) : thrown[d][i].face = duel[d].rolls[i]
    BY <2>4
  <2>5. QED
    BY <2>1, <2>2, <2>3 DEF SeenDice
<1>5. Duel!OneDuelEach /\ Duel!StakesComplete
  BY <1>1 DEF Duel!OneDuelEach, Duel!StakesComplete, Duel!Active, Duel!NoRow
<1>6. QED
  BY <1>3, <1>4, <1>5 DEF DuelInv

LEMMA DuelTells == ASSUME DuelInv PROVE Duel!NeverRerolls
<1> SUFFICES ASSUME DuelInv, NEW d \in Tables
             PROVE  /\ \A i, j \in DOMAIN thrown[d] : thrown[d][i].slot = thrown[d][j].slot => i = j
                    /\ duel[d].state = "settled" => duel[d].rolls = [i \in DOMAIN thrown[d] |-> thrown[d][i].face]
  BY DEF Duel!NeverRerolls
<1>1. SeenDice(d) /\ thrown[d] \in Seq([slot : Nat, face : Faces]) /\ duel[d] \in DuelRow
  BY DEF DuelInv, DuelDice, DuelType
<1>2. DOMAIN thrown[d] = 1 .. Len(thrown[d])
  BY <1>1
<1>3. duel[d].rolls \in Seq(Faces)
  BY <1>1 DEF DuelRow
<1>4. duel[d].rolls = [i \in 1 .. Len(duel[d].rolls) |-> duel[d].rolls[i]]
  BY <1>3
<1>5. \A i, j \in DOMAIN thrown[d] : thrown[d][i].slot = thrown[d][j].slot => i = j
  BY <1>1, <1>2 DEF SeenDice
<1>6. ASSUME duel[d].state = "settled" PROVE duel[d].rolls = [i \in DOMAIN thrown[d] |-> thrown[d][i].face]
  BY <1>1, <1>2, <1>4, <1>6 DEF SeenDice
<1>7. QED
  BY <1>5, <1>6

(* For any number of duels, members and accounts, whatever answers are     *)
(* lost, refused or late and whenever the process ends: nobody is in two   *)
(* open duels (pk.py, _busy), the stakes of an open duel are complete and  *)
(* nothing stays behind (_accept, _close, _finish), and no die is thrown    *)
(* twice: a settled duel was decided by all the dice the group has seen     *)
(* (bot_pk.py, _pk_roll).                                                  *)
THEOREM DuelNeverRerolls ==
    ASSUME PkConstants
    PROVE  Duel!Spec => [](Duel!NeverRerolls /\ Duel!OneDuelEach /\ Duel!StakesComplete)
<1>1. Duel!Init => DuelInv
  BY DuelStart
<1>2. DuelInv => Duel!NeverRerolls
  BY DuelTells
<1>3. DuelInv => Duel!OneDuelEach /\ Duel!StakesComplete
  BY DEF DuelInv
<1>4. DuelInv /\ [Duel!Next]_(Duel!vars) => DuelInv'
  BY DuelStep
<1>5. QED
  BY <1>1, <1>2, <1>3, <1>4, PTL DEF Duel!Spec

(*-------------------------------------------------------------------------*)
(* Niuniu.                                                                 *)

NiuniuConstants == Room!NiuniuAssumption /\ ErrorsRefuse

RoomType ==
    /\ link \in [Phones -> Company \cup {Null}] /\ seats \in [Company -> Phones \cup {Null}]
    /\ wallet \in [Company -> Int] /\ held \in [Company -> Int] /\ won \subseteq Company
    /\ banker = [tg |-> banker.tg, uid |-> banker.uid]
    /\ phase \in {"none", "lobby", "settled", "cancelled"}

(* What a seat has frozen, and that a wallet lacks just that.              *)
Share(seated, u) == IF seated[u] = Null THEN 0 ELSE Room!Required(u)
Seating(seated, wallets, shares) ==
    /\ banker.uid \in Company /\ seated[banker.uid] # Null
    /\ \A u \in Company : shares[u] = Share(seated, u) /\ wallets[u] = Purse - Share(seated, u)
    /\ IsFiniteSet({u \in Company : seated[u] # Null})

RoomMoney ==
    /\ phase = "none" => \A u \in Company : wallet[u] = Purse /\ held[u] = 0 /\ seats[u] = Null
    /\ phase = "lobby" => Seating(seats, wallet, held)

(* The report of the room, which its end has queued.                       *)
RoomReport ==
    /\ phase \in {"none", "lobby"} => report.state = "" /\ cleanup.state = "" /\ posted = 0 /\ card \in {"none", "lobby"}
    /\ report = [state |-> report.state, attempts |-> report.attempts]
    /\ cleanup = [state |-> cleanup.state, attempts |-> cleanup.attempts]
    /\ posted \in {0, 1}
    /\ report.state \in {"", "pending", "retry", "sending", "failed"} => posted = 0
    /\ report.state = "sent" => posted = 1
    /\ cleanup.state = "deleting" \/ card = "gone" => report.state = "sent"

RoomInv == RoomType /\ RoomMoney /\ RoomReport /\ Room!PairsSettled

LEMMA CountGuests == \A S : Room!Cardinality(S) = Cardinality(S)
BY Zenon DEF Room!Cardinality, Cardinality

(* Two stakes for each guest the banker beat, less one of every guest.     *)
LEMMA BankersShare ==
    ASSUME NEW s \in Int, NEW p \in Int, NEW lost \in Int, NEW beaten \in Int
    PROVE  p - 4 * s + ((4 - (lost + beaten)) * s + 2 * s * lost) - p = s * (lost - beaten)
OBVIOUS

LEMMA FinishSettles ==
    ASSUME NiuniuConstants, RoomInv, phase = "lobby", NEW seated \in [Company -> Phones \cup {Null}],
           NEW wallets \in [Company -> Int], NEW shares, Seating(seated, wallets, shares),
           Room!Finish(seated, wallets, shares)
    PROVE  /\ phase' \in {"settled", "cancelled"} /\ UNCHANGED banker /\ Room!Queue
           /\ wallet' \in [Company -> Int] /\ held' \in [Company -> Int] /\ won' \subseteq Company
           /\ seats' \in [Company -> Phones \cup {Null}] /\ Room!PairsSettled'
<1> DEFINE present == {u \in Company : seated[u] # Null}
           guests  == present \ {banker.uid}
           safe    == \A u \in present : link[seated[u]] = u /\ shares[u] = Room!Required(u)
           unused  == (4 - Room!Cardinality(guests)) * Ante
<1>1. Ante \in Nat /\ Purse \in Nat
  BY DEF NiuniuConstants, Room!NiuniuAssumption
<1>2. CASE ~safe
  <2>1. /\ phase' = "cancelled" /\ wallet' = [u \in Company |-> wallet[u] + held[u]] /\ held' = [u \in Company |-> 0]
        /\ Room!Queue /\ UNCHANGED <<banker, seats, won>>
    BY <1>2 DEF Room!Finish, Room!Refund
  <2>2. \A u \in Company : wallet[u] \in Int /\ held[u] \in Int /\ wallet[u] + held[u] = Purse
    BY <1>1 DEF RoomInv, RoomType, RoomMoney, Seating
  <2>3. Room!PairsSettled'
    BY <2>1, <2>2 DEF Room!PairsSettled
  <2>4. QED
    BY <2>1, <2>2, <2>3 DEF RoomInv, RoomType
<1>3. CASE safe
  <2>1. PICK beat \in SUBSET guests :
           /\ phase' = "settled" /\ won' = beat /\ seats' = seated /\ held' = [u \in Company |-> 0]
           /\ wallet' = [u \in Company |->
                  wallets[u] + (IF u \in beat THEN 2 * Ante
                                ELSE IF u = banker.uid
                                THEN unused + 2 * Ante * Room!Cardinality(guests \ beat) ELSE 0)]
           /\ Room!Queue /\ UNCHANGED banker
    <3>1. IF ~safe THEN Room!Refund
          ELSE \E beat \in SUBSET guests :
            /\ phase' = "settled" /\ won' = beat /\ seats' = seated
            /\ held' = [u \in Company |-> 0]
            /\ wallet' = [u \in Company |->
                  wallets[u] + (IF u \in beat THEN 2 * Ante
                                ELSE IF u = banker.uid
                                THEN unused + 2 * Ante * Room!Cardinality(guests \ beat) ELSE 0)]
            /\ Room!Queue
            /\ UNCHANGED banker
      BY Zenon DEF Room!Finish
    <3> HIDE DEF safe, guests, unused
    <3>2. QED
      BY <1>3, <3>1
  <2>2. IsFiniteSet(guests) /\ IsFiniteSet(beat) /\ IsFiniteSet(guests \ beat)
    BY FS_Subset DEF Seating
  <2>3. /\ Cardinality(guests) \in Nat /\ Cardinality(beat) \in Nat /\ Cardinality(guests \ beat) \in Nat
        /\ Cardinality(guests) = Cardinality(guests \ beat) + Cardinality(beat)
    <3> HIDE DEF guests
    <3>1. guests \cap beat = beat
      BY <2>1
    <3>2. Cardinality(guests \ beat) = Cardinality(guests) - Cardinality(beat)
      BY <2>2, <3>1, FS_Difference
    <3>3. Cardinality(guests) \in Nat /\ Cardinality(beat) \in Nat /\ Cardinality(guests \ beat) \in Nat
      BY <2>2, FS_CardinalityType
    <3>4. QED
      BY <3>2, <3>3
  <2>11. /\ Room!Cardinality(guests) = Cardinality(guests) /\ Room!Cardinality(beat) = Cardinality(beat)
         /\ Room!Cardinality(guests \ beat) = Cardinality(guests \ beat)
    BY CountGuests
  <2>4. Room!Players' = present
    BY <2>1 DEF Room!Players
  <2> HIDE DEF present
  <2>5. ASSUME NEW u \in Company
        PROVE  wallet'[u] - Purse =
                 IF u \in guests THEN (IF u \in beat THEN Ante ELSE -Ante)
                 ELSE IF u = banker.uid THEN Ante * (Cardinality(guests \ beat) - Cardinality(beat)) ELSE 0
    <3>1. /\ wallets[u] = Purse - Share(seated, u)
          /\ wallet'[u] = wallets[u] + (IF u \in beat THEN 2 * Ante
                                        ELSE IF u = banker.uid
                                        THEN unused + 2 * Ante * Room!Cardinality(guests \ beat) ELSE 0)
      BY <2>1 DEF Seating
    <3>2. CASE u \in guests
      <4>1. Share(seated, u) = Ante
        BY <3>2 DEF Share, Room!Required, present
      <4>2. QED
        BY <1>1, <3>1, <3>2, <4>1
    <3>3. CASE u = banker.uid
      <4>1. Share(seated, u) = 4 * Ante /\ u \notin beat /\ u \notin guests
        BY <3>3 DEF Share, Room!Required, Seating
      <4> DEFINE lost == Cardinality(guests \ beat)
                 beaten == Cardinality(beat)
      <4>2. unused = (4 - (lost + beaten)) * Ante
        BY <2>3, <2>11
      <4>3. lost \in Int /\ beaten \in Int /\ Ante \in Int /\ Purse \in Int
        BY <1>1, <2>3
      <4> HIDE DEF lost, beaten, unused
      <4>4. wallet'[u] - Purse = Purse - 4 * Ante + ((4 - (lost + beaten)) * Ante + 2 * Ante * lost) - Purse
        BY <1>1, <2>11, <3>1, <3>3, <4>1, <4>2, <4>3 DEF lost
      <4>5. wallet'[u] - Purse = Ante * (lost - beaten)
        BY <4>3, <4>4, BankersShare
      <4>6. QED
        BY <3>3, <4>1, <4>5 DEF lost, beaten
    <3>4. CASE u \notin guests /\ u # banker.uid
      <4>1. Share(seated, u) = 0
        BY <3>4 DEF Share, present
      <4>2. QED
        BY <1>1, <3>1, <3>4, <4>1
    <3>5. QED
      BY <3>2, <3>3, <3>4
  <2>6. Room!PairsSettled'
    <3>1. phase' = "settled" /\ won' = beat /\ banker' = banker
      BY <2>1
    <3>2. (Room!Players \ {banker.uid})' = guests
      BY <2>4, <3>1
    <3> HIDE DEF guests
    <3>3. \A u \in Company : wallet'[u] - Purse =
                 IF u \in guests THEN (IF u \in beat THEN Ante ELSE -Ante)
                 ELSE IF u = banker.uid THEN Ante * (Room!Cardinality(guests \ beat) - Room!Cardinality(beat)) ELSE 0
      BY <2>5, <2>11
    <3>4. QED
      BY <3>1, <3>2, <3>3 DEF Room!PairsSettled
  <2>7. \A u \in Company : wallets[u] + (IF u \in beat THEN 2 * Ante ELSE IF u = banker.uid
                                 THEN unused + 2 * Ante * Room!Cardinality(guests \ beat) ELSE 0) \in Int
    BY <1>1, <2>3, <2>11
  <2>8. wallet' \in [Company -> Int] /\ held' \in [Company -> Int]
    <3> HIDE DEF unused, guests
    <3>1. held' \in [Company -> Int]
      BY <2>1
    <3>2. wallet' \in [Company -> Int]
      BY <2>1, <2>7
    <3>3. QED
      BY <3>1, <3>2
  <2>9. won' \subseteq Company
    BY <2>1 DEF present
  <2>10. QED
    BY <2>1, <2>6, <2>8, <2>9
<1>4. QED
  BY <1>2, <1>3
(* A room that is over keeps its money; the report is another matter.       *)
LEMMA RoomOver ==
    ASSUME RoomInv, UNCHANGED <<wallet, phase, banker, seats, held, won>>, link' \in [Phones -> Company \cup {Null}]
    PROVE  RoomType' /\ RoomMoney' /\ Room!PairsSettled'
<1>1. RoomType' /\ RoomMoney'
  BY DEF RoomInv, RoomType, RoomMoney, Seating, Share, Room!Required
<1>2. Room!Players' = Room!Players
  BY DEF Room!Players
<1>3. Room!PairsSettled'
  BY <1>2 DEF RoomInv, Room!PairsSettled
<1>4. QED
  BY <1>1, <1>3

LEMMA NiuniuCreate ==
    ASSUME NiuniuConstants, RoomInv, NEW a \in Phones, Room!Create(a)
    PROVE  RoomInv'
<1> DEFINE u == link[a]
<1>1. /\ u \in Company /\ phase = "none" /\ phase' = "lobby" /\ banker' = [tg |-> a, uid |-> u]
      /\ seats' = [seats EXCEPT ![u] = a] /\ wallet' = [wallet EXCEPT ![u] = @ - 4 * Ante]
      /\ held' = [held EXCEPT ![u] = 4 * Ante] /\ UNCHANGED <<link, won, card, report, cleanup, posted>>
  BY DEF Room!Create, Room!post, RoomInv, RoomType
<1>2. Ante \in Nat /\ Purse \in Nat /\ a # Null /\ banker'.uid = u
  BY <1>1 DEF NiuniuConstants, Room!NiuniuAssumption
<1> HIDE DEF u
<1>3. RoomType'
  BY <1>1, <1>2 DEF RoomInv, RoomType
<1>4. RoomMoney'
  <2>1. \A v \in Company : seats'[v] # Null <=> v = u
    BY <1>1, <1>2 DEF RoomInv, RoomType, RoomMoney
  <2>2. {v \in Company : seats'[v] # Null} = {u}
    BY <1>1, <2>1
  <2>3. IsFiniteSet({v \in Company : seats'[v] # Null})
    BY <2>2, FS_Singleton
  <2>4. \A v \in Company : held'[v] = (IF v = u THEN 4 * Ante ELSE 0)
                         /\ wallet'[v] = Purse - (IF v = u THEN 4 * Ante ELSE 0)
    BY <1>1, <1>2 DEF RoomInv, RoomType, RoomMoney
  <2>5. \A v \in Company : Share(seats, v)' = (IF v = u THEN 4 * Ante ELSE 0)
    BY <1>2, <2>1 DEF Share, Room!Required
  <2>6. Seating(seats, wallet, held)'
    BY <1>1, <1>2, <2>1, <2>3, <2>4, <2>5 DEF Seating, Share, Room!Required
  <2>7. QED
    BY <1>1, <2>6 DEF RoomMoney
<1>5. RoomReport' /\ Room!PairsSettled'
  BY <1>1 DEF RoomInv, RoomReport, Room!PairsSettled
<1>6. QED
  BY <1>3, <1>4, <1>5 DEF RoomInv

(* A room that ends queues its report, and pays.                           *)
LEMMA RoomEnds ==
    ASSUME RoomInv, phase = "lobby", phase' \in {"settled", "cancelled"}, UNCHANGED <<banker, link, posted, card>>, Room!Queue,
           wallet' \in [Company -> Int], held' \in [Company -> Int], won' \subseteq Company,
           seats' \in [Company -> Phones \cup {Null}], Room!PairsSettled'
    PROVE  RoomInv'
<1>1. RoomType' /\ RoomMoney'
  BY DEF RoomInv, RoomType, RoomMoney
<1>2. RoomReport'
  BY DEF RoomInv, RoomReport, Room!Queue, Room!Job
<1>3. QED
  BY <1>1, <1>2 DEF RoomInv

LEMMA RoomRefunds ==
    ASSUME NiuniuConstants, RoomInv, phase = "lobby", Room!Refund, UNCHANGED <<link, card, posted>>
    PROVE  RoomInv'
<1>1. /\ phase' = "cancelled" /\ wallet' = [u \in Company |-> wallet[u] + held[u]] /\ held' = [u \in Company |-> 0]
      /\ Room!Queue /\ UNCHANGED <<banker, seats, won>>
  BY DEF Room!Refund
<1>2. \A u \in Company : wallet[u] \in Int /\ held[u] \in Int /\ wallet[u] + held[u] = Purse
  BY DEF RoomInv, RoomType, RoomMoney, Seating, NiuniuConstants, Room!NiuniuAssumption
<1>3. Room!PairsSettled'
  BY <1>1, <1>2 DEF Room!PairsSettled
<1>4. wallet' \in [Company -> Int] /\ held' \in [Company -> Int]
  BY <1>1, <1>2
<1>5. QED
  BY <1>1, <1>3, <1>4, RoomEnds DEF RoomInv, RoomType

LEMMA NiuniuJoin ==
    ASSUME NiuniuConstants, RoomInv, NEW a \in Phones, Room!Join(a)
    PROVE  RoomInv'
<1> DEFINE u == link[a]
           seated  == [seats EXCEPT ![u] = a]
           wallets == [wallet EXCEPT ![u] = @ - Ante]
           shares  == [held EXCEPT ![u] = Ante]
<1>1. /\ u \in Company /\ phase = "lobby" /\ seats[u] = Null /\ UNCHANGED <<link, card, posted>>
      /\ \/ Room!Finish(seated, wallets, shares)
         \/ /\ seats' = seated /\ wallet' = wallets /\ held' = shares
            /\ UNCHANGED <<phase, banker, won, report, cleanup>>
  BY DEF Room!Join, RoomInv, RoomType
<1>2. Ante \in Nat /\ Purse \in Nat /\ a # Null
  BY DEF NiuniuConstants, Room!NiuniuAssumption
<1>3. Seating(seats, wallet, held) /\ seats \in [Company -> Phones \cup {Null}] /\ wallet \in [Company -> Int] /\ held \in [Company -> Int]
  BY <1>1 DEF RoomInv, RoomMoney, RoomType
<1> HIDE DEF u
<1>4. u # banker.uid
  BY <1>1, <1>3 DEF Seating
<1>5. /\ seated \in [Company -> Phones \cup {Null}] /\ wallets \in [Company -> Int] /\ shares \in [Company -> Int]
      /\ seated[u] = a /\ \A v \in Company \ {u} : seated[v] = seats[v] /\ wallets[v] = wallet[v] /\ shares[v] = held[v]
      /\ wallets[u] = wallet[u] - Ante /\ shares[u] = Ante
  BY <1>1, <1>2, <1>3
<1> HIDE DEF seated, wallets, shares
<1>6. Seating(seated, wallets, shares)
  <2>1. {v \in Company : seated[v] # Null} = {v \in Company : seats[v] # Null} \cup {u}
    BY <1>1, <1>2, <1>5
  <2>2. IsFiniteSet({v \in Company : seated[v] # Null})
    <3>1. IsFiniteSet({v \in Company : seats[v] # Null})
      BY <1>3 DEF Seating
    <3>2. QED
      BY <2>1, <3>1, FS_AddElement, Zenon
  <2>3. Share(seated, u) = Ante /\ Share(seats, u) = 0
    BY <1>1, <1>2, <1>4, <1>5 DEF Share, Room!Required
  <2>4. \A v \in Company \ {u} : Share(seated, v) = Share(seats, v)
    BY <1>5 DEF Share
  <2>5. \A v \in Company : shares[v] = Share(seated, v) /\ wallets[v] = Purse - Share(seated, v)
    BY <1>1, <1>2, <1>3, <1>5, <2>3, <2>4 DEF Seating
  <2>6. banker.uid \in Company /\ seated[banker.uid] # Null
    BY <1>3, <1>4, <1>5 DEF Seating
  <2>7. QED
    BY <2>2, <2>5, <2>6 DEF Seating
<1>7. CASE Room!Finish(seated, wallets, shares)
  BY <1>1, <1>5, <1>6, <1>7, FinishSettles, RoomEnds
<1>8. CASE /\ seats' = seated /\ wallet' = wallets /\ held' = shares
           /\ UNCHANGED <<phase, banker, won, report, cleanup>>
  <2>1. RoomType'
    BY <1>1, <1>5, <1>8 DEF RoomInv, RoomType
  <2>2. Seating(seats, wallet, held)'
    BY <1>6, <1>8 DEF Seating, Share, Room!Required
  <2>3. RoomMoney' /\ RoomReport' /\ Room!PairsSettled'
    BY <1>1, <1>8, <2>2 DEF RoomInv, RoomMoney, RoomReport, Room!PairsSettled
  <2>4. QED
    BY <2>1, <2>3 DEF RoomInv
<1>9. QED
  BY <1>1, <1>7, <1>8

LEMMA NiuniuLaunch ==
    ASSUME NiuniuConstants, RoomInv, NEW a \in Phones, Room!Launch(a)
    PROVE  RoomInv'
<1>1. phase = "lobby" /\ Room!Finish(seats, wallet, held) /\ UNCHANGED <<link, card, posted>>
  BY DEF Room!Launch
<1>2. /\ Seating(seats, wallet, held) /\ seats \in [Company -> Phones \cup {Null}]
      /\ wallet \in [Company -> Int] /\ held \in [Company -> Int]
  BY <1>1 DEF RoomInv, RoomMoney, RoomType
<1>3. QED
  BY <1>1, <1>2, FinishSettles, RoomEnds

LEMMA NiuniuPublish ==
    ASSUME NiuniuConstants, RoomInv, NEW answer, Room!Publish(answer)
    PROVE  RoomInv'
<1>1. CASE answer = "sent"
  <2>1. /\ UNCHANGED <<wallet, phase, banker, seats, held, won, link, report, cleanup, posted>>
        /\ phase # "none" /\ (card = "none" \/ card = "lobby")
        /\ card' = (IF phase = "lobby" THEN "lobby" ELSE "final")
    BY <1>1 DEF Room!Publish, Room!room
  <2>2. RoomReport'
    BY <2>1 DEF RoomInv, RoomReport, RoomType
  <2>3. link' \in [Phones -> Company \cup {Null}]
    BY <2>1 DEF RoomInv, RoomType
  <2>4. QED
    BY <2>1, <2>2, <2>3, RoomOver DEF RoomInv
<1>2. CASE answer # "sent"
  BY <1>2, RoomRefunds DEF Room!Publish
<1>3. QED
  BY <1>1, <1>2

(* The report and the deletion of the card, and the links.                 *)
NiuniuPost ==
    \/ Room!ClaimReport \/ Room!ClaimDelete
    \/ \E answer \in {"ok", "retry", "refused", "lost"}, seen \in BOOLEAN : Room!ReportAnswered(answer, seen)
    \/ \E seen \in BOOLEAN : Room!ReportLost(seen)
    \/ \E answer \in {"ok", "retry", "refused"}, gone \in BOOLEAN : Room!Deleted(answer, gone)
    \/ \E gone \in BOOLEAN : Room!DeleteLost(gone)
    \/ \E a \in Phones, u \in Company \cup {Null} : Room!Relink(a, u)
    \/ UNCHANGED Room!vars

LEMMA NiuniuPosts ==
    ASSUME NiuniuConstants, RoomInv, NiuniuPost
    PROVE  RoomInv'
<1>1. UNCHANGED <<wallet, phase, banker, seats, held, won>>
  BY DEF NiuniuPost, Room!vars, Room!room, Room!ClaimReport, Room!ClaimDelete, Room!ReportAnswered, Room!ReportLost, Room!Deleted, Room!DeleteLost, Room!Relink
<1>2. link' \in [Phones -> Company \cup {Null}]
  BY DEF NiuniuPost, Room!vars, Room!ClaimReport, Room!ClaimDelete, Room!ReportAnswered, Room!ReportLost, Room!Deleted, Room!DeleteLost, Room!Relink,
         RoomInv, RoomType
<1>3. RoomReport'
  <2> USE <1>1
  <2>1. CASE Room!ClaimReport
    BY <2>1 DEF Room!ClaimReport, RoomInv, RoomReport, RoomType
  <2>2. CASE Room!ClaimDelete
    BY <2>2 DEF Room!ClaimDelete, Room!MayDelete, RoomInv, RoomReport, RoomType
  <2>3. ASSUME NEW answer \in {"ok", "retry", "refused", "lost"}, NEW seen \in BOOLEAN, Room!ReportAnswered(answer, seen)
        PROVE  RoomReport'
    <3>1. /\ report.state = "sending" /\ UNCHANGED card
          /\ answer = "ok" => seen
          /\ answer \in {"refused", "retry"} => ~seen
          /\ posted' = posted + (IF seen THEN 1 ELSE 0)
          /\ cleanup' = IF answer = "ok" /\ cleanup.state = "waiting" THEN Room!Job("pending") ELSE cleanup
      BY <2>3 DEF Room!ReportAnswered, NiuniuConstants
    <3>2. /\ report' = [state |-> report'.state, attempts |-> report'.attempts]
          /\ report'.state \in {"sent", "retry", "failed", "unknown"}
          /\ report'.state = "sent" <=> answer = "ok"
          /\ report'.state \in {"retry", "failed"} => answer \in {"refused", "retry"}
      BY <2>3 DEF Room!ReportAnswered, Room!AfterReport, RoomInv, RoomReport
    <3>3. phase \notin {"none", "lobby"} /\ posted = 0 /\ cleanup.state # "deleting" /\ card # "gone"
      BY <3>1 DEF RoomInv, RoomReport
    <3>4. /\ cleanup' = [state |-> cleanup'.state, attempts |-> cleanup'.attempts] /\ cleanup'.state # "deleting"
      BY <3>1, <3>3 DEF RoomInv, RoomReport, Room!Job
    <3>5. posted' = IF seen THEN 1 ELSE 0
      BY <3>1, <3>3
    <3>6. QED
      BY <3>1, <3>2, <3>3, <3>4, <3>5 DEF RoomReport
  <2>4. ASSUME NEW seen \in BOOLEAN, Room!ReportLost(seen) PROVE RoomReport'
    BY <2>4 DEF Room!ReportLost, RoomInv, RoomReport, RoomType
  <2>5. ASSUME NEW answer \in {"ok", "retry", "refused"}, NEW gone \in BOOLEAN, Room!Deleted(answer, gone) PROVE RoomReport'
    BY <2>5 DEF Room!Deleted, RoomInv, RoomReport, RoomType
  <2>6. ASSUME NEW gone \in BOOLEAN, Room!DeleteLost(gone) PROVE RoomReport'
    BY <2>6 DEF Room!DeleteLost, RoomInv, RoomReport, RoomType
  <2>7. CASE UNCHANGED <<card, report, cleanup, posted>>
    BY <2>7 DEF RoomInv, RoomReport
  <2>8. QED
    BY <2>1, <2>2, <2>3, <2>4, <2>5, <2>6, <2>7 DEF NiuniuPost, Room!Relink, Room!vars, Room!post
<1>4. QED
  BY <1>1, <1>2, <1>3, RoomOver DEF RoomInv

LEMMA RoomStart == ASSUME NiuniuConstants, Room!Init PROVE RoomInv
<1>1. RoomType /\ RoomMoney
  <2>1. /\ wallet = [u \in Company |-> Purse] /\ held = [u \in Company |-> 0] /\ seats = [u \in Company |-> Null]
        /\ link \in [Phones -> Company] /\ phase = "none" /\ won = {} /\ banker = [tg |-> Null, uid |-> Null]
    BY DEF Room!Init, Room!Nobody
  <2>2. Purse \in Int
    BY DEF NiuniuConstants, Room!NiuniuAssumption
  <2>3. RoomType
    BY <2>1, <2>2 DEF RoomType
  <2>4. RoomMoney
    BY <2>1 DEF RoomMoney
  <2>5. QED
    BY <2>3, <2>4
<1>2. RoomReport
  BY DEF Room!Init, Room!Job, RoomReport
<1>3. Room!PairsSettled
  BY DEF Room!Init, Room!PairsSettled
<1>4. QED
  BY <1>1, <1>2, <1>3 DEF RoomInv

LEMMA RoomStep == ASSUME NiuniuConstants, RoomInv, [Room!Next]_(Room!vars) PROVE RoomInv'
<1>1. CASE Room!Expire
  BY <1>1, RoomRefunds DEF Room!Expire
<1>2. QED
  BY <1>1, NiuniuCreate, NiuniuJoin, NiuniuLaunch, NiuniuPublish, NiuniuPosts DEF Room!Next, NiuniuPost

LEMMA RoomTells == ASSUME RoomInv PROVE Room!PairsSettled /\ Room!CardUntilReport
<1>1. RoomInv => Room!PairsSettled
  BY DEF RoomInv
<1>2. ASSUME RoomInv PROVE Room!CardUntilReport
  <2>1. posted \in {0, 1} /\ (card = "gone" => posted = 1)
    BY <1>2 DEF RoomInv, RoomReport
  <2>2. posted <= 1
    BY <2>1
  <2>3. QED
    BY <2>1, <2>2 DEF Room!CardUntilReport
<1>3. QED
  BY <1>1, <1>2

(* For any number of members: each guest of a room has won or lost one      *)
(* stake against the banker alone, whatever the room had frozen, and a room *)
(* that ended otherwise costs nobody anything (niuniu.py, _finish and       *)
(* _refund); and the card is not taken away before the one report that      *)
(* replaces it is in the group (niuniu_delivery.py).                        *)
THEOREM NiuniuPairsSettled ==
    ASSUME NiuniuConstants
    PROVE  Room!Spec => [](Room!PairsSettled /\ Room!CardUntilReport)
<1>1. Room!Init => RoomInv
  BY RoomStart
<1>2. RoomInv /\ [Room!Next]_(Room!vars) => RoomInv'
  BY RoomStep
<1>3. RoomInv => Room!PairsSettled /\ Room!CardUntilReport
  BY RoomTells
<1>4. QED
  BY <1>1, <1>2, <1>3, PTL DEF Room!Spec

(*-------------------------------------------------------------------------*)
(* The scratch card: rows and cards, then cells, then the schedule.         *)
IsRow(x) ==
    /\ x = [state |-> x.state, expires |-> x.expires, revision |-> x.revision, rendered |-> x.rendered,
            send |-> x.send, leased |-> x.leased, attempts |-> x.attempts, card |-> x.card]
    /\ x.revision \in Nat /\ x.rendered \in Int /\ x.card \in BOOLEAN
IsCard(x) == x = [copies |-> x.copies, shows |-> x.shows] /\ x.copies \in Nat /\ x.shows \in Int
IsCell(x) == x = [user |-> x.user, tg |-> x.tg, reward |-> x.reward]
IsIntent(x) == x = [round |-> x.round, cell |-> x.cell, user |-> x.user, tg |-> x.tg, state |-> x.state,
                    expires |-> x.expires]

ScratchConstants == Nine!ScratchAssumption /\ ~IsCell(Null) /\ ~IsIntent(Null)

(* A first card is on its way only to a group that has none, and only one   *)
(* publication is on its way, whose revision is newer than what is shown.   *)
CardsInv ==
    /\ round = [r \in Tables |-> round[r]] /\ card = [r \in Tables |-> card[r]]
    /\ \A r \in Tables :
          /\ IsRow(round[r]) /\ IsCard(card[r])
          /\ card[r].copies <= 1 /\ round[r].rendered <= card[r].shows
          /\ round[r].send = "pending" => card[r].copies = 0
    /\ inflight # Null =>
          /\ inflight.round \in Tables /\ inflight.revision \in Nat
          /\ round[inflight.round].leased = TRUE
          /\ round[inflight.round].rendered < inflight.revision
          /\ inflight.first <=> ~round[inflight.round].card
          /\ inflight.first => round[inflight.round].send = "sending" /\ card[inflight.round].copies = 0

(* What only concerns the state and the revision of a row.                 *)
Aged(x, y) ==
    /\ IsRow(y) /\ y.send = x.send /\ y.card = x.card /\ y.leased = x.leased /\ y.rendered = x.rendered

LEMMA Stepped ==
  ASSUME NEW x, IsRow(x), NEW s, NEW v \in Nat,
         NEW y, y = [x EXCEPT !.state = s, !.revision = v] \/ y = [x EXCEPT !.revision = v, !.state = s]
  PROVE  Aged(x, y)
<1>1. y.send = x.send /\ y.card = x.card /\ y.leased = x.leased /\ y.rendered = x.rendered /\ y.revision = v
  BY DEF IsRow
<1>2. y = [state |-> y.state, expires |-> y.expires, revision |-> y.revision, rendered |-> y.rendered,
           send |-> y.send, leased |-> y.leased, attempts |-> y.attempts, card |-> y.card]
  BY DEF IsRow
<1>3. QED
  BY <1>1, <1>2 DEF IsRow, Aged

Dropped(x, y) ==
    IsRow(y) /\ y.send = "unknown" /\ y.card = x.card /\ y.leased = x.leased /\ y.rendered = x.rendered

LEMMA GivenUp ==
  ASSUME NEW x, IsRow(x), NEW s PROVE Dropped(x, [x EXCEPT !.send = "unknown", !.state = s])
<1>1. PICK y : y = [x EXCEPT !.send = "unknown", !.state = s]
  OBVIOUS
<1>2. /\ y.card = x.card /\ y.leased = x.leased /\ y.rendered = x.rendered /\ y.revision = x.revision
      /\ y.send = "unknown"
  BY <1>1 DEF IsRow
<1>3. y = [state |-> y.state, expires |-> y.expires, revision |-> y.revision, rendered |-> y.rendered,
           send |-> y.send, leased |-> y.leased, attempts |-> y.attempts, card |-> y.card]
  BY <1>1 DEF IsRow
<1>4. QED
  BY <1>1, <1>2, <1>3 DEF IsRow, Dropped

LEMMA SameAged == ASSUME NEW x, IsRow(x) PROVE Aged(x, x)
BY DEF Aged

LEMMA AgedKeeps ==
  ASSUME CardsInv, UNCHANGED <<card, inflight>>, round' = [r \in Tables |-> round'[r]],
         \A r \in Tables : Aged(round[r], round'[r])
  PROVE  CardsInv'
BY DEF CardsInv, Aged

LEMMA ClosedAged == ASSUME NEW x, IsRow(x) PROVE Aged(x, Nine!Closed(x))
<1>1. x.revision + 1 \in Nat
  BY DEF IsRow
<1>2. Nine!Closed(x) = [x EXCEPT !.state = "closed", !.revision = x.revision + 1]
  BY DEF Nine!Closed
<1>3. QED
  BY <1>1, <1>2, Stepped

LEMMA ExpireAged == ASSUME CardsInv, NEW r \in Tables PROVE Aged(round[r], Nine!AfterExpire[r])
<1>1. IsRow(round[r])
  BY DEF CardsInv
<1>2. Nine!AfterExpire[r] = round[r] \/ Nine!AfterExpire[r] = Nine!Closed(round[r])
  BY DEF Nine!AfterExpire
<1>3. QED
  BY <1>1, <1>2, ClosedAged, SameAged

LEMMA InsertAged ==
  ASSUME CardsInv, NEW q \in Tables, Nine!Insert(q)
  PROVE  round' = [r \in Tables |-> round'[r]] /\ \A r \in Tables : Aged(round[r], round'[r])
<1>1. round' = [Nine!AfterExpire EXCEPT ![q].state = "pending", ![q].expires = clock + Duration]
  BY DEF Nine!Insert
<1>2. PICK f : f = Nine!AfterExpire
  OBVIOUS
<1>3. f = [r \in Tables |-> f[r]]
  BY <1>2 DEF Nine!AfterExpire
<1>4. \A r \in Tables : Aged(round[r], f[r])
  BY <1>2, ExpireAged
<1>5. round' = [f EXCEPT ![q] = [f[q] EXCEPT !.state = "pending", !.expires = clock + Duration]]
  BY <1>1, <1>2, <1>3
<1>6. PICK new : new = [f[q] EXCEPT !.state = "pending", !.expires = clock + Duration]
  OBVIOUS
<1>7. IsRow(f[q])
  BY <1>4 DEF Aged
<1>8. /\ new.send = f[q].send /\ new.card = f[q].card /\ new.leased = f[q].leased /\ new.rendered = f[q].rendered
      /\ new.revision = f[q].revision
  BY <1>6, <1>7 DEF IsRow
<1>9. new = [state |-> new.state, expires |-> new.expires, revision |-> new.revision, rendered |-> new.rendered,
             send |-> new.send, leased |-> new.leased, attempts |-> new.attempts, card |-> new.card]
  BY <1>6, <1>7 DEF IsRow
<1>10. Aged(round[q], new)
  BY <1>4, <1>7, <1>8, <1>9 DEF Aged, IsRow
<1>11. QED
  BY <1>3, <1>4, <1>5, <1>6, <1>10

LEMMA MaxOfTwo == ASSUME NEW a \in Int, NEW b \in Int PROVE Nine!Max({a, b}) = IF a >= b THEN a ELSE b
BY DEF Nine!Max

LEMMA CardsStart == ASSUME ScratchConstants, Nine!Init PROVE CardsInv
<1>1. IsRow(Nine!NoRound) /\ Nine!NoRound.rendered = -1 /\ -1 \in Int
  BY DEF Nine!NoRound, IsRow
<1>2. PICK none : none = [copies |-> 0, shows |-> -1]
  OBVIOUS
<1>3. IsCard(none) /\ none.copies = 0 /\ none.shows = -1
  BY <1>2 DEF IsCard
<1>4. round = [r \in Tables |-> Nine!NoRound] /\ card = [r \in Tables |-> none] /\ inflight = Null
  BY <1>2 DEF Nine!Init
<1>5. QED
  BY <1>1, <1>3, <1>4 DEF CardsInv

LEMMA CardsStep == ASSUME ScratchConstants, ErrorsRefuse, CardsInv, [Nine!Next]_(Nine!vars) PROVE CardsInv'
<1> DEFINE keeps == UNCHANGED <<round, card, inflight>> => CardsInv'
<1>1. keeps
  BY DEF CardsInv
<1>2. ASSUME NEW r \in Tables, Nine!Create(r) PROVE CardsInv'
  BY <1>2, InsertAged, AgedKeeps DEF Nine!Create, Nine!show
<1>3. ASSUME NEW r \in Tables, Nine!BeginPublish(r) PROVE CardsInv'
  <2>1. PICK row : row = round[r]
    OBVIOUS
  <2>2. IsRow(row) /\ inflight = Null /\ row.rendered < row.revision /\ (row.card \/ row.send = "pending")
    BY <1>3, <2>1 DEF Nine!BeginPublish, CardsInv
  <2>3. PICK new : new = [row EXCEPT !.leased = TRUE, !.attempts = IF row.card THEN row.attempts ELSE row.attempts + 1,
                                     !.send = IF row.card THEN "sent" ELSE "sending"]
    OBVIOUS
  <2>4. IsRow(new) /\ new.leased = TRUE /\ new.rendered = row.rendered /\ new.card = row.card /\ new.send # "pending"
    BY <2>2, <2>3 DEF IsRow
  <2>5. round' = [round EXCEPT ![r] = new] /\ card' = card
    BY <1>3, <2>1, <2>3 DEF Nine!BeginPublish, CardsInv
  <2>6. inflight' = [round |-> r, revision |-> row.revision, first |-> ~row.card]
    BY <1>3, <2>1 DEF Nine!BeginPublish
  <2>7. row.revision \in Nat /\ row.card \in BOOLEAN
    BY <2>2 DEF IsRow
  <2>8. ~row.card => card[r].copies = 0
    BY <2>1, <2>2 DEF CardsInv
  <2>9. round' = [s \in Tables |-> round'[s]] /\ card' = [s \in Tables |-> card'[s]]
    BY <2>5 DEF CardsInv
  <2>10. ASSUME NEW s \in Tables
         PROVE  /\ IsRow(round'[s]) /\ IsCard(card'[s])
                /\ card'[s].copies <= 1 /\ round'[s].rendered <= card'[s].shows
                /\ round'[s].send = "pending" => card'[s].copies = 0
    BY <2>1, <2>4, <2>5 DEF CardsInv
  <2>11. inflight'.round = r /\ inflight'.revision = row.revision /\ inflight'.first = ~row.card
    BY <2>6
  <2>12. round'[r] = new /\ card'[r] = card[r] /\ (~row.card => new.send = "sending")
    BY <2>2, <2>3, <2>5 DEF CardsInv, IsRow
  <2>13. QED
    BY <2>2, <2>4, <2>7, <2>8, <2>9, <2>10, <2>11, <2>12 DEF CardsInv
<1>4. ASSUME NEW r \in Tables, Nine!LeaseEnds(r) PROVE CardsInv'
  <2>1. IsRow(round[r])
    BY DEF CardsInv
  <2>2. PICK new : new = [round[r] EXCEPT !.leased = FALSE]
    OBVIOUS
  <2>3. /\ IsRow(new) /\ new.rendered = round[r].rendered /\ new.card = round[r].card
        /\ new.send = round[r].send
    BY <2>1, <2>2 DEF IsRow
  <2>4. round' = [round EXCEPT ![r] = new] /\ card' = card /\ inflight' = inflight /\ (inflight # Null => inflight.round # r)
    BY <1>4, <2>2 DEF Nine!LeaseEnds, Nine!show, CardsInv
  <2>5. QED
    BY <2>3, <2>4 DEF CardsInv
<1>5. ASSUME NEW a \in Handles, NEW r \in Tables, NEW c \in Cells, NEW q \in Requests, Nine!Select(a, r, c, q) PROVE CardsInv'
  BY <1>1, <1>5 DEF Nine!Select, Nine!show
<1>6. ASSUME NEW a \in Handles, NEW p \in Requests, NEW w \in Rewards, Nine!Confirm(a, p, w) PROVE CardsInv'
  <2>1. PICK r : r = intents[p].round
    OBVIOUS
  <2>2. PICK e : round' = [round EXCEPT ![r].revision = @ + 1, ![r].state = e] /\ UNCHANGED <<card, inflight>>
    BY <1>6, <2>1 DEF Nine!Confirm, Nine!show
  <2>3. CASE r \in Tables
    <3>1. IsRow(round[r])
      BY <2>3 DEF CardsInv
    <3>2. PICK new : new = [round[r] EXCEPT !.revision = round[r].revision + 1, !.state = e]
      OBVIOUS
    <3>3. Aged(round[r], new)
      <4>1. round[r].revision + 1 \in Nat
        BY <3>1 DEF IsRow
      <4>2. QED
        BY <3>1, <3>2, <4>1, Stepped
    <3>4. round' = [round EXCEPT ![r] = new]
      BY <2>2, <2>3, <3>2 DEF CardsInv
    <3>5. \A s \in Tables : Aged(round[s], round[s])
      BY DEF CardsInv, Aged
    <3>6. QED
      BY <2>2, <3>3, <3>4, <3>5, AgedKeeps DEF CardsInv
  <2>4. CASE r \notin Tables
    <3>1. round' = round
      BY <2>2, <2>4 DEF CardsInv
    <3>2. QED
      BY <1>1, <2>2, <3>1
  <2>5. QED
    BY <2>3, <2>4
<1>7. ASSUME Nine!ExpireDue PROVE CardsInv'
  <2>1. PICK f : f = [r \in Tables |-> IF Nine!Expired(r) \/ (~switched /\ round[r].state \in Nine!Active)
                                       THEN Nine!Closed(round[r]) ELSE round[r]]
    OBVIOUS
  <2>2. \A r \in Tables : Aged(round[r], f[r])
    <3>1. ASSUME NEW r \in Tables PROVE Aged(round[r], f[r])
      <4>1. IsRow(round[r])
        BY DEF CardsInv
      <4>2. f[r] = round[r] \/ f[r] = Nine!Closed(round[r])
        BY <2>1
      <4>3. QED
        BY <4>1, <4>2, ClosedAged, SameAged
    <3>2. QED
      BY <3>1
  <2>3. /\ round' = [r \in Tables |-> IF ~f[r].card /\ f[r].send = "sending" /\ ~f[r].leased
            THEN [f[r] EXCEPT !.send = "unknown", !.state = IF @ = "closed" THEN @ ELSE "unknown"] ELSE f[r]]
        /\ UNCHANGED <<card, inflight>>
    BY <1>7, <2>1 DEF Nine!ExpireDue, Nine!show
  <2>4. ASSUME NEW r \in Tables
        PROVE  /\ IsRow(round'[r]) /\ round'[r].card = round[r].card /\ round'[r].leased = round[r].leased
               /\ round'[r].rendered = round[r].rendered
               /\ round'[r].send = round[r].send \/ (round'[r].send = "unknown" /\ ~round[r].leased)
    <3>1. Aged(round[r], f[r])
      BY <2>2
    <3>2. CASE ~(~f[r].card /\ f[r].send = "sending" /\ ~f[r].leased)
      BY <2>3, <3>1, <3>2 DEF Aged
    <3>3. CASE ~f[r].card /\ f[r].send = "sending" /\ ~f[r].leased
      <4>1. PICK e : e = IF f[r].state = "closed" THEN f[r].state ELSE "unknown"
        OBVIOUS
      <4>2. round'[r] = [f[r] EXCEPT !.send = "unknown", !.state = e]
        BY <2>3, <3>3, <4>1
      <4>3. IsRow(f[r])
        BY <3>1 DEF Aged
      <4>4. Dropped(f[r], [f[r] EXCEPT !.send = "unknown", !.state = e])
        BY <4>3, GivenUp, Zenon
      <4>5. QED
        BY <3>1, <3>3, <4>2, <4>4 DEF Aged, Dropped
    <3>4. QED
      BY <3>2, <3>3
  <2>5. round' = [r \in Tables |-> round'[r]]
    BY <2>3
  <2>6. ASSUME NEW r \in Tables
        PROVE  /\ IsRow(round'[r]) /\ IsCard(card'[r])
               /\ card'[r].copies <= 1 /\ round'[r].rendered <= card'[r].shows
               /\ round'[r].send = "pending" => card'[r].copies = 0
    <3>1. /\ IsCard(card[r]) /\ card[r].copies <= 1 /\ round[r].rendered <= card[r].shows
          /\ round[r].send = "pending" => card[r].copies = 0
      BY DEF CardsInv
    <3>2. card' = card
      BY <2>3
    <3>3. /\ IsRow(round'[r]) /\ round'[r].rendered = round[r].rendered
          /\ round'[r].send = round[r].send \/ round'[r].send = "unknown"
      BY <2>4
    <3>4. QED
      BY <3>1, <3>2, <3>3
  <2>7. CASE inflight # Null
    <3>1. PICK r \in Tables : r = inflight.round
      BY <2>7 DEF CardsInv
    <3>2. round'[r].leased = TRUE /\ round'[r].send = round[r].send
      BY <2>4, <2>7, <3>1 DEF CardsInv
    <3>3. round'[r].rendered = round[r].rendered /\ round'[r].card = round[r].card
      BY <2>4, <3>1
    <3>4. inflight' = inflight /\ card' = card
      BY <2>3
    <3>5. card = [q \in Tables |-> card[q]]
      BY DEF CardsInv
    <3>6. /\ inflight.revision \in Nat /\ round[r].rendered < inflight.revision
          /\ inflight.first <=> ~round[r].card
          /\ inflight.first => round[r].send = "sending" /\ card[r].copies = 0
      BY <2>7, <3>1 DEF CardsInv
    <3>7. QED
      BY <2>5, <2>6, <3>1, <3>2, <3>3, <3>4, <3>5, <3>6 DEF CardsInv
  <2>8. CASE inflight = Null
    BY <2>3, <2>5, <2>6, <2>8 DEF CardsInv
  <2>9. QED
    BY <2>7, <2>8
<1>8. ASSUME Nine!Arrives(inflight), inflight # Null
      PROVE  LET r == inflight.round IN
             /\ \A s \in Tables \ {r} : card'[s] = card[s]
             /\ card' = [s \in Tables |-> card'[s]] /\ IsCard(card'[r])
             /\ card'[r].shows = inflight.revision
             /\ card'[r].copies = IF inflight.first THEN card[r].copies + 1 ELSE card[r].copies
             /\ card'[r].copies <= 1
  <2>1. PICK r : r = inflight.round
    OBVIOUS
  <2>2. r \in Tables /\ inflight.revision \in Nat /\ card = [s \in Tables |-> card[s]]
    BY <1>8, <2>1 DEF CardsInv
  <2>3. PICK n : n = IF inflight.first THEN card[r].copies + 1 ELSE card[r].copies
    OBVIOUS
  <2>4. card' = [card EXCEPT ![r] = [copies |-> n, shows |-> inflight.revision]]
    BY <1>8, <2>1, <2>2, <2>3 DEF Nine!Arrives
  <2>5. n \in Nat /\ n <= 1
    BY <1>8, <2>1, <2>2, <2>3 DEF CardsInv, IsCard
  <2>6. card'[r] = [copies |-> n, shows |-> inflight.revision]
    BY <2>2, <2>4
  <2>7. QED
    BY <2>1, <2>2, <2>3, <2>4, <2>5, <2>6 DEF IsCard
<1>9. ASSUME Nine!Published PROVE CardsInv'
  <2>1. PICK r : r = inflight.round
    OBVIOUS
  <2>2. PICK row : row = round[r]
    OBVIOUS
  <2>3. /\ inflight # Null /\ r \in Tables /\ IsRow(row) /\ inflight.revision \in Nat
        /\ row.rendered < inflight.revision /\ Nine!Arrives(inflight) /\ inflight' = Null
    BY <1>9, <2>1, <2>2 DEF Nine!Published, CardsInv
  <2>4. PICK m : m = Nine!Max({row.rendered, inflight.revision})
    OBVIOUS
  <2>5. m = inflight.revision
    <3>1. row.rendered \in Int /\ inflight.revision \in Int
      BY <2>3 DEF IsRow
    <3>2. m = IF row.rendered >= inflight.revision THEN row.rendered ELSE inflight.revision
      BY <2>4, <3>1, MaxOfTwo
    <3>3. QED
      BY <2>3, <3>1, <3>2
  <2>6. PICK e : e = IF row.state = "pending" THEN "active" ELSE row.state
    OBVIOUS
  <2>7. PICK new : new = [row EXCEPT !.card = TRUE, !.send = "sent", !.leased = FALSE, !.state = e, !.rendered = m]
    OBVIOUS
  <2>8. round' = [round EXCEPT ![r] = new]
    BY <1>9, <2>1, <2>2, <2>3, <2>4, <2>6, <2>7 DEF Nine!Published, CardsInv
  <2>9. IsRow(new) /\ new.send = "sent" /\ new.rendered = inflight.revision
    <3>1. new.send = "sent" /\ new.rendered = inflight.revision /\ new.card = TRUE /\ new.revision = row.revision
      BY <2>3, <2>5, <2>7 DEF IsRow
    <3>2. new = [state |-> new.state, expires |-> new.expires, revision |-> new.revision, rendered |-> new.rendered,
                 send |-> new.send, leased |-> new.leased, attempts |-> new.attempts, card |-> new.card]
      BY <2>3, <2>7 DEF IsRow
    <3>3. inflight.revision \in Int /\ row.revision \in Nat
      BY <2>3 DEF IsRow
    <3>4. QED
      BY <3>1, <3>2, <3>3 DEF IsRow
  <2>10. QED
    BY <1>8, <2>1, <2>3, <2>8, <2>9 DEF CardsInv
<1>10. ASSUME NEW f \in {"retry", "failed", "unknown"}, NEW arrived \in BOOLEAN, Nine!PublishFailed(f, arrived) PROVE CardsInv'
  <2>1. PICK r : r = inflight.round
    OBVIOUS
  <2>2. PICK row : row = round[r]
    OBVIOUS
  <2>3. /\ inflight # Null /\ r \in Tables /\ IsRow(row) /\ inflight.revision \in Nat
        /\ row.rendered < inflight.revision /\ inflight' = Null
        /\ IF arrived THEN f = "unknown" /\ Nine!Arrives(inflight) ELSE card' = card
    BY <1>10, <2>1, <2>2, ErrorsRefuse DEF Nine!PublishFailed, CardsInv
  <2>4. PICK retry \in BOOLEAN : retry = (f = "retry" /\ row.attempts < MaxAttempts /\ clock < row.expires)
    OBVIOUS
  <2>5. PICK e : e = IF retry THEN "pending" ELSE IF f = "unknown" THEN "unknown" ELSE "closed"
    OBVIOUS
  <2>6. PICK d : d = IF retry THEN "pending" ELSE IF f = "unknown" THEN "unknown" ELSE "failed"
    OBVIOUS
  <2>7. PICK new : new = IF row.card THEN [row EXCEPT !.leased = FALSE]
                         ELSE [row EXCEPT !.leased = FALSE, !.state = e, !.send = d]
    OBVIOUS
  <2>8. round' = [round EXCEPT ![r] = new]
    BY <1>10, <2>1, <2>2, <2>4, <2>5, <2>6, <2>7, Zenon DEF Nine!PublishFailed
  <2>9. /\ IsRow(new) /\ new.rendered = row.rendered
        /\ new.send = "pending" => IF row.card THEN row.send = "pending" ELSE ~arrived
    BY <2>3, <2>4, <2>6, <2>7 DEF IsRow
  <2>10. new.send = "pending" => card'[r].copies = 0
    <3>1. CASE arrived
      <4>1. new.send = "pending" => row.card /\ row.send = "pending"
        BY <2>9, <3>1
      <4>2. row.card => ~inflight.first
        BY <2>1, <2>2, <2>3 DEF CardsInv
      <4>3. card'[r].copies = IF inflight.first THEN card[r].copies + 1 ELSE card[r].copies
        BY <1>8, <2>1, <2>3, <3>1
      <4>4. row.send = "pending" => card[r].copies = 0
        BY <2>2, <2>3 DEF CardsInv
      <4>5. QED
        BY <4>1, <4>2, <4>3, <4>4
    <3>2. CASE ~arrived
      <4>1. card' = card
        BY <2>3, <3>2
      <4>2. ~row.card => card[r].copies = 0
        BY <2>1, <2>2, <2>3 DEF CardsInv
      <4>3. row.send = "pending" => card[r].copies = 0
        BY <2>2, <2>3 DEF CardsInv
      <4>4. QED
        BY <2>9, <4>1, <4>2, <4>3
    <3>3. QED
      BY <3>1, <3>2
  <2>11. /\ card' = [s \in Tables |-> card'[s]] /\ IsCard(card'[r]) /\ card'[r].copies <= 1
         /\ row.rendered <= card'[r].shows /\ \A s \in Tables \ {r} : card'[s] = card[s]
    <3>1. CASE arrived
      BY <1>8, <2>1, <2>3, <3>1 DEF IsRow
    <3>2. CASE ~arrived
      BY <2>2, <2>3, <3>2 DEF CardsInv
    <3>3. QED
      BY <3>1, <3>2
  <2>12. QED
    BY <2>2, <2>3, <2>8, <2>9, <2>10, <2>11 DEF CardsInv
<1>11. ASSUME NEW arrived \in BOOLEAN, Nine!Restart(arrived) PROVE CardsInv'
  <2>1. round' = round /\ inflight' = Null /\ IF inflight # Null /\ arrived THEN Nine!Arrives(inflight) ELSE card' = card
    BY <1>11 DEF Nine!Restart, Nine!play
  <2>2. CASE inflight # Null /\ arrived
    <3>1. PICK r : r = inflight.round
      OBVIOUS
    <3>2. /\ r \in Tables /\ round[r].rendered < inflight.revision /\ inflight.revision \in Nat
          /\ inflight.first => round[r].send = "sending"
      BY <2>2, <3>1 DEF CardsInv
    <3>3. /\ \A s \in Tables \ {r} : card'[s] = card[s]
          /\ card' = [s \in Tables |-> card'[s]] /\ IsCard(card'[r])
          /\ card'[r].shows = inflight.revision
          /\ card'[r].copies = IF inflight.first THEN card[r].copies + 1 ELSE card[r].copies
          /\ card'[r].copies <= 1
      BY <1>8, <2>1, <2>2, <3>1
    <3>4. round[r].send = "pending" => ~inflight.first
      BY <2>2, <3>1, <3>2 DEF CardsInv
    <3>5. QED
      BY <2>1, <3>2, <3>3, <3>4 DEF CardsInv, IsRow
  <2>3. CASE ~(inflight # Null /\ arrived)
    BY <2>1, <2>3 DEF CardsInv
  <2>4. QED
    BY <2>2, <2>3
<1>12. ASSUME NEW s \in Slots, NEW r \in Tables, Nine!AutoCreate(s, r) PROVE CardsInv'
  <2>1. (round' = Nine!AfterExpire \/ Nine!Insert(r)) /\ UNCHANGED <<card, inflight>>
    BY <1>12 DEF Nine!AutoCreate, Nine!show
  <2>2. CASE round' = Nine!AfterExpire
    <3>1. round' = [q \in Tables |-> round'[q]]
      BY <2>2 DEF Nine!AfterExpire
    <3>2. QED
      BY <2>1, <2>2, <3>1, ExpireAged, AgedKeeps
  <2>3. CASE Nine!Insert(r)
    BY <2>1, <2>3, InsertAged, AgedKeeps
  <2>4. QED
    BY <2>1, <2>2, <2>3
<1>13. ASSUME Nine!Schedule \/ Nine!Toggle \/ Nine!Tick \/ (\E a \in Handles, u \in Pair \cup {Null} : Nine!Relink(a, u)) PROVE CardsInv'
  BY <1>1, <1>13 DEF Nine!Schedule, Nine!Toggle, Nine!Tick, Nine!Relink, Nine!play, Nine!show
<1>14. ASSUME UNCHANGED Nine!vars PROVE CardsInv'
  BY <1>1, <1>14 DEF Nine!vars, Nine!play, Nine!show
<1>15. QED
  BY <1>2, <1>3, <1>4, <1>5, <1>6, <1>7, <1>9, <1>10, <1>11, <1>12, <1>13, <1>14 DEF Nine!Next

(* A scratched cell has one intent that is done, of who scratched it, and   *)
(* no other cell has any.                                                   *)
Done(q, r, c) ==
    intents[q] # Null /\ intents[q].state = "done" /\ intents[q].round = r /\ intents[q].cell = c

PressInv ==
    /\ cells = [r \in Tables |-> [c \in Cells |-> cells[r][c]]]
    /\ intents = [q \in Requests |-> intents[q]]
    /\ \A q \in Requests : intents[q] # Null =>
          IsIntent(intents[q]) /\ intents[q].round \in Tables /\ intents[q].cell \in Cells
    /\ \A r \in Tables, c \in Cells :
          /\ cells[r][c] # Null => \E q \in Requests : Done(q, r, c) /\ intents[q].user = cells[r][c].user
          /\ \A q \in Requests : Done(q, r, c) => cells[r][c] # Null
          /\ \A p, q \in Requests : Done(p, r, c) /\ Done(q, r, c) => p = q

(* What a second press does, with the names of its round, cell and person. *)
Pays(a, p, w, r, c, u) ==
    /\ IsIntent(intents[p]) /\ intents[p].round = r /\ intents[p].cell = c
    /\ intents[p].user = u /\ intents[p].state = "pending"
    /\ cells[r][c] = Null /\ Nine!Used(r, u, a) < PerPerson
    /\ cells' = [cells EXCEPT ![r][c] = [user |-> u, tg |-> a, reward |-> w]]
    /\ intents' = [intents EXCEPT ![p].state = "done"]

LEMMA ConfirmPays ==
  ASSUME PressInv, NEW a \in Handles, NEW p \in Requests, NEW w \in Rewards, Nine!Confirm(a, p, w)
  PROVE  \E r \in Tables, c \in Cells : \E u : Pays(a, p, w, r, c, u)
<1>1. PICK i : i = intents[p]
  OBVIOUS
<1>2. i # Null /\ i.state = "pending" /\ i.user = link[a]
  BY <1>1 DEF Nine!Confirm
<1>3. IsIntent(i) /\ i.round \in Tables /\ i.cell \in Cells
  BY <1>1, <1>2 DEF PressInv
<1>4. Pays(a, p, w, i.round, i.cell, link[a])
  BY <1>1, <1>2, <1>3 DEF Nine!Confirm, Pays
<1>5. QED
  BY <1>3, <1>4

LEMMA PressStart == ASSUME ScratchConstants, Nine!Init PROVE PressInv
BY DEF Nine!Init, PressInv, Done

LEMMA PressSelect ==
  ASSUME ScratchConstants, PressInv, NEW a \in Handles, NEW r \in Tables, NEW c \in Cells, NEW q \in Requests,
         Nine!Select(a, r, c, q)
  PROVE  PressInv'
<1>1. PICK mine : mine = [round |-> r, cell |-> c, user |-> link[a], tg |-> a, state |-> "pending",
                          expires |-> Nine!Min({clock + Answer, round[r].expires})]
  OBVIOUS
<1>2. PICK dropped : dropped = {p \in Requests : intents[p] # Null /\ intents[p].round = r
                                /\ intents[p].state = "pending" /\ Nine!Same(intents[p], link[a], a)}
  OBVIOUS
<1>3. intents' = [p \in Requests |-> IF p = q THEN mine
                    ELSE IF p \in dropped THEN [intents[p] EXCEPT !.state = "cancelled"] ELSE intents[p]]
  BY <1>1, <1>2 DEF Nine!Select
<1>4. IsIntent(mine) /\ mine.round = r /\ mine.cell = c /\ mine.state = "pending" /\ mine # Null
  BY <1>1 DEF IsIntent, ScratchConstants
<1>5. intents[q] = Null /\ cells' = cells
  BY DEF Nine!Select
<1>6. ASSUME NEW p \in Requests
      PROVE  /\ intents'[p] # Null => IsIntent(intents'[p]) /\ intents'[p].round \in Tables /\ intents'[p].cell \in Cells
             /\ \A s \in Tables, d \in Cells : Done(p, s, d)' <=> Done(p, s, d)
             /\ \A s \in Tables, d \in Cells : Done(p, s, d) => intents'[p] = intents[p]
  <2>1. CASE p = q
    BY <1>3, <1>4, <1>5, <2>1 DEF Done
  <2>2. CASE p # q /\ p \in dropped
    <3>1. PICK x : x = intents[p]
      OBVIOUS
    <3>2. PICK y : y = [x EXCEPT !.state = "cancelled"]
      OBVIOUS
    <3>3. IsIntent(x) /\ x.round \in Tables /\ x.cell \in Cells /\ x.state = "pending"
      BY <1>2, <2>2, <3>1 DEF PressInv
    <3>4. IsIntent(y) /\ y.round = x.round /\ y.cell = x.cell /\ y.state = "cancelled"
      BY <3>2, <3>3 DEF IsIntent
    <3>5. intents'[p] = y
      BY <1>3, <2>2, <3>1, <3>2
    <3>6. QED
      BY <3>1, <3>3, <3>4, <3>5 DEF Done
  <2>3. CASE p # q /\ p \notin dropped
    BY <1>3, <2>3 DEF Done, PressInv
  <2>4. QED
    BY <2>1, <2>2, <2>3
<1>7. intents' = [p \in Requests |-> intents'[p]]
  BY <1>3
<1>8. ASSUME NEW s \in Tables, NEW d \in Cells, cells'[s][d] # Null
      PROVE  \E p \in Requests : Done(p, s, d)' /\ intents'[p].user = cells'[s][d].user
  <2>1. PICK p \in Requests : Done(p, s, d) /\ intents[p].user = cells[s][d].user
    BY <1>5, <1>8 DEF PressInv
  <2>2. QED
    BY <1>5, <1>6, <2>1
<1>9. ASSUME NEW s \in Tables, NEW d \in Cells
      PROVE  /\ \A p \in Requests : Done(p, s, d)' => cells'[s][d] # Null
             /\ \A p, o \in Requests : Done(p, s, d)' /\ Done(o, s, d)' => p = o
  BY <1>5, <1>6 DEF PressInv
<1>10. QED
  BY <1>5, <1>6, <1>7, <1>8, <1>9 DEF PressInv

LEMMA PressConfirm ==
  ASSUME ScratchConstants, PressInv, NEW a \in Handles, NEW p \in Requests, NEW w \in Rewards,
         NEW r \in Tables, NEW c \in Cells, NEW u, Pays(a, p, w, r, c, u)
  PROVE  PressInv'
<1>1. PICK paid : paid = [user |-> u, tg |-> a, reward |-> w]
  OBVIOUS
<1>2. IsCell(paid) /\ paid # Null /\ paid.user = u
  BY <1>1 DEF IsCell, ScratchConstants
<1>3. PICK new : new = [intents[p] EXCEPT !.state = "done"]
  OBVIOUS
<1>4. /\ IsIntent(new) /\ new.round = r /\ new.cell = c /\ new.user = u /\ new.state = "done" /\ new # Null
  BY <1>3 DEF Pays, IsIntent, ScratchConstants
<1>5. intents' = [intents EXCEPT ![p] = new]
  BY <1>3 DEF Pays, PressInv
<1>6. cells' = [cells EXCEPT ![r] = [cells[r] EXCEPT ![c] = paid]]
  BY <1>1 DEF Pays, PressInv
<1>7. /\ \A s \in Tables, d \in Cells : cells'[s][d] = IF s = r /\ d = c THEN paid ELSE cells[s][d]
      /\ cells' = [s \in Tables |-> [d \in Cells |-> cells'[s][d]]]
  <2>1. PICK card1 : card1 = [cells[r] EXCEPT ![c] = paid]
    OBVIOUS
  <2>2. cells = [s \in Tables |-> cells[s]] /\ \A s \in Tables : cells[s] = [d \in Cells |-> cells[s][d]]
    BY DEF PressInv
  <2>3. card1 = [d \in Cells |-> IF d = c THEN paid ELSE cells[r][d]]
    BY <2>1, <2>2
  <2>4. cells' = [s \in Tables |-> IF s = r THEN card1 ELSE cells[s]]
    BY <1>6, <2>1, <2>2
  <2>5. ASSUME NEW s \in Tables PROVE cells'[s] = [d \in Cells |-> cells'[s][d]]
    BY <2>2, <2>3, <2>4
  <2>6. QED
    BY <2>3, <2>4, <2>5
<1>8. intents'[p] = new /\ intents' = [q \in Requests |-> intents'[q]]
      /\ \A q \in Requests \ {p} : intents'[q] = intents[q]
  BY <1>5 DEF PressInv
<1>9. \A q \in Requests : ~Done(q, r, c)
  BY DEF Pays, PressInv
<1>10. ~\E s \in Tables, d \in Cells : Done(p, s, d)
  BY DEF Done, Pays
<1>11. \A q \in Requests, s \in Tables, d \in Cells :
          Done(q, s, d)' <=> (IF q = p THEN s = r /\ d = c ELSE Done(q, s, d))
  BY <1>4, <1>8 DEF Done
<1>12. \A q \in Requests : intents'[q] # Null =>
          IsIntent(intents'[q]) /\ intents'[q].round \in Tables /\ intents'[q].cell \in Cells
  BY <1>4, <1>8 DEF PressInv
<1>13. ASSUME NEW s \in Tables, NEW d \in Cells, cells'[s][d] # Null
       PROVE  \E q \in Requests : Done(q, s, d)' /\ intents'[q].user = cells'[s][d].user
  <2>1. CASE s = r /\ d = c
    BY <1>2, <1>4, <1>7, <1>8, <1>11, <2>1
  <2>2. CASE ~(s = r /\ d = c)
    <3>1. PICK q \in Requests : Done(q, s, d) /\ intents[q].user = cells[s][d].user
      BY <1>7, <1>13, <2>2 DEF PressInv
    <3>2. q # p
      BY <1>10, <3>1
    <3>3. QED
      BY <1>7, <1>8, <1>11, <2>2, <3>1, <3>2
  <2>3. QED
    BY <2>1, <2>2
<1>14. ASSUME NEW s \in Tables, NEW d \in Cells
       PROVE  /\ \A q \in Requests : Done(q, s, d)' => cells'[s][d] # Null
              /\ \A q, o \in Requests : Done(q, s, d)' /\ Done(o, s, d)' => q = o
  BY <1>2, <1>7, <1>9, <1>11 DEF PressInv
<1>15. QED
  BY <1>7, <1>8, <1>12, <1>13, <1>14 DEF PressInv

(*-------------------------------------------------------------------------*)
LEMMA CountCells == \A X : Nine!Cardinality(X) = Cardinality(X)
BY Zenon DEF Nine!Cardinality, Cardinality

LEMMA FewMore ==
  ASSUME NEW X, NEW Y, NEW Z, NEW c, NEW n \in Nat, IsFiniteSet(X), X \subseteq Y, IsFiniteSet(Y), Z \subseteq X \cup {c},
         Cardinality(Y) < n
  PROVE  Cardinality(Z) <= n
<1>1. IsFiniteSet(Y \cup {c}) /\ Cardinality(Y \cup {c}) <= Cardinality(Y) + 1 /\ Cardinality(Y) \in Nat
  <2>1. IsFiniteSet(Y \cup {c}) /\ Cardinality(Y \cup {c}) = IF c \in Y THEN Cardinality(Y) ELSE Cardinality(Y) + 1
    BY FS_AddElement
  <2>2. Cardinality(Y) \in Nat
    BY FS_CardinalityType
  <2>3. QED
    BY <2>1, <2>2
<1>2. Z \in SUBSET (Y \cup {c})
  OBVIOUS
<1>3. IsFiniteSet(Z) /\ Cardinality(Z) <= Cardinality(Y \cup {c})
  BY <1>1, <1>2, FS_Subset
<1>4. Cardinality(Z) \in Nat /\ Cardinality(Y \cup {c}) \in Nat
  BY <1>1, <1>3, FS_CardinalityType
<1>5. QED
  BY <1>1, <1>3, <1>4

Of(r, u) == {c \in Nine!Scratched(r) : cells[r][c].user = u}
By(r, a) == {c \in Nine!Scratched(r) : cells[r][c].tg = a}
FewOf(x, n) == Cardinality(x) <= n

LEMMA FewConfirm ==
  ASSUME ScratchConstants, PressInv, Nine!FewCellsEach, NEW a \in Handles, NEW p \in Requests, NEW w \in Rewards,
         NEW r \in Tables, NEW c \in Cells, NEW u, Pays(a, p, w, r, c, u)
  PROVE  Nine!FewCellsEach'
<1>1. PICK paid : paid = [user |-> u, tg |-> a, reward |-> w]
  OBVIOUS
<1>2. IsCell(paid) /\ paid # Null /\ paid.user = u /\ paid.tg = a
  BY <1>1 DEF IsCell, ScratchConstants
<1>3. cells' = [cells EXCEPT ![r] = [cells[r] EXCEPT ![c] = paid]]
  BY <1>1 DEF Pays, PressInv
<1>4. \A s \in Tables, d \in Cells : cells'[s][d] = IF s = r /\ d = c THEN paid ELSE cells[s][d]
  BY <1>3 DEF PressInv
<1>5. PICK Y : Y = {d \in Nine!Scratched(r) : Nine!Same(cells[r][d], u, a)}
  OBVIOUS
<1>6. Cells \in SUBSET Cells /\ IsFiniteSet(Cells) /\ PerPerson \in Nat
  BY DEF ScratchConstants, Nine!ScratchAssumption, Nine!IsFiniteSet, IsFiniteSet
<1>7. IsFiniteSet(Y) /\ Cardinality(Y) < PerPerson
  <2>1. Y \in SUBSET Cells
    BY <1>5 DEF Nine!Scratched
  <2>2. Nine!Used(r, u, a) = Cardinality(Y)
    BY <1>5, CountCells DEF Nine!Used
  <2>3. QED
    BY <1>6, <2>1, <2>2, FS_Subset DEF Pays
<1>8. ASSUME NEW s \in Tables, NEW v PROVE FewOf(Of(s, v), PerPerson) => FewOf(Of(s, v)', PerPerson)
  <2>1. CASE s = r /\ v = u
    <3>1. Of(s, v) \subseteq Y
      BY <1>5, <2>1 DEF Of, Nine!Same
    <3>2. Of(s, v)' \subseteq Of(s, v) \cup {c}
      BY <1>4, <2>1 DEF Of, Nine!Scratched
    <3>3. IsFiniteSet(Of(s, v))
      BY <1>7, <3>1, FS_Subset
    <3>4. QED
      BY <1>6, <1>7, <3>1, <3>2, <3>3, FewMore DEF FewOf
  <2>2. CASE ~(s = r /\ v = u)
    <3>1. Of(s, v)' = Of(s, v)
      BY <1>2, <1>4, <2>2 DEF Of, Nine!Scratched, Pays
    <3>2. QED
      BY <3>1
  <2>3. QED
    BY <2>1, <2>2
<1>9. ASSUME NEW s \in Tables, NEW v PROVE FewOf(By(s, v), PerPerson) => FewOf(By(s, v)', PerPerson)
  <2>1. CASE s = r /\ v = a
    <3>1. By(s, v) \subseteq Y
      BY <1>5, <2>1 DEF By, Nine!Same
    <3>2. By(s, v)' \subseteq By(s, v) \cup {c}
      BY <1>4, <2>1 DEF By, Nine!Scratched
    <3>3. IsFiniteSet(By(s, v))
      BY <1>7, <3>1, FS_Subset
    <3>4. QED
      BY <1>6, <1>7, <3>1, <3>2, <3>3, FewMore DEF FewOf
  <2>2. CASE ~(s = r /\ v = a)
    <3>1. By(s, v)' = By(s, v)
      BY <1>2, <1>4, <2>2 DEF By, Nine!Scratched, Pays
    <3>2. QED
      BY <3>1
  <2>3. QED
    BY <2>1, <2>2
<1>10. Nine!FewCellsEach <=> \A s \in Tables, v \in Pair, b \in Handles : FewOf(Of(s, v), PerPerson) /\ FewOf(By(s, b), PerPerson)
  BY CountCells DEF Nine!FewCellsEach, FewOf, Of, By
<1>11. Nine!FewCellsEach' <=> \A s \in Tables, v \in Pair, b \in Handles : FewOf(Of(s, v)', PerPerson) /\ FewOf(By(s, b)', PerPerson)
  BY CountCells DEF Nine!FewCellsEach, FewOf, Of, By
<1>12. QED
  BY <1>8, <1>9, <1>10, <1>11

LEMMA PressOnce == ASSUME PressInv PROVE Nine!PressedTwice
<1> SUFFICES ASSUME NEW r \in Tables, NEW c \in Cells, cells[r][c] # Null
             PROVE  Cardinality({q \in Requests : /\ intents[q] # Null /\ intents[q].state = "done" /\ intents[q].round = r
                                      /\ intents[q].cell = c /\ intents[q].user = cells[r][c].user}) = 1
  BY CountCells DEF Nine!PressedTwice
<1>1. PICK q \in Requests : Done(q, r, c) /\ intents[q].user = cells[r][c].user
  BY DEF PressInv
<1>2. {p \in Requests : /\ intents[p] # Null /\ intents[p].state = "done" /\ intents[p].round = r
                         /\ intents[p].cell = c /\ intents[p].user = cells[r][c].user} = {q}
  BY <1>1 DEF PressInv, Done
<1>3. QED
  BY <1>2, FS_Singleton

(*-------------------------------------------------------------------------*)
(* The schedule.                                                           *)
SlotsInv ==
    /\ clock \in Nat /\ slots = [s \in Slots |-> slots[s]]
    /\ worker = [last |-> worker.last, known |-> worker.known, offer |-> worker.offer, since |-> worker.since]
    /\ worker.since \in Nat /\ worker.last \in Nat /\ worker.since <= clock
    /\ \A s \in Slots : slots[s] = "queued" => s <= clock
    /\ worker.known => /\ worker.since <= worker.last
                       /\ \A s \in Slots : slots[s] = "queued" => worker.since < s
    /\ \A s \in worker.offer : worker.since < s
    /\ late = {}

LEMMA SlotsStart == ASSUME ScratchConstants, Nine!Init PROVE SlotsInv
<1>1. PICK w : w = [last |-> 0, known |-> FALSE, offer |-> {}, since |-> 0]
  OBVIOUS
<1>2. w = [last |-> w.last, known |-> w.known, offer |-> w.offer, since |-> w.since]
      /\ w.last = 0 /\ w.known = FALSE /\ w.offer = {} /\ w.since = 0
  BY <1>1
<1>3. worker = w /\ clock = 0 /\ slots = [s \in Slots |-> "none"] /\ late = {}
  BY <1>1 DEF Nine!Init
<1>4. QED
  BY <1>2, <1>3 DEF SlotsInv

LEMMA SlotsSchedule == ASSUME ScratchConstants, SlotsInv, Nine!Schedule PROVE SlotsInv'
<1>1. PICK follows \in BOOLEAN : follows = (worker.known /\ switched /\ clock - worker.last <= Grace)
  OBVIOUS
<1>2. slots' = [s \in Slots |->
          IF slots[s] = "queued" /\ (IF follows THEN s < clock - Grace ELSE s <= clock) THEN "skipped"
          ELSE IF follows /\ slots[s] = "none" /\ worker.last < s /\ s <= clock THEN "queued" ELSE slots[s]]
  BY <1>1 DEF Nine!Schedule
<1>3. PICK o : o = IF follows THEN {s \in Slots : slots'[s] = "queued"} ELSE {}
  OBVIOUS
<1>4. worker' = [worker EXCEPT !.last = clock, !.known = TRUE, !.offer = o] /\ clock' = clock /\ late' = late
  BY <1>1, <1>3 DEF Nine!Schedule
<1>5. worker' = [last |-> worker'.last, known |-> worker'.known, offer |-> worker'.offer, since |-> worker'.since]
      /\ worker'.last = clock /\ worker'.known = TRUE /\ worker'.offer = o /\ worker'.since = worker.since
  BY <1>4 DEF SlotsInv
<1>6. Slots \subseteq Nat /\ Grace \in Nat
  BY DEF ScratchConstants, Nine!ScratchAssumption
<1>7. ASSUME NEW s \in Slots, slots'[s] = "queued" PROVE s <= clock /\ worker.since < s
  <2>1. PICK x : x = slots[s]
    OBVIOUS
  <2>2. /\ s \in Nat /\ clock \in Nat /\ worker.since \in Nat /\ worker.last \in Nat
        /\ x = "queued" => s <= clock
        /\ worker.known => worker.since <= worker.last /\ (x = "queued" => worker.since < s)
    BY <1>6, <2>1 DEF SlotsInv
  <2>3. slots'[s] = IF x = "queued" /\ (IF follows THEN s < clock - Grace ELSE s <= clock) THEN "skipped"
                    ELSE IF follows /\ x = "none" /\ worker.last < s /\ s <= clock THEN "queued" ELSE x
    BY <1>2, <2>1
  <2>4. CASE follows
    <3>1. x = "queued" \/ (worker.last < s /\ s <= clock)
      BY <1>7, <2>3, <2>4
    <3>2. worker.known
      BY <1>1, <2>4
    <3>3. QED
      BY <2>2, <3>1, <3>2
  <2>5. CASE ~follows
    BY <1>7, <2>2, <2>3, <2>5
  <2>6. QED
    BY <2>4, <2>5
<1>8. QED
  BY <1>2, <1>3, <1>4, <1>5, <1>7 DEF SlotsInv

LEMMA SlotsStep == ASSUME ScratchConstants, SlotsInv, [Nine!Next]_(Nine!vars) PROVE SlotsInv'
<1>1. ASSUME UNCHANGED <<clock, slots, worker, late>> PROVE SlotsInv'
  BY <1>1 DEF SlotsInv
<1>2. ASSUME NEW r \in Tables, Nine!Create(r) \/ Nine!BeginPublish(r) \/ Nine!LeaseEnds(r) PROVE SlotsInv'
  BY <1>1, <1>2 DEF Nine!Create, Nine!BeginPublish, Nine!LeaseEnds, Nine!plan
<1>3. ASSUME NEW a \in Handles, NEW r \in Tables, NEW c \in Cells, NEW q \in Requests, Nine!Select(a, r, c, q) PROVE SlotsInv'
  BY <1>1, <1>3 DEF Nine!Select, Nine!plan
<1>4. ASSUME NEW a \in Handles, NEW p \in Requests, NEW w \in Rewards, Nine!Confirm(a, p, w) PROVE SlotsInv'
  BY <1>1, <1>4 DEF Nine!Confirm, Nine!plan
<1>5. ASSUME Nine!ExpireDue \/ Nine!Published PROVE SlotsInv'
  BY <1>1, <1>5 DEF Nine!ExpireDue, Nine!Published, Nine!plan
<1>6. ASSUME NEW f \in {"retry", "failed", "unknown"}, NEW arrived \in BOOLEAN, Nine!PublishFailed(f, arrived) PROVE SlotsInv'
  BY <1>1, <1>6 DEF Nine!PublishFailed, Nine!plan
<1>7. ASSUME NEW arrived \in BOOLEAN, Nine!Restart(arrived) PROVE SlotsInv'
  <2>1. worker' = [worker EXCEPT !.known = FALSE, !.offer = {}, !.since = clock] /\ UNCHANGED <<clock, slots, late>>
    BY <1>7 DEF Nine!Restart
  <2>2. worker' = [last |-> worker'.last, known |-> worker'.known, offer |-> worker'.offer, since |-> worker'.since]
        /\ worker'.last = worker.last /\ worker'.known = FALSE /\ worker'.offer = {} /\ worker'.since = clock
    BY <2>1 DEF SlotsInv
  <2>3. QED
    BY <2>1, <2>2 DEF SlotsInv
<1>8. ASSUME NEW s \in Slots, NEW r \in Tables, Nine!AutoCreate(s, r) PROVE SlotsInv'
  <2>1. (slots' = [slots EXCEPT ![s] = "skipped"] \/ slots' = [slots EXCEPT ![s] = "created"])
        /\ late' \in {late, IF worker.since < s THEN late ELSE late \cup {s}} /\ UNCHANGED <<clock, worker>>
        /\ s \in worker.offer
    BY <1>8 DEF Nine!AutoCreate
  <2>2. late' = {}
    BY <2>1 DEF SlotsInv
  <2>3. slots' = [t \in Slots |-> slots'[t]] /\ \A t \in Slots : slots'[t] = "queued" => slots[t] = "queued"
    BY <2>1 DEF SlotsInv
  <2>4. QED
    BY <2>1, <2>2, <2>3 DEF SlotsInv
<1>9. ASSUME Nine!Toggle PROVE SlotsInv'
  <2>1. worker' = [worker EXCEPT !.known = FALSE] /\ UNCHANGED <<clock, slots, late>>
    BY <1>9 DEF Nine!Toggle
  <2>2. worker' = [last |-> worker'.last, known |-> worker'.known, offer |-> worker'.offer, since |-> worker'.since]
        /\ worker'.last = worker.last /\ worker'.known = FALSE /\ worker'.offer = worker.offer /\ worker'.since = worker.since
    BY <2>1 DEF SlotsInv
  <2>3. QED
    BY <2>1, <2>2 DEF SlotsInv
<1>10. ASSUME Nine!Tick PROVE SlotsInv'
  <2>1. clock' = clock + 1 /\ UNCHANGED <<slots, worker, late>>
    BY <1>10 DEF Nine!Tick, Nine!plan
  <2>2. Slots \subseteq Nat
    BY DEF ScratchConstants, Nine!ScratchAssumption
  <2>3. QED
    BY <2>1, <2>2 DEF SlotsInv
<1>11. ASSUME NEW a \in Handles, NEW u \in Pair \cup {Null}, Nine!Relink(a, u) PROVE SlotsInv'
  BY <1>1, <1>11 DEF Nine!Relink, Nine!plan
<1>12. ASSUME UNCHANGED Nine!vars PROVE SlotsInv'
  BY <1>1, <1>12 DEF Nine!vars, Nine!plan
<1>13. QED
  BY <1>2, <1>3, <1>4, <1>5, <1>6, <1>7, <1>8, <1>9, <1>10, <1>11, <1>12, SlotsSchedule DEF Nine!Next

LEMMA PressStep ==
  ASSUME ScratchConstants, PressInv, Nine!FewCellsEach, [Nine!Next]_(Nine!vars) PROVE PressInv' /\ Nine!FewCellsEach'
<1>1. ASSUME UNCHANGED <<cells, intents>> PROVE PressInv' /\ Nine!FewCellsEach'
  <2>1. PressInv'
    BY <1>1 DEF PressInv, Done
  <2>2. Nine!FewCellsEach'
    BY <1>1 DEF Nine!FewCellsEach, Nine!Scratched
  <2>3. QED
    BY <2>1, <2>2
<1>2. ASSUME NEW r \in Tables, Nine!Create(r) \/ Nine!BeginPublish(r) \/ Nine!LeaseEnds(r) PROVE PressInv' /\ Nine!FewCellsEach'
  BY <1>1, <1>2 DEF Nine!Create, Nine!BeginPublish, Nine!LeaseEnds
<1>3. ASSUME NEW a \in Handles, NEW r \in Tables, NEW c \in Cells, NEW q \in Requests, Nine!Select(a, r, c, q)
      PROVE  PressInv' /\ Nine!FewCellsEach'
  <2>1. cells' = cells
    BY <1>3 DEF Nine!Select
  <2>2. Nine!FewCellsEach'
    BY <2>1 DEF Nine!FewCellsEach, Nine!Scratched
  <2>3. QED
    BY <1>3, <2>2, PressSelect
<1>4. ASSUME NEW a \in Handles, NEW p \in Requests, NEW w \in Rewards, Nine!Confirm(a, p, w)
      PROVE  PressInv' /\ Nine!FewCellsEach'
  <2>1. PICK r \in Tables, c \in Cells : \E u : Pays(a, p, w, r, c, u)
    BY <1>4, ConfirmPays
  <2>2. PICK u : Pays(a, p, w, r, c, u)
    BY <2>1
  <2>3. PressInv'
    BY <2>2, PressConfirm
  <2>4. Nine!FewCellsEach'
    BY <2>2, FewConfirm
  <2>5. QED
    BY <2>3, <2>4
<1>5. ASSUME Nine!ExpireDue \/ Nine!Published \/ Nine!Schedule \/ Nine!Toggle \/ Nine!Tick PROVE PressInv' /\ Nine!FewCellsEach'
  BY <1>1, <1>5 DEF Nine!ExpireDue, Nine!Published, Nine!Schedule, Nine!Toggle, Nine!Tick, Nine!play
<1>6. ASSUME NEW f \in {"retry", "failed", "unknown"}, NEW arrived \in BOOLEAN, Nine!PublishFailed(f, arrived)
      PROVE  PressInv' /\ Nine!FewCellsEach'
  BY <1>1, <1>6 DEF Nine!PublishFailed
<1>7. ASSUME NEW arrived \in BOOLEAN, Nine!Restart(arrived) PROVE PressInv' /\ Nine!FewCellsEach'
  BY <1>1, <1>7 DEF Nine!Restart, Nine!play
<1>8. ASSUME NEW s \in Slots, NEW r \in Tables, Nine!AutoCreate(s, r) PROVE PressInv' /\ Nine!FewCellsEach'
  BY <1>1, <1>8 DEF Nine!AutoCreate
<1>9. ASSUME NEW a \in Handles, NEW u \in Pair \cup {Null}, Nine!Relink(a, u) PROVE PressInv' /\ Nine!FewCellsEach'
  BY <1>1, <1>9 DEF Nine!Relink, Nine!play
<1>10. ASSUME UNCHANGED Nine!vars PROVE PressInv' /\ Nine!FewCellsEach'
  BY <1>1, <1>10 DEF Nine!vars, Nine!play
<1>11. QED
  BY <1>2, <1>3, <1>4, <1>5, <1>6, <1>7, <1>8, <1>9, <1>10 DEF Nine!Next

LEMMA FewAtFirst == ASSUME ScratchConstants, Nine!Init PROVE Nine!FewCellsEach
<1>1. \A r \in Tables : Nine!Scratched(r) = {}
  BY DEF Nine!Init, Nine!Scratched
<1>2. PerPerson \in Nat
  BY DEF ScratchConstants, Nine!ScratchAssumption
<1>3. Cardinality({}) <= PerPerson
  BY <1>2, FS_EmptySet
<1>4. ASSUME NEW r \in Tables, NEW u \in Pair, NEW a \in Handles
      PROVE  /\ {c \in Nine!Scratched(r) : cells[r][c].user = u} = {}
             /\ {c \in Nine!Scratched(r) : cells[r][c].tg = a} = {}
  BY <1>1
<1>5. QED
  BY <1>3, <1>4, CountCells DEF Nine!FewCellsEach

ScratchInv == (ErrorsRefuse => CardsInv) /\ PressInv /\ Nine!FewCellsEach /\ SlotsInv

LEMMA ScratchStart == ASSUME ScratchConstants, Nine!Init PROVE ScratchInv
BY CardsStart, PressStart, FewAtFirst, SlotsStart DEF ScratchInv

LEMMA ScratchStep == ASSUME ScratchConstants, ScratchInv, [Nine!Next]_(Nine!vars) PROVE ScratchInv'
BY CardsStep, PressStep, SlotsStep DEF ScratchInv

LEMMA ScratchTells ==
    ASSUME ScratchConstants, ScratchInv
    PROVE  /\ ErrorsRefuse => Nine!OneCard
           /\ Nine!PressedTwice /\ Nine!FewCellsEach /\ Nine!NeverCatchesUp
<1>1. ASSUME ErrorsRefuse PROVE Nine!OneCard
  <2>1. ASSUME NEW r \in Tables PROVE card[r].copies <= 1 /\ card[r].shows >= round[r].rendered
    <3>1. card[r].copies <= 1 /\ round[r].rendered <= card[r].shows /\ card[r].shows \in Int /\ round[r].rendered \in Int
      BY <1>1 DEF ScratchInv, CardsInv, IsRow, IsCard
    <3>2. QED
      BY <3>1
  <2>2. QED
    BY <2>1 DEF Nine!OneCard
<1>2. Nine!PressedTwice
  BY PressOnce DEF ScratchInv
<1>3. QED
  BY <1>1, <1>2 DEF ScratchInv, SlotsInv, Nine!NeverCatchesUp

(* For any number of rounds, cells and members: a round has at most one     *)
(* card, which never shows less than the round believes (scratch9.py,       *)
(* begin_publish, published, publish_failed), provided that a 5xx answer    *)
(* means that nothing was posted: the card is posted again after one.       *)
THEOREM ScratchCardSound ==
    ASSUME ScratchConstants, ErrorsRefuse
    PROVE  Nine!Spec => []Nine!OneCard
<1>1. Nine!Init => ScratchInv
  BY ScratchStart
<1>2. ScratchInv /\ [Nine!Next]_(Nine!vars) => ScratchInv'
  BY ScratchStep
<1>3. ScratchInv => Nine!OneCard
  BY ScratchTells
<1>4. QED
  BY <1>1, <1>2, <1>3, PTL DEF Nine!Spec

(* Whatever Telegram answers: a scratched cell was pressed twice, by one    *)
(* person, once; no identity of a person opens more cells of a round than   *)
(* it may, whoever the account is bound to meanwhile (scratch9.py, select   *)
(* and confirm); and the schedule opens nothing that was due before the     *)
(* process came up (scratch9.py, schedule and auto_create).                 *)
THEOREM ScratchPressesSound ==
    ASSUME ScratchConstants
    PROVE  Nine!Spec => [](Nine!PressedTwice /\ Nine!FewCellsEach /\ Nine!NeverCatchesUp)
<1>1. Nine!Init => ScratchInv
  BY ScratchStart
<1>2. ScratchInv /\ [Nine!Next]_(Nine!vars) => ScratchInv'
  BY ScratchStep
<1>3. ScratchInv => Nine!PressedTwice /\ Nine!FewCellsEach /\ Nine!NeverCatchesUp
  BY ScratchTells
<1>4. QED
  BY <1>1, <1>2, <1>3, PTL DEF Nine!Spec

-----------------------------------------------------------------------------
(* The points.                                                             *)
LEMMA SumOnUsers == ASSUME NEW f, DOMAIN f = Users PROVE Sum(f) = SumFunctionOnSet(f, Users)
BY DEF Sum, SumFunction

Ledgers == [wallet : [Users -> Int], held : [Tables -> [Users -> Int]], fund : [Tables -> Int]]

(* A sum is taken over finitely many members and tables.                   *)
Finite == IsFiniteSet(Users) /\ IsFiniteSet(Tables)

LEMMA SumOfTwo ==
    ASSUME Finite, NEW f \in [Users -> Int], NEW g \in [Users -> Int]
    PROVE  /\ Sum(f) \in Int /\ Sum(g) \in Int
           /\ Sum(Plus(f, g)) = Sum(f) + Sum(g)
           /\ Sum(Minus(f, g)) = Sum(f) - Sum(g)
<1>1. Sum(f) \in Int /\ Sum(g) \in Int
  BY SumOnUsers, SumInt DEF Finite
<1>2. Plus(f, g) \in [Users -> Int] /\ Minus(f, g) \in [Users -> Int]
  BY DEF Plus, Minus
<1>3. Sum(Plus(f, g)) = Sum(f) + Sum(g)
  <2>1. \A u \in Users : f[u] \in Int /\ g[u] \in Int /\ Plus(f, g)[u] = f[u] + g[u]
    BY DEF Plus
  <2>2. SumFunctionOnSet(Plus(f, g), Users) = SumFunctionOnSet(f, Users) + SumFunctionOnSet(g, Users)
    BY <2>1, SumPlus DEF Finite
  <2>3. QED
    BY <1>2, <2>2, SumOnUsers
<1>4. Sum(f) = Sum(Minus(f, g)) + Sum(g)
  <2>1. \A u \in Users : Minus(f, g)[u] \in Int /\ g[u] \in Int /\ f[u] = Minus(f, g)[u] + g[u]
    BY <1>2 DEF Minus
  <2>2. SumFunctionOnSet(f, Users) = SumFunctionOnSet(Minus(f, g), Users) + SumFunctionOnSet(g, Users)
    BY <2>1, SumPlus DEF Finite
  <2>3. QED
    BY <1>2, <2>2, SumOnUsers
<1>5. Sum(Minus(f, g)) \in Int
  BY <1>2, SumOnUsers, SumInt DEF Finite
<1>6. QED
  BY <1>1, <1>3, <1>4, <1>5

(* What a table holds, in the two forms it holds it.                       *)
OnTable(b, t) == Sum(b.held[t]) + b.fund[t]

LEMMA OnTableInt == ASSUME Finite, NEW b \in Ledgers, NEW t \in Tables PROVE OnTable(b, t) \in Int
<1>1. b.held[t] \in [Users -> Int] /\ b.fund[t] \in Int
  BY DEF Ledgers
<1>2. QED
  BY <1>1, SumOfTwo DEF OnTable

(* A movement between a wallet and one table keeps what is owned, when the  *)
(* wallets lose what the table gains.                                      *)
LEMMA Moved ==
    ASSUME Finite, NEW b \in Ledgers, NEW c \in Ledgers, NEW t \in Tables, NEW n \in Int,
           \A s \in Tables \ {t} : OnTable(c, s) = OnTable(b, s),
           OnTable(c, t) = OnTable(b, t) + n, Sum(c.wallet) = Sum(b.wallet) - n
    PROVE  Wealth(c) = Wealth(b)
<1> DEFINE f == [s \in Tables |-> OnTable(b, s)]
           g == [s \in Tables |-> OnTable(c, s)]
<1>1. Wealth(b) = Sum(b.wallet) + SumFunctionOnSet(f, Tables) /\ Wealth(c) = Sum(c.wallet) + SumFunctionOnSet(g, Tables)
  BY DEF Wealth, Sum, SumFunction, OnTable
<1>2. \A s \in Tables : f[s] \in Int /\ g[s] \in Int
  BY OnTableInt
<1>3. \A s \in Tables \ {t} : f[s] = g[s]
  OBVIOUS
<1>4. g[t] = f[t] + n
  OBVIOUS
<1>5. f[t] \in Int /\ SumFunctionOnSet(f, Tables) \in Int
  BY <1>2, SumInt DEF Finite
<1> HIDE DEF f, g
<1>6. SumFunctionOnSet(g, Tables) = SumFunctionOnSet(f, Tables) + g[t] - f[t]
  <2>1. IsFiniteSet(Tables)
    BY DEF Finite
  <2>2. QED
    BY <1>2, <1>3, <2>1, SumChange
<1>7. Sum(b.wallet) \in Int
  <2>1. b.wallet \in [Users -> Int]
    BY DEF Ledgers
  <2>2. QED
    BY <2>1, SumOfTwo
<1>8. QED
  BY <1>1, <1>4, <1>5, <1>6, <1>7

LEMMA ReserveKeeps ==
    ASSUME Finite, NEW b \in Ledgers, NEW t \in Tables, NEW amt \in [Users -> Int]
    PROVE  Reserve(b, t, amt) \in Ledgers /\ Wealth(Reserve(b, t, amt)) = Wealth(b)
<1> DEFINE c == Reserve(b, t, amt)
<1>1. b.wallet \in [Users -> Int] /\ b.held \in [Tables -> [Users -> Int]] /\ b.fund \in [Tables -> Int]
  BY DEF Ledgers
<1>2. /\ c = [wallet |-> Minus(b.wallet, amt), held |-> [b.held EXCEPT ![t] = Plus(b.held[t], amt)], fund |-> b.fund]
      /\ Minus(b.wallet, amt) \in [Users -> Int] /\ Plus(b.held[t], amt) \in [Users -> Int]
  BY <1>1 DEF Reserve, Minus, Plus
<1> HIDE DEF c
<1>3. /\ c.wallet = Minus(b.wallet, amt) /\ c.fund = b.fund
      /\ c.held[t] = Plus(b.held[t], amt) /\ \A s \in Tables \ {t} : c.held[s] = b.held[s]
  BY <1>1, <1>2
<1>4. c \in Ledgers
  BY <1>1, <1>2 DEF Ledgers
<1>5. /\ Sum(c.wallet) = Sum(b.wallet) - Sum(amt) /\ Sum(c.held[t]) = Sum(b.held[t]) + Sum(amt)
      /\ Sum(amt) \in Int /\ Sum(b.held[t]) \in Int /\ b.fund[t] \in Int
  BY <1>1, <1>3, SumOfTwo
<1>6. OnTable(c, t) = OnTable(b, t) + Sum(amt)
  BY <1>3, <1>5 DEF OnTable
<1>7. \A s \in Tables \ {t} : OnTable(c, s) = OnTable(b, s)
  BY <1>3 DEF OnTable
<1>8. Wealth(c) = Wealth(b)
  BY <1>4, <1>5, <1>6, <1>7, Moved
<1>9. QED
  BY <1>4, <1>8 DEF c

LEMMA ConsumeKeeps ==
    ASSUME Finite, NEW b \in Ledgers, NEW t \in Tables, NEW amt \in [Users -> Int]
    PROVE  Consume(b, t, amt) \in Ledgers /\ Wealth(Consume(b, t, amt)) = Wealth(b)
<1> DEFINE c == Consume(b, t, amt)
<1>1. b.wallet \in [Users -> Int] /\ b.held \in [Tables -> [Users -> Int]] /\ b.fund \in [Tables -> Int]
  BY DEF Ledgers
<1>2. /\ c = [wallet |-> b.wallet, held |-> [b.held EXCEPT ![t] = Minus(b.held[t], amt)],
              fund |-> [b.fund EXCEPT ![t] = b.fund[t] + Sum(amt)]]
      /\ Minus(b.held[t], amt) \in [Users -> Int]
  BY <1>1 DEF Consume, Minus
<1>3. /\ Sum(Minus(b.held[t], amt)) = Sum(b.held[t]) - Sum(amt)
      /\ Sum(amt) \in Int /\ Sum(b.held[t]) \in Int /\ b.fund[t] \in Int /\ Sum(b.wallet) \in Int
  BY <1>1, SumOfTwo
<1> HIDE DEF c
<1>4. /\ c.wallet = b.wallet /\ c.fund[t] = b.fund[t] + Sum(amt) /\ c.held[t] = Minus(b.held[t], amt)
      /\ \A s \in Tables \ {t} : c.held[s] = b.held[s] /\ c.fund[s] = b.fund[s]
  BY <1>1, <1>2
<1>5. c \in Ledgers
  BY <1>1, <1>2, <1>3 DEF Ledgers
<1>6. OnTable(c, t) = OnTable(b, t) + 0 /\ Sum(c.wallet) = Sum(b.wallet) - 0
  BY <1>3, <1>4 DEF OnTable
<1>7. \A s \in Tables \ {t} : OnTable(c, s) = OnTable(b, s)
  BY <1>4 DEF OnTable
<1>8. Wealth(c) = Wealth(b)
  BY <1>5, <1>6, <1>7, Moved
<1>9. QED
  BY <1>5, <1>8 DEF c

LEMMA PayKeeps ==
    ASSUME Finite, NEW b \in Ledgers, NEW t \in Tables, NEW amt \in [Users -> Int]
    PROVE  Pay(b, t, amt) \in Ledgers /\ Wealth(Pay(b, t, amt)) = Wealth(b)
<1> DEFINE c == Pay(b, t, amt)
<1>1. b.wallet \in [Users -> Int] /\ b.held \in [Tables -> [Users -> Int]] /\ b.fund \in [Tables -> Int]
  BY DEF Ledgers
<1>2. /\ c = [wallet |-> Plus(b.wallet, amt), held |-> b.held, fund |-> [b.fund EXCEPT ![t] = b.fund[t] - Sum(amt)]]
      /\ Plus(b.wallet, amt) \in [Users -> Int]
  BY <1>1 DEF Pay, Plus
<1>3. /\ Sum(Plus(b.wallet, amt)) = Sum(b.wallet) + Sum(amt)
      /\ Sum(amt) \in Int /\ b.fund[t] \in Int /\ Sum(b.wallet) \in Int /\ Sum(b.held[t]) \in Int
  BY <1>1, SumOfTwo
<1> HIDE DEF c
<1>4. /\ c.wallet = Plus(b.wallet, amt) /\ c.fund[t] = b.fund[t] - Sum(amt) /\ c.held = b.held
      /\ \A s \in Tables \ {t} : c.fund[s] = b.fund[s]
  BY <1>1, <1>2
<1>5. c \in Ledgers
  BY <1>1, <1>2, <1>3 DEF Ledgers
<1>6. OnTable(c, t) = OnTable(b, t) + (-Sum(amt)) /\ Sum(c.wallet) = Sum(b.wallet) - (-Sum(amt))
  BY <1>3, <1>4 DEF OnTable
<1>7. \A s \in Tables \ {t} : OnTable(c, s) = OnTable(b, s)
  BY <1>4 DEF OnTable
<1>8. -Sum(amt) \in Int
  BY <1>3
<1>9. Wealth(c) = Wealth(b)
  BY <1>5, <1>6, <1>7, <1>8, Moved
<1>10. QED
  BY <1>5, <1>9 DEF c

(* Everybody the same, and a split of a pot: the sum is what was divided.   *)
LEMMA SumOfEach ==
    ASSUME Finite, NEW S \in SUBSET Users, NEW n \in Int
    PROVE  Each(S, n) \in [Users -> Int] /\ Sum(Each(S, n)) = n * Cardinality(S)
<1>1. Each(S, n) \in [Users -> Int] /\ \A u \in Users : Each(S, n)[u] = IF u \in S THEN n ELSE 0
  BY DEF Each
<1>2. SumFunctionOnSet(Each(S, n), Users) = n * Cardinality(S)
  BY <1>1, SumEach DEF Finite
<1>3. QED
  BY <1>1, <1>2, SumOnUsers

LEMMA Division ==
    ASSUME NEW a \in Nat, NEW n \in Nat \ {0}
    PROVE  a \div n \in Nat /\ a % n \in Nat /\ a = (a \div n) * n + (a % n)
OBVIOUS

LEMMA SplitIsWhole ==
    ASSUME Finite, NEW total \in Nat, NEW winners \in SUBSET Users, winners # {}, NEW f \in FairSplits(total, winners)
    PROVE  f \in [Users -> Nat] /\ Sum(f) = total /\ \A u \in Users : u \notin winners => f[u] = 0
<1> DEFINE n == Cardinality(winners)
           share == total \div n
<1>1. IsFiniteSet(winners) /\ n \in Nat \ {0}
  BY FS_Subset, FS_CardinalityType, FS_EmptySet DEF Finite
<1>2. PICK lucky \in SUBSET winners :
        /\ Cardinality(lucky) = total % n
        /\ f = [u \in Users |-> IF u \in winners THEN share + (IF u \in lucky THEN 1 ELSE 0) ELSE 0]
  BY DEF FairSplits
<1>3. share \in Nat /\ total % n \in Nat /\ total = share * n + (total % n)
  <2> HIDE DEF n
  <2>1. QED
    BY <1>1, Division
<1>4. Each(winners, share) \in [Users -> Int] /\ Sum(Each(winners, share)) = share * n
  BY <1>3, SumOfEach
<1>5. Each(lucky, 1) \in [Users -> Int] /\ Sum(Each(lucky, 1)) = 1 * (total % n)
  BY <1>2, SumOfEach
<1> HIDE DEF share
<1>6. f = Plus(Each(winners, share), Each(lucky, 1))
  BY <1>2, <1>3 DEF Plus, Each
<1>7. Sum(f) = share * n + 1 * (total % n)
  BY <1>4, <1>5, <1>6, SumOfTwo
<1>8. f \in [Users -> Nat]
  BY <1>2, <1>3
<1>9. Sum(f) = total
  <2> DEFINE rest == total % n
             whole == share * n
  <2>1. rest \in Nat /\ whole \in Nat /\ total = whole + rest /\ Sum(f) = whole + 1 * rest
    BY <1>1, <1>3, <1>7
  <2> HIDE DEF rest, whole
  <2>2. 1 * rest = rest
    BY <2>1
  <2>3. QED
    BY <2>1, <2>2
<1>10. QED
  BY <1>2, <1>8, <1>9

(* What a table brought a member: what it paid him less his stake.         *)
Gain(t, u) == IF t \in SatAt(u) THEN AwardOf(t, u) ELSE 0
GainsOf(u) == [t \in Tables |-> Gain(t, u)]

(* Nobody is seated twice at a table, and an open one has paid nobody.     *)
Once(S) == \A p, q \in S : p.user = q.user => p = q
Seated == \A t \in Tables : /\ Once(players[t])
                            /\ state[t] = "lobby" => \A p \in players[t] : p.award = 0

TableInv == BInv /\ ResultInv /\ TypeOK /\ Seated /\ EveryPointAccounted /\ PotIsTheStakes

LEMMA GainOfRow ==
    ASSUME NEW t \in Tables, NEW p \in players[t], Once(players[t])
    PROVE  Gain(t, p.user) = p.award - stake[t]
<1>1. t \in SatAt(p.user)
  BY DEF SatAt
<1>2. (CHOOSE q \in players[t] : q.user = p.user) = p
  BY DEF Once
<1>3. QED
  BY <1>1, <1>2 DEF Gain, AwardOf

LEMMA NoGain ==
    ASSUME NEW t \in Tables, NEW u, \A p \in players[t] : p.user # u
    PROVE  Gain(t, u) = 0
BY DEF Gain, SatAt

LEMMA GainInt ==
    ASSUME TypeOK, Seated, NEW t \in Tables, NEW u \in Users
    PROVE  Gain(t, u) \in Int
<1>1. stake[t] \in Nat
  BY BlackwhiteAssumption DEF TypeOK
<1>2. CASE \E p \in players[t] : p.user = u
  <2>1. PICK p \in players[t] : p.user = u
    BY <1>2
  <2>2. p.award \in Nat
    <3>1. players[t] \subseteq Player
      BY DEF TypeOK
    <3>2. QED
      BY <3>1 DEF Player
  <2>3. Gain(t, u) = p.award - stake[t]
    BY <2>1, GainOfRow DEF Seated
  <2>4. QED
    BY <1>1, <2>2, <2>3
<1>3. CASE ~\E p \in players[t] : p.user = u
  BY <1>3, NoGain
<1>4. QED
  BY <1>2, <1>3

GainsAreInt == \A t \in Tables, u \in Users : Gain(t, u) \in Int

LEMMA GainsInt == TypeOK /\ Seated => GainsAreInt
BY GainInt DEF GainsAreInt

LEMMA AccountIs ==
    ASSUME Finite, TypeOK, Seated, NEW u \in Users
    PROVE  SumFunction([t \in SatAt(u) |-> AwardOf(t, u)]) = SumFunctionOnSet(GainsOf(u), Tables)
<1> DEFINE f == [t \in SatAt(u) |-> AwardOf(t, u)]
           T == SatAt(u)
           g == GainsOf(u)
<1>1. SumFunction(f) = SumFunctionOnSet(f, T)
  BY DEF SumFunction
<1>2. T \subseteq Tables /\ IsFiniteSet(Tables) /\ IsFiniteSet(T)
  BY FS_Subset DEF SatAt, Finite
<1>3. \A t \in T : f[t] = g[t]
  BY <1>2 DEF GainsOf, Gain
<1>4. /\ \A t \in Tables : g[t] \in Int
      /\ \A t \in Tables \ T : g[t] = 0
  BY GainInt DEF GainsOf, Gain
<1> HIDE DEF f, T, g
<1>5. SumFunctionOnSet(f, T) = SumFunctionOnSet(g, T)
  BY <1>2, <1>3, SumSame
<1>6. SumFunctionOnSet(g, Tables) = SumFunctionOnSet(g, T)
  BY <1>2, <1>4, SumWithin
<1>7. QED
  BY <1>1, <1>5, <1>6 DEF f, g

Accounted(u) == book.wallet[u] = other[u] + SumFunctionOnSet(GainsOf(u), Tables)

LEMMA Accounts == ASSUME Finite, TypeOK, Seated PROVE EveryPointAccounted <=> \A u \in Users : Accounted(u)
BY AccountIs DEF EveryPointAccounted, Accounted

(* Only one table's rows change: the wallet must change by as much.        *)
LEMMA OneTablePays ==
    ASSUME Finite, TypeOK, Seated, TypeOK', Seated', UNCHANGED <<stake, other>>, NEW t \in Tables, NEW u \in Users,
           \A s \in Tables \ {t} : players'[s] = players[s],
           Accounted(u), book'.wallet[u] - book.wallet[u] = Gain(t, u)' - Gain(t, u)
    PROVE  Accounted(u)'
<1> DEFINE f == GainsOf(u)
           g == GainsOf(u)'
<1>1. \A s \in Tables : f[s] = Gain(s, u) /\ g[s] = Gain(s, u)'
  BY DEF GainsOf
<1>2. \A s \in Tables : Gain(s, u) \in Int
  BY GainInt
<1>3. \A s \in Tables : Gain(s, u)' \in Int
  <2>1. GainsAreInt'
    BY GainsInt, PTL
  <2>2. QED
    BY <2>1 DEF GainsAreInt
<1>4. \A s \in Tables \ {t} : Gain(s, u)' = Gain(s, u)
  <2>1. SUFFICES ASSUME NEW s \in Tables \ {t} PROVE Gain(s, u)' = Gain(s, u)
    OBVIOUS
  <2>2. players'[s] = players[s] /\ stake' = stake
    OBVIOUS
  <2>3. (s \in SatAt(u))' <=> s \in SatAt(u)
    BY <2>2 DEF SatAt
  <2>4. AwardOf(s, u)' = AwardOf(s, u)
    BY <2>2 DEF AwardOf
  <2>5. QED
    BY <2>3, <2>4 DEF Gain
<1>5. book.wallet[u] \in Int /\ book'.wallet[u] \in Int /\ other[u] \in Int
  BY DEF TypeOK, Books
<1>6. (\A s \in Tables : f[s] \in Int /\ g[s] \in Int) /\ \A s \in Tables \ {t} : f[s] = g[s]
  BY <1>1, <1>2, <1>3, <1>4
<1>7. f[t] = Gain(t, u) /\ g[t] = Gain(t, u)' /\ f[t] \in Int /\ g[t] \in Int
  BY <1>1, <1>6
<1> HIDE DEF f, g
<1>8. SumFunctionOnSet(g, Tables) = SumFunctionOnSet(f, Tables) + g[t] - f[t]
  <2>1. IsFiniteSet(Tables)
    BY DEF Finite
  <2>2. QED
    BY <1>6, <2>1, SumChange
<1>9. SumFunctionOnSet(f, Tables) \in Int
  BY <1>6, SumInt DEF Finite
<1>10. book.wallet[u] = other[u] + SumFunctionOnSet(f, Tables)
  BY DEF Accounted, f
<1>11. book'.wallet[u] = other[u] + SumFunctionOnSet(g, Tables)
  BY <1>5, <1>7, <1>8, <1>9, <1>10
<1>12. QED
  BY <1>11 DEF Accounted, g

(* The same of a set of rows.                                              *)
RowGain(S, n, u) == IF \E p \in S : p.user = u THEN (CHOOSE q \in S : q.user = u).award - n ELSE 0

LEMMA GainOf == ASSUME NEW t \in Tables, NEW u PROVE Gain(t, u) = RowGain(players[t], stake[t], u)
BY DEF Gain, SatAt, AwardOf, RowGain

LEMMA GainOfNext == ASSUME NEW t \in Tables, NEW u PROVE Gain(t, u)' = RowGain(players'[t], stake'[t], u)
BY DEF Gain, SatAt, AwardOf, RowGain

LEMMA RowIs ==
    ASSUME NEW S, Once(S), NEW n, NEW p \in S
    PROVE  RowGain(S, n, p.user) = p.award - n
<1>1. (CHOOSE q \in S : q.user = p.user) = p
  BY DEF Once
<1>2. QED
  BY <1>1 DEF RowGain

LEMMA NoRow == ASSUME NEW S, NEW n, NEW u, \A p \in S : p.user # u PROVE RowGain(S, n, u) = 0
BY DEF RowGain

\* Before a table has paid anybody, a member has lost his stake.
LEMMA RowUnpaid ==
    ASSUME NEW S, Once(S), NEW n, NEW u, \A p \in S : p.award = 0
    PROVE  RowGain(S, n, u) = IF \E p \in S : p.user = u THEN 0 - n ELSE 0
<1>1. CASE \E p \in S : p.user = u
  BY <1>1, RowIs
<1>2. CASE ~\E p \in S : p.user = u
  BY <1>2, NoRow
<1>3. QED
  BY <1>1, <1>2

LEMMA AwardedOnce ==
    ASSUME NEW S, Once(S), NEW awards
    PROVE  /\ Once(Awarded(S, awards))
           /\ \A u : (\E p \in Awarded(S, awards) : p.user = u) <=> \E p \in S : p.user = u
<1> DEFINE paid(p) == [user |-> p.user, tg |-> p.tg, choice |-> p.choice, award |-> awards[p.user]]
           T == Awarded(S, awards)
<1>1. \A p \in S : paid(p) \in T /\ paid(p).user = p.user
  BY DEF Awarded
<1>2. \A p \in T : \E q \in S : p = paid(q)
  BY DEF Awarded
<1>3. \A p \in T : \E q \in S : p = paid(q) /\ q.user = p.user
  BY <1>2
<1> HIDE DEF T, paid
<1>4. Once(T)
  BY <1>3 DEF Once
<1>5. \A u : (\E p \in T : p.user = u) <=> \E p \in S : p.user = u
  BY <1>1, <1>3
<1>6. QED
  BY <1>4, <1>5 DEF T

LEMMA RowPaid ==
    ASSUME NEW S, Once(S), NEW n, NEW u, NEW awards
    PROVE  RowGain(Awarded(S, awards), n, u) = IF \E p \in S : p.user = u THEN awards[u] - n ELSE 0
<1> DEFINE T == Awarded(S, awards)
<1>1. Once(T) /\ ((\E p \in T : p.user = u) <=> \E p \in S : p.user = u)
  BY AwardedOnce
<1>2. \A p \in T : p.award = awards[p.user]
  BY AwardedRows
<1> HIDE DEF T
<1>3. CASE \E p \in T : p.user = u
  <2>1. PICK p \in T : p.user = u
    BY <1>3
  <2>2. RowGain(T, n, p.user) = p.award - n
    BY <1>1, RowIs
  <2>3. QED
    BY <1>1, <1>2, <1>3, <2>1, <2>2 DEF T
<1>4. CASE ~\E p \in T : p.user = u
  BY <1>1, <1>4, NoRow DEF T
<1>5. QED
  BY <1>3, <1>4

(* The book of a stake that is frozen and put into the pot.                *)
Staking(b, t, u, n) == Consume(Reserve(b, t, Only(u, n)), t, Only(u, n))

LEMMA BooksAreLedgers == Books \subseteq Ledgers
<1>1. [Users -> Nat] \subseteq [Users -> Int]
  OBVIOUS
<1>2. [Tables -> [Users -> Nat]] \subseteq [Tables -> [Users -> Int]] /\ [Tables -> Nat] \subseteq [Tables -> Int]
  BY <1>1
<1>3. QED
  BY <1>2 DEF Books, Ledgers

LEMMA SumOfOnly ==
    ASSUME Finite, NEW u \in Users, NEW n \in Nat
    PROVE  /\ Only(u, n) \in [Users -> Int] /\ Sum(Only(u, n)) = n
           /\ \A v \in Users : Only(u, n)[v] = IF v = u THEN n ELSE 0
<1> DEFINE one == {u}
<1>1. one \in SUBSET Users /\ Cardinality(one) = 1 /\ n \in Int
  BY FS_Singleton
<1>2. \A v \in Users : Only(u, n)[v] = IF v = u THEN n ELSE 0
  BY DEF Only, Each
<1>3. Only(u, n) = Each(one, n)
  BY DEF Only
<1> HIDE DEF one
<1>4. Each(one, n) \in [Users -> Int] /\ Sum(Each(one, n)) = n * Cardinality(one)
  BY <1>1, SumOfEach
<1>5. QED
  BY <1>1, <1>2, <1>3, <1>4

LEMMA StakeIsPut ==
    ASSUME Finite, NEW b \in Books, NEW t \in Tables, NEW u \in Users, NEW n \in Nat
    PROVE  LET c == Staking(b, t, u, n) IN
           /\ c \in Books /\ Wealth(c) = Wealth(b)
           /\ c.fund = [b.fund EXCEPT ![t] = b.fund[t] + n]
           /\ \A v \in Users : c.wallet[v] = b.wallet[v] - (IF v = u THEN n ELSE 0)
<1> DEFINE amt == Only(u, n)
           d == Reserve(b, t, amt)
           c == Staking(b, t, u, n)
<1>1. b \in Ledgers
  BY BooksAreLedgers
<1>2. amt \in [Users -> Int] /\ Sum(amt) = n /\ \A v \in Users : amt[v] = IF v = u THEN n ELSE 0
  BY SumOfOnly
<1> HIDE DEF amt
<1>3. d \in Ledgers /\ Wealth(d) = Wealth(b)
  BY <1>1, <1>2, ReserveKeeps
<1>4. c = Consume(d, t, amt)
  BY DEF Staking, amt
<1> HIDE DEF c
<1>5. /\ d.wallet = Minus(b.wallet, amt) /\ d.fund = b.fund
      /\ d.held = [b.held EXCEPT ![t] = Plus(b.held[t], amt)]
  BY DEF Reserve
<1> HIDE DEF d
<1>6. c \in Ledgers /\ Wealth(c) = Wealth(b)
  BY <1>2, <1>3, <1>4, ConsumeKeeps
<1>7. /\ c = [wallet |-> d.wallet, held |-> [d.held EXCEPT ![t] = Minus(d.held[t], amt)],
              fund |-> [d.fund EXCEPT ![t] = d.fund[t] + Sum(amt)]]
  BY <1>4 DEF Consume
<1>8. b.held \in [Tables -> [Users -> Nat]] /\ b.fund \in [Tables -> Nat] /\ b.wallet \in [Users -> Int]
  BY DEF Books
<1>9. Minus(Plus(b.held[t], amt), amt) = b.held[t]
  <2>1. b.held[t] \in [Users -> Nat]
    BY <1>8
  <2>2. \A v \in Users : (b.held[t][v] + amt[v]) - amt[v] = b.held[t][v]
    BY <1>2, <2>1
  <2>3. QED
    BY <2>1, <2>2 DEF Minus, Plus
<1>10. d.held[t] = Plus(b.held[t], amt) /\ [d.held EXCEPT ![t] = b.held[t]] = b.held
  BY <1>5, <1>8
<1>11. /\ c.wallet = Minus(b.wallet, amt) /\ c.held = b.held
       /\ c.fund = [b.fund EXCEPT ![t] = b.fund[t] + n]
  BY <1>2, <1>5, <1>7, <1>9, <1>10
<1>12. c.wallet \in [Users -> Int] /\ \A v \in Users : c.wallet[v] = b.wallet[v] - (IF v = u THEN n ELSE 0)
  BY <1>2, <1>8, <1>11 DEF Minus
<1>13. c.fund \in [Tables -> Nat]
  BY <1>8, <1>11
<1>14. c \in Books
  BY <1>7, <1>8, <1>11, <1>12, <1>13 DEF Books
<1>15. QED
  BY <1>6, <1>11, <1>12, <1>14 DEF c

LEMMA PotPays ==
    ASSUME Finite, NEW b \in Books, NEW t \in Tables, NEW amt \in [Users -> Nat], CanPay(b, t, amt)
    PROVE  LET c == Pay(b, t, amt) IN
           /\ c \in Books /\ Wealth(c) = Wealth(b)
           /\ c.fund = [b.fund EXCEPT ![t] = b.fund[t] - Sum(amt)]
           /\ \A v \in Users : c.wallet[v] = b.wallet[v] + amt[v]
<1> DEFINE c == Pay(b, t, amt)
<1>1. amt \in [Users -> Int] /\ b \in Ledgers
  BY BooksAreLedgers
<1>2. Sum(amt) \in Int /\ Sum(amt) <= b.fund[t]
  BY <1>1, SumOfTwo DEF CanPay
<1>3. Wealth(c) = Wealth(b)
  BY <1>1, PayKeeps
<1>4. c = [wallet |-> Plus(b.wallet, amt), held |-> b.held, fund |-> [b.fund EXCEPT ![t] = b.fund[t] - Sum(amt)]]
  BY DEF Pay
<1>5. b.held \in [Tables -> [Users -> Nat]] /\ b.fund \in [Tables -> Nat] /\ b.wallet \in [Users -> Int]
  BY DEF Books
<1> HIDE DEF c
<1>6. Plus(b.wallet, amt) \in [Users -> Int] /\ \A v \in Users : Plus(b.wallet, amt)[v] = b.wallet[v] + amt[v]
  BY <1>5 DEF Plus
<1>7. [b.fund EXCEPT ![t] = b.fund[t] - Sum(amt)] \in [Tables -> Nat]
  BY <1>2, <1>5
<1>8. c \in Books
  BY <1>4, <1>5, <1>6, <1>7 DEF Books
<1>9. QED
  BY <1>3, <1>4, <1>6, <1>8 DEF c

(* A step on one table keeps the pots of the others.                       *)
LEMMA OtherPots ==
    ASSUME NEW t \in Tables, Touches(t), PotIsTheStakes, UNCHANGED <<stake, other>>,
           book'.fund[t] = IF state'[t] = "lobby" THEN stake[t] * Cardinality(players'[t]) ELSE 0,
           Wealth(book') = Wealth(book)
    PROVE  PotIsTheStakes'
BY DEF PotIsTheStakes, Touches

LEMMA TableStart == ASSUME Finite, Init PROVE TableInv
<1>1. BInv
  BY InitBInv
<1>2. /\ state = [t \in Tables |-> "none"] /\ players = [t \in Tables |-> {}] /\ mode = [t \in Tables |-> ""]
      /\ stake \in [Tables -> Stakes] /\ timer = [t \in Tables |-> 0] /\ topic = [t \in Tables |-> Null]
      /\ other = [u \in Users |-> Start] /\ book = Opened(other)
  BY DEF Init
<1>3. ResultInv
  <2>1. Staked
    BY <1>2, BlackwhiteAssumption DEF Staked
  <2>2. Rows /\ MinorityWins
    BY <1>2, FS_EmptySet DEF Rows, MinorityWins
  <2>3. QED
    BY <2>1, <2>2 DEF ResultInv
<1>4. /\ book.wallet = other /\ other \in [Users -> Int]
      /\ book.held = [t \in Tables |-> [u \in Users |-> 0]] /\ book.fund = [t \in Tables |-> 0]
      /\ book = [wallet |-> book.wallet, held |-> book.held, fund |-> book.fund]
  <2>1. other \in [Users -> Int]
    <3>1. Start \in Int
      BY BlackwhiteAssumption
    <3>2. QED
      BY <1>2, <3>1
  <2>2. book = [wallet |-> other, held |-> [t \in Tables |-> [u \in Users |-> 0]], fund |-> [t \in Tables |-> 0]]
    BY <1>2 DEF Opened
  <2>3. QED
    BY <2>1, <2>2
<1>5. TypeOK
  <2>1. book \in Books
    <3>1. book.held \in [Tables -> [Users -> Nat]] /\ book.fund \in [Tables -> Nat]
      BY <1>4
    <3>2. QED
      BY <1>4, <3>1 DEF Books
  <2>2. changes \in Nat /\ active \subseteq Users /\ enabled \in BOOLEAN
        /\ linked \in [Users -> Tgs \cup {Null}] /\ Linked(linked)
    BY DEF Init
  <2>3. \A t \in Tables : state[t] # "lobby"
    BY <1>2
  <2>4. QED
    BY <1>2, <1>4, <2>1, <2>2, <2>3 DEF TypeOK, Ends
<1>6. Seated
  BY <1>2 DEF Seated, Once
<1>7. EveryPointAccounted
  <2>1. SUFFICES ASSUME NEW u \in Users PROVE Accounted(u)
    BY <1>5, <1>6, Accounts
  <2> DEFINE f == GainsOf(u)
  <2>2. \A t \in Tables : f[t] = 0
    BY <1>2, NoGain DEF GainsOf
  <2> HIDE DEF f
  <2>3. SumFunctionOnSet(f, {}) = 0
    BY NoSum
  <2>4. SumFunctionOnSet(f, Tables) = SumFunctionOnSet(f, {})
    <3>1. IsFiniteSet(Tables) /\ {} \subseteq Tables
      BY DEF Finite
    <3>2. (\A t \in Tables : f[t] \in Int) /\ \A t \in Tables \ {} : f[t] = 0
      BY <2>2
    <3>3. QED
      BY <3>1, <3>2, SumWithin
  <2>5. SumFunctionOnSet(GainsOf(u), Tables) = 0
    BY <2>3, <2>4 DEF f
  <2>6. other[u] \in Int
    BY <1>4
  <2>7. QED
    BY <1>4, <2>5, <2>6 DEF Accounted
<1>8. PotIsTheStakes
  <2>1. \A t \in Tables : Sum(book.held[t]) + book.fund[t] = 0
    <3>1. SUFFICES ASSUME NEW t \in Tables PROVE Sum(book.held[t]) + book.fund[t] = 0
      OBVIOUS
    <3>2. book.held[t] = Each({}, 0)
      BY <1>4 DEF Each
    <3>3. Sum(Each({}, 0)) = 0 * Cardinality({}) /\ Cardinality({}) = 0
      <4>1. {} \in SUBSET Users /\ 0 \in Int
        OBVIOUS
      <4>2. QED
        BY <4>1, SumOfEach, FS_EmptySet
    <3>4. Sum(book.held[t]) = 0
      BY <3>2, <3>3
    <3>5. QED
      BY <1>4, <3>4
  <2> DEFINE f == [t \in Tables |-> Sum(book.held[t]) + book.fund[t]]
  <2>2. \A t \in Tables : f[t] = 0
    BY <2>1
  <2>3. Wealth(book) = Sum(book.wallet) + SumFunctionOnSet(f, Tables)
    BY DEF Wealth, Sum, SumFunction
  <2> HIDE DEF f
  <2>4. SumFunctionOnSet(f, Tables) = 0 * Cardinality({}) /\ Cardinality({}) = 0
    BY <2>2, SumEach, FS_EmptySet DEF Finite
  <2>5. Sum(other) \in Int
    BY <1>4, SumOfTwo
  <2>6. Wealth(book) = Sum(other)
    BY <1>4, <2>3, <2>4, <2>5
  <2>7. \A t \in Tables : book.fund[t] = 0 /\ state[t] # "lobby"
    BY <1>2, <1>4
  <2>8. QED
    BY <2>6, <2>7 DEF PotIsTheStakes
<1>9. QED
  BY <1>1, <1>3, <1>5, <1>6, <1>7, <1>8 DEF TableInv

LEMMA CreateMoney ==
    ASSUME Finite, TableInv, NEW t \in Tables, NEW tg \in Tgs, NEW u \in Users, NEW place \in Topics,
           Create(t, tg, u, place)
    PROVE  TypeOK' /\ Seated' /\ EveryPointAccounted' /\ PotIsTheStakes'
<1>1. Touches(t)
  BY CreateStep DEF TableInv
<1>2. /\ state[t] = "none" /\ state' = [state EXCEPT ![t] = "lobby"] /\ topic' = [topic EXCEPT ![t] = place]
      /\ timer' = [timer EXCEPT ![t] = Lobby]
      /\ UNCHANGED <<book, linked, active, enabled, changes, other, stake, players, mode>>
  BY DEF Create, world
<1>3. players[t] = {} /\ Cardinality(players[t]) = 0
  BY <1>2, FS_EmptySet DEF TableInv, BInv, NoRowsYet
<1>4. 0 < Seats /\ Lobby \in Nat
  BY BlackwhiteAssumption
<1>5. TypeOK'
  BY <1>2, <1>3, <1>4 DEF TableInv, TypeOK
<1>6. Seated'
  BY <1>2, <1>3 DEF TableInv, Seated, TypeOK
<1>7. EveryPointAccounted'
  BY <1>2 DEF TableInv, EveryPointAccounted, SatAt, AwardOf
<1>8. PotIsTheStakes'
  <2>1. book.fund[t] = 0 /\ stake[t] \in Nat /\ state'[t] = "lobby"
    BY <1>2, BlackwhiteAssumption DEF TableInv, PotIsTheStakes, TypeOK
  <2>2. stake[t] * 0 = 0
    BY <2>1
  <2>3. PotIsTheStakes
    BY DEF TableInv
  <2>4. QED
    BY <1>1, <1>2, <1>3, <2>1, <2>2, <2>3, OtherPots
<1>9. QED
  BY <1>5, <1>6, <1>7, <1>8

AllAccounted == \A u \in Users : Accounted(u)

LEMMA AccountsHold == Finite => (TypeOK /\ Seated => (AllAccounted <=> EveryPointAccounted))
BY Accounts DEF AllAccounted

LEMMA StakeGone == ASSUME NEW w \in Int, NEW n \in Int PROVE /\ (w - n) - w = (0 - n) - 0
                                                          /\ (w - 0) - w = 0 - 0
                                                          /\ (w - 0) - w = (0 - n) - (0 - n)
OBVIOUS

LEMMA StakeBack == ASSUME NEW w \in Int, NEW n \in Int, NEW a \in Int
                   PROVE /\ ((w - n) + a) - w = (a - n) - 0
                         /\ ((w - 0) + 0) - w = 0 - 0
                         /\ ((w - 0) + a) - w = (a - n) - (0 - n)
OBVIOUS

(* Whatever a full table may pay, it pays the pot, and to its members.     *)
FullRows(S) ==
    /\ IsFiniteSet(S) /\ Once(S) /\ Cardinality(S) = Seats
    /\ \A p \in S : p.user \in Users /\ p.choice \in Sides
PaysThePot(S, n, awards) ==
    /\ awards \in [Users -> Nat] /\ Sum(awards) = n * Seats
    /\ \A v \in Users : (~\E p \in S : p.user = v) => awards[v] = 0

LEMMA AwardsAreThePot ==
    ASSUME Finite, NEW S, FullRows(S), NEW n \in Nat,
           NEW awards \in Awards({p.user : p \in S}, SideOf(S, "black"), SideOf(S, "white"), n * Seats)
    PROVE  PaysThePot(S, n, awards)
<1> DEFINE all == {p.user : p \in S}
           B == SideOf(S, "black")
           W == SideOf(S, "white")
           m == IF Cardinality(B) < Cardinality(W) THEN B ELSE W
<1>1. Seats \in Nat \ {0} /\ n * Seats \in Nat
  BY BlackwhiteAssumption
<1>2. all \in SUBSET Users /\ Cardinality(all) = Seats
  BY AsManyMembers DEF Once, FullRows
<1>3. B \subseteq all /\ W \subseteq all /\ m \subseteq all
  BY DEF SideOf
<1>4. \A v : v \in all => \E p \in S : p.user = v
  OBVIOUS
<1>5. awards \in Awards(all, B, W, n * Seats)
  OBVIOUS
<1> HIDE DEF all, B, W
<1>6. CASE B = {} \/ W = {}
  <2>1. (n * Seats) \div Seats = n
    BY <1>1, WholeShare
  <2>2. awards = Each(all, n)
    BY <1>2, <1>5, <1>6, <2>1 DEF Awards
  <2>3. Each(all, n) \in [Users -> Int] /\ Sum(Each(all, n)) = n * Cardinality(all)
    BY <1>2, SumOfEach
  <2>4. \A v \in Users : awards[v] = IF v \in all THEN n ELSE 0
    BY <2>2 DEF Each
  <2>5. awards \in [Users -> Nat]
    BY <2>2, <2>4 DEF Each
  <2>6. QED
    BY <1>2, <1>4, <2>2, <2>3, <2>4, <2>5 DEF PaysThePot
<1>7. CASE ~(B = {} \/ W = {})
  <2>1. awards \in FairSplits(n * Seats, m) /\ m # {} /\ m \in SUBSET Users
    BY <1>2, <1>3, <1>5, <1>7 DEF Awards
  <2> HIDE DEF m
  <2>2. awards \in [Users -> Nat] /\ Sum(awards) = n * Seats /\ \A v \in Users : v \notin m => awards[v] = 0
    BY <1>1, <2>1, SplitIsWhole
  <2>3. QED
    BY <1>3, <1>4, <2>2 DEF PaysThePot
<1>8. QED
  BY <1>6, <1>7

LEMMA JoinMoney ==
    ASSUME Finite, TableInv, NEW t \in Tables, NEW tg \in Tgs, NEW u \in Users, NEW side \in Sides,
           Join(t, tg, u, side)
    PROVE  TypeOK' /\ Seated' /\ EveryPointAccounted' /\ PotIsTheStakes'
<1> DEFINE new == [user |-> u, tg |-> tg, choice |-> side, award |-> 0]
           old == players[t]
           seated == old \cup {new}
           n == stake[t]
           c == Staking(book, t, u, n)
           on(s) == {p.user : p \in {q \in seated : q.choice = s}}
           all == {p.user : p \in seated}
<1>1. /\ state[t] = "lobby" /\ ~Occupied(u, tg) /\ CanReserve(book, Only(u, n))
      /\ UNCHANGED <<linked, active, enabled, changes, other, topic, stake, timer>>
  BY DEF Join, Open, world
<1>2. TypeOK /\ Seated /\ PotIsTheStakes /\ (\A v \in Users : Accounted(v)) /\ BInv /\ ResultInv
  BY AccountsHold DEF TableInv, AllAccounted
<1>3. /\ book \in Books /\ n \in Nat \ {0} /\ old \subseteq Player /\ Cardinality(old) < Seats /\ IsFiniteSet(old)
      /\ Once(old) /\ (\A p \in old : p.award = 0) /\ book.fund[t] = n * Cardinality(old) /\ Wealth(book) = Sum(other)
      /\ Seats \in Nat
  BY <1>1, <1>2, BlackwhiteAssumption DEF TypeOK, Seated, PotIsTheStakes, ResultInv, Rows, Staked, Ends
<1>4. /\ state \in [Tables -> {"none", "lobby"} \cup Ends] /\ players \in [Tables -> SUBSET Player]
      /\ mode \in [Tables -> Sides \cup {"", "same", "timeout", "disabled"}]
      /\ book.fund \in [Tables -> Nat] /\ book.wallet \in [Users -> Int]
  BY <1>2, <1>3 DEF TypeOK, Books
<1>5. \A p \in old : p.user # u
  BY <1>1 DEF Occupied
<1>6. new \in Player /\ new.user = u /\ new.award = 0
  BY DEF Player
<1> HIDE DEF new
<1>7. /\ Once(seated) /\ seated \subseteq Player /\ IsFiniteSet(seated) /\ \A p \in seated : p.award = 0
      /\ Cardinality(seated) = Cardinality(old) + 1 /\ Cardinality(old) \in Nat
      /\ \A v : (\E p \in seated : p.user = v) <=> (v = u \/ \E p \in old : p.user = v)
  <2>1. new \notin old
    BY <1>5, <1>6
  <2>2. IsFiniteSet(seated) /\ Cardinality(seated) = Cardinality(old) + 1 /\ Cardinality(old) \in Nat
    BY <1>3, <2>1, FS_AddElement, FS_CardinalityType
  <2>3. Once(seated)
    BY <1>3, <1>5, <1>6 DEF Once
  <2>4. QED
    BY <1>3, <1>6, <2>2, <2>3
<1>8. /\ c \in Books /\ Wealth(c) = Sum(other)
      /\ c.fund = [book.fund EXCEPT ![t] = n * Cardinality(old) + n]
      /\ \A v \in Users : c.wallet[v] = book.wallet[v] - (IF v = u THEN n ELSE 0)
  BY <1>3, StakeIsPut
<1>9. n * Cardinality(old) + n = n * Cardinality(seated)
  <2> DEFINE k == Cardinality(old)
  <2>1. k \in Nat /\ n \in Nat /\ Cardinality(seated) = k + 1
    BY <1>3, <1>7
  <2> HIDE DEF k, n
  <2>2. n * k + n = n * (k + 1)
    BY <2>1
  <2>3. QED
    BY <2>1, <2>2 DEF k
<1>10. /\ c.fund[t] = n * Cardinality(seated) /\ c.wallet \in [Users -> Int] /\ c.fund \in [Tables -> Nat]
  BY <1>4, <1>8, <1>9 DEF Books
<1>11. \A v : Gain(t, v) = IF \E p \in old : p.user = v THEN 0 - n ELSE 0
  BY <1>3, GainOf, RowUnpaid
<1>12. Touches(t)
  BY <1>2, JoinStep
<1> HIDE DEF c, old
<1>13. CASE ~Fills(seated)
  <2>1. book' = c /\ players' = [players EXCEPT ![t] = seated] /\ UNCHANGED <<state, mode>>
    BY <1>13 DEF Join, c, Staking, new, old
  <2> HIDE DEF seated, n
  <2>2. players'[t] = seated /\ players' \in [Tables -> SUBSET Player] /\ \A s \in Tables \ {t} : players'[s] = players[s]
    BY <1>4, <1>7, <2>1
  <2>3. Cardinality(seated) < Seats
    BY <1>3, <1>7, <1>13 DEF Fills
  <2>4. TypeOK'
    BY <1>1, <1>2, <1>8, <2>1, <2>2, <2>3 DEF TypeOK
  <2>5. Seated'
    BY <1>2, <1>7, <2>1, <2>2 DEF Seated
  <2>6. PotIsTheStakes'
    BY <1>1, <1>2, <1>8, <1>10, <1>12, <2>1, <2>2, <1>3, OtherPots DEF n
  <2>7. \A v \in Users : Accounted(v)'
    <3>1. SUFFICES ASSUME NEW v \in Users PROVE Accounted(v)'
      OBVIOUS
    <3>2. Gain(t, v)' = IF \E p \in seated : p.user = v THEN 0 - n ELSE 0
      BY <1>1, <1>7, <2>2, GainOfNext, RowUnpaid DEF n
    <3>3. book'.wallet[v] - book.wallet[v] = Gain(t, v)' - Gain(t, v)
      <4>1. book.wallet[v] \in Int /\ n \in Nat /\ book'.wallet[v] = book.wallet[v] - (IF v = u THEN n ELSE 0)
        BY <1>3, <1>4, <1>8, <2>1
      <4>2. /\ Gain(t, v)' = IF v = u \/ \E p \in old : p.user = v THEN 0 - n ELSE 0
            /\ Gain(t, v) = IF \E p \in old : p.user = v THEN 0 - n ELSE 0
            /\ v = u => ~\E p \in old : p.user = v
        BY <1>5, <1>7, <1>11, <3>2
      <4>3. QED
        BY <4>1, <4>2, StakeGone
    <3>4. UNCHANGED <<stake, other>> /\ Accounted(v)
      BY <1>1, <1>2
    <3>5. QED
      BY <1>2, <2>2, <2>4, <2>5, <3>3, <3>4, OneTablePays
  <2>8. EveryPointAccounted'
    <3>1. AllAccounted'
      BY <2>7 DEF AllAccounted
    <3>2. QED
      BY <2>4, <2>5, <3>1, AccountsHold, PTL
  <2>9. QED
    BY <2>4, <2>5, <2>6, <2>8
<1>14. CASE Fills(seated)
  <2> DEFINE B == SideOf(seated, "black")
             W == SideOf(seated, "white")
  <2>1. PICK awards \in Awards(all, on("black"), on("white"), n * Seats) :
          /\ CanPay(c, t, awards) /\ book' = Pay(c, t, awards)
          /\ players' = [players EXCEPT ![t] = Awarded(seated, awards)]
          /\ state' = [state EXCEPT ![t] = "settled"]
          /\ mode' = [mode EXCEPT ![t] =
               IF on("black") = {} \/ on("white") = {} THEN "same"
               ELSE IF Cardinality(on("black")) < Cardinality(on("white"))
                    THEN "black" ELSE "white"]
    BY <1>14 DEF Join, c, Staking, new, old
  <2>2. on("black") = B /\ on("white") = W /\ Cardinality(seated) = Seats
    BY <1>14 DEF SideOf, Fills
  <2>3. \A p \in seated : p.user \in Users /\ p.choice \in Sides
    BY <1>7 DEF Player
  <2>4. awards \in Awards({p.user : p \in seated}, SideOf(seated, "black"), SideOf(seated, "white"), n * Seats)
    BY <2>1, <2>2
  <2> HIDE DEF seated, n, on, B, W
  <2>5. /\ awards \in [Users -> Nat] /\ Sum(awards) = n * Seats
        /\ \A v \in Users : (~\E p \in seated : p.user = v) => awards[v] = 0
    <3>1. FullRows(seated) /\ n \in Nat
      BY <1>3, <1>7, <2>2, <2>3 DEF FullRows
    <3>2. PaysThePot(seated, n, awards)
      BY <2>4, <3>1, AwardsAreThePot
    <3>3. QED
      BY <3>2 DEF PaysThePot
  <2>6. /\ book' \in Books /\ Wealth(book') = Sum(other)
        /\ book'.fund = [c.fund EXCEPT ![t] = c.fund[t] - Sum(awards)]
        /\ \A v \in Users : book'.wallet[v] = c.wallet[v] + awards[v]
    BY <1>8, <2>1, <2>5, PotPays
  <2>7. book'.fund[t] = 0
    <3>1. c.fund[t] = Sum(awards) /\ c.fund[t] \in Nat
      BY <1>10, <2>2, <2>5
    <3>2. QED
      BY <1>10, <2>6, <3>1
  <2>8. /\ players'[t] = Awarded(seated, awards) /\ state'[t] = "settled"
        /\ \A s \in Tables \ {t} : players'[s] = players[s] /\ state'[s] = state[s]
    BY <1>4, <2>1
  <2>9. Awarded(seated, awards) \subseteq Player
    <3>1. \A p \in seated : p \in [user : Users, tg : Tgs, choice : Sides, award : Nat]
      BY <1>7 DEF Player
    <3>2. \A p \in seated : [user |-> p.user, tg |-> p.tg, choice |-> p.choice, award |-> awards[p.user]] \in Player
      BY <3>1, <2>5 DEF Player
    <3>3. QED
      BY <3>2 DEF Awarded
  <2>10. TypeOK'
    <3>1. players' \in [Tables -> SUBSET Player]
      BY <1>4, <2>1, <2>9
    <3>2. mode' \in [Tables -> Sides \cup {"", "same", "timeout", "disabled"}]
      BY <1>4, <2>1 DEF Sides
    <3>3. state' \in [Tables -> {"none", "lobby"} \cup Ends]
      BY <1>4, <2>1 DEF Ends
    <3>4. \A s \in Tables : state'[s] = "lobby" => Cardinality(players'[s]) < Seats
      BY <1>2, <2>8 DEF TypeOK
    <3>5. QED
      BY <1>1, <1>2, <2>6, <3>1, <3>2, <3>3, <3>4 DEF TypeOK
  <2>11. Seated'
    <3>1. Once(Awarded(seated, awards))
      BY <1>7, AwardedOnce
    <3>2. QED
      BY <1>2, <2>8, <3>1 DEF Seated
  <2>12. PotIsTheStakes'
    BY <1>1, <1>2, <1>3, <1>12, <2>6, <2>7, <2>8, OtherPots
  <2>13. \A v \in Users : Accounted(v)'
    <3>1. SUFFICES ASSUME NEW v \in Users PROVE Accounted(v)'
      OBVIOUS
    <3>2. Gain(t, v)' = IF \E p \in seated : p.user = v THEN awards[v] - n ELSE 0
      BY <1>1, <1>7, <2>8, GainOfNext, RowPaid DEF n
    <3>3. book'.wallet[v] - book.wallet[v] = Gain(t, v)' - Gain(t, v)
      <4>1. /\ book.wallet[v] \in Int /\ n \in Int /\ awards[v] \in Int
            /\ book'.wallet[v] = (book.wallet[v] - (IF v = u THEN n ELSE 0)) + awards[v]
        <5>1. c.wallet[v] = book.wallet[v] - (IF v = u THEN n ELSE 0)
          BY <1>8
        <5>2. book'.wallet[v] = c.wallet[v] + awards[v]
          BY <2>6
        <5>3. book.wallet[v] \in Int /\ n \in Int /\ awards[v] \in Int
          <6>1. book.wallet[v] \in Int
            BY <1>4
          <6>2. n \in Int
            BY <1>3
          <6>3. awards[v] \in Int
            BY <2>5
          <6>4. QED
            BY <6>1, <6>2, <6>3
        <5>4. QED
          BY <5>1, <5>2, <5>3
      <4>2. /\ Gain(t, v)' = IF v = u \/ \E p \in old : p.user = v THEN awards[v] - n ELSE 0
            /\ Gain(t, v) = IF \E p \in old : p.user = v THEN 0 - n ELSE 0
            /\ v = u => ~\E p \in old : p.user = v
            /\ (~(v = u \/ \E p \in old : p.user = v)) => awards[v] = 0
        BY <1>5, <1>7, <1>11, <2>5, <3>2
      <4>3. QED
        BY <4>1, <4>2, StakeBack
    <3>4. UNCHANGED <<stake, other>> /\ Accounted(v)
      BY <1>1, <1>2
    <3>5. QED
      BY <1>2, <2>8, <2>10, <2>11, <3>3, <3>4, OneTablePays
  <2>14. EveryPointAccounted'
    <3>1. AllAccounted'
      BY <2>13 DEF AllAccounted
    <3>2. QED
      BY <2>10, <2>11, <3>1, AccountsHold, PTL
  <2>15. QED
    BY <2>10, <2>11, <2>12, <2>14
<1>15. QED
  BY <1>13, <1>14

LEMMA RefundBack == ASSUME NEW w \in Int, NEW n \in Int
                    PROVE /\ (w + n) - w = (n - n) - (0 - n)
                          /\ (w + 0) - w = 0 - 0
OBVIOUS

LEMMA ExpireMoney ==
    ASSUME Finite, TableInv, NEW t \in Tables, Expire(t)
    PROVE  TypeOK' /\ Seated' /\ EveryPointAccounted' /\ PotIsTheStakes'
<1> DEFINE old == players[t]
           n == stake[t]
           all == Refunded(t)
           refunds == Each(all, n)
<1>1. /\ state[t] = "lobby" /\ CanPay(book, t, refunds) /\ book' = Pay(book, t, refunds)
      /\ players' = [players EXCEPT ![t] = Awarded(old, refunds)]
      /\ UNCHANGED <<linked, active, enabled, changes, other, topic, stake, timer>>
  BY DEF Expire, Due, world
<1>2. \E e \in {"expired", "cancelled"}, m \in {"timeout", "disabled"} :
         state' = [state EXCEPT ![t] = e] /\ mode' = [mode EXCEPT ![t] = m]
  BY DEF Expire
<1>3. TypeOK /\ Seated /\ PotIsTheStakes /\ (\A v \in Users : Accounted(v)) /\ BInv /\ ResultInv
  BY AccountsHold DEF TableInv, AllAccounted
<1>4. /\ book \in Books /\ n \in Nat /\ old \subseteq Player /\ IsFiniteSet(old)
      /\ Once(old) /\ (\A p \in old : p.award = 0) /\ book.fund[t] = n * Cardinality(old) /\ Wealth(book) = Sum(other)
  BY <1>1, <1>3, BlackwhiteAssumption DEF TypeOK, Seated, PotIsTheStakes, ResultInv, Rows, Staked, Ends
<1>5. /\ state \in [Tables -> {"none", "lobby"} \cup Ends] /\ players \in [Tables -> SUBSET Player]
      /\ mode \in [Tables -> Sides \cup {"", "same", "timeout", "disabled"}]
      /\ book.fund \in [Tables -> Nat] /\ book.wallet \in [Users -> Int]
  BY <1>3, <1>4 DEF TypeOK, Books
<1>6. /\ all \in SUBSET Users /\ Cardinality(all) = Cardinality(old) /\ Cardinality(old) \in Nat
      /\ \A v : v \in all <=> \E p \in old : p.user = v
  <2>1. all = {p.user : p \in old}
    BY DEF Refunded
  <2>2. Cardinality({p.user : p \in old}) = Cardinality(old)
    BY <1>4, AsManyMembers DEF Once
  <2>3. \A p \in old : p.user \in Users
    BY <1>4 DEF Player
  <2> HIDE DEF old, all
  <2>4. Cardinality(old) \in Nat
    BY <1>4, FS_CardinalityType
  <2>5. QED
    BY <2>1, <2>2, <2>3, <2>4
<1> HIDE DEF all
<1>7. /\ refunds \in [Users -> Nat] /\ Sum(refunds) = n * Cardinality(old)
      /\ \A v \in Users : refunds[v] = IF \E p \in old : p.user = v THEN n ELSE 0
  <2>1. n \in Int
    BY <1>4
  <2> HIDE DEF n
  <2>2. Sum(Each(all, n)) = n * Cardinality(all)
    BY <1>6, <2>1, SumOfEach
  <2>3. \A v \in Users : refunds[v] = IF v \in all THEN n ELSE 0
    BY DEF Each
  <2>4. refunds \in [Users -> Nat]
    BY <1>4, <2>3 DEF Each
  <2>5. QED
    BY <1>6, <2>2, <2>3, <2>4
<1>8. Touches(t)
  BY <1>3, ExpireStep
<1>9. \A v : Gain(t, v) = IF \E p \in old : p.user = v THEN 0 - n ELSE 0
  BY <1>4, GainOf, RowUnpaid
<1> HIDE DEF refunds, old, n
<1>10. /\ book' \in Books /\ Wealth(book') = Sum(other)
       /\ book'.fund = [book.fund EXCEPT ![t] = book.fund[t] - Sum(refunds)]
       /\ \A v \in Users : book'.wallet[v] = book.wallet[v] + refunds[v]
  BY <1>1, <1>4, <1>7, PotPays
<1>11. book'.fund[t] = 0
  <2>1. book.fund[t] = Sum(refunds) /\ book.fund[t] \in Nat
    BY <1>4, <1>5, <1>7
  <2>2. book'.fund[t] = book.fund[t] - Sum(refunds)
    BY <1>5, <1>10
  <2>3. QED
    BY <2>1, <2>2
<1>12. /\ players'[t] = Awarded(old, refunds) /\ state'[t] # "lobby"
       /\ \A s \in Tables \ {t} : players'[s] = players[s] /\ state'[s] = state[s]
  BY <1>1, <1>2, <1>5
<1>13. Awarded(old, refunds) \subseteq Player
  <2>1. \A p \in old : p \in [user : Users, tg : Tgs, choice : Sides, award : Nat]
    BY <1>4 DEF Player
  <2>2. \A p \in old : [user |-> p.user, tg |-> p.tg, choice |-> p.choice, award |-> refunds[p.user]] \in Player
    BY <1>7, <2>1 DEF Player
  <2>3. QED
    BY <2>2 DEF Awarded
<1>14. TypeOK'
  <2>1. players' \in [Tables -> SUBSET Player]
    BY <1>1, <1>5, <1>13
  <2>2. mode' \in [Tables -> Sides \cup {"", "same", "timeout", "disabled"}] /\ state' \in [Tables -> {"none", "lobby"} \cup Ends]
    <3>1. PICK e \in {"expired", "cancelled"}, m \in {"timeout", "disabled"} :
             state' = [state EXCEPT ![t] = e] /\ mode' = [mode EXCEPT ![t] = m]
      BY <1>2
    <3>2. e \in Ends
      BY DEF Ends
    <3>3. state' \in [Tables -> {"none", "lobby"} \cup Ends]
      BY <3>1, <3>2, <1>5
    <3>4. mode' \in [Tables -> Sides \cup {"", "same", "timeout", "disabled"}]
      BY <3>1, <1>5
    <3> QED
      BY <3>3, <3>4
  <2>3. \A s \in Tables : state'[s] = "lobby" => Cardinality(players'[s]) < Seats
    BY <1>3, <1>12 DEF TypeOK
  <2>4. QED
    BY <1>1, <1>3, <1>10, <2>1, <2>2, <2>3 DEF TypeOK
<1>15. Seated'
  <2>1. Once(Awarded(old, refunds))
    BY <1>4, AwardedOnce
  <2>2. QED
    BY <1>3, <1>12, <2>1 DEF Seated
<1>16. PotIsTheStakes'
  BY <1>1, <1>3, <1>4, <1>8, <1>10, <1>11, <1>12, OtherPots
<1>17. ASSUME NEW v \in Users PROVE Accounted(v)'
  <2>1. Gain(t, v)' = IF \E p \in old : p.user = v THEN refunds[v] - n ELSE 0
    BY <1>1, <1>4, <1>12, GainOfNext, RowPaid DEF n
  <2>2. book'.wallet[v] - book.wallet[v] = Gain(t, v)' - Gain(t, v)
    <3>1. book.wallet[v] \in Int
      BY <1>5
    <3>2. n \in Int
      BY <1>4
    <3>3. book'.wallet[v] = book.wallet[v] + (IF \E p \in old : p.user = v THEN n ELSE 0)
      BY <1>7, <1>10
    <3>4. /\ Gain(t, v)' = IF \E p \in old : p.user = v THEN n - n ELSE 0
          /\ Gain(t, v) = IF \E p \in old : p.user = v THEN 0 - n ELSE 0
      BY <1>7, <1>9, <2>1
    <3>5. QED
      BY <3>1, <3>2, <3>3, <3>4, RefundBack
  <2>3. UNCHANGED <<stake, other>> /\ Accounted(v)
    BY <1>1, <1>3
  <2>4. QED
    BY <1>3, <1>12, <1>14, <1>15, <2>2, <2>3, OneTablePays
<1>18. EveryPointAccounted'
  <2>1. AllAccounted'
    BY <1>17 DEF AllAccounted
  <2>2. QED
    BY <1>14, <1>15, <2>1, AccountsHold, PTL
<1>19. QED
  BY <1>14, <1>15, <1>16, <1>18

(* What a member earns elsewhere adds to what he owns and to what he earned. *)
LEMMA EarnElsewhere ==
    ASSUME Finite, TableInv, NEW u \in Users, NEW delta \in Deltas, OtherPoints(u, delta)
    PROVE  book' \in Books /\ other' \in [Users -> Int] /\ EveryPointAccounted' /\ PotIsTheStakes'
<1>1. TypeOK /\ PotIsTheStakes /\ EveryPointAccounted
  BY DEF TableInv
<1>2. /\ book' = Earn(book, u, delta) /\ other' = [other EXCEPT ![u] = other[u] + delta]
      /\ UNCHANGED <<state, stake, players>>
  BY DEF OtherPoints, tables
<1>3. book \in Books /\ other \in [Users -> Int] /\ delta \in Int
  BY <1>1, BlackwhiteAssumption DEF TypeOK
<1>4. book.wallet \in [Users -> Int] /\ book.held \in [Tables -> [Users -> Nat]] /\ book.fund \in [Tables -> Nat]
  BY <1>3 DEF Books
<1>5. book' = [wallet |-> [book.wallet EXCEPT ![u] = book.wallet[u] + delta], held |-> book.held, fund |-> book.fund]
  BY <1>2 DEF Earn
<1>6. /\ book'.wallet = [book.wallet EXCEPT ![u] = book.wallet[u] + delta] /\ book'.held = book.held /\ book'.fund = book.fund
  BY <1>5
<1>7. book' \in Books
  BY <1>3, <1>4, <1>5 DEF Books
<1>8. other' \in [Users -> Int]
  BY <1>2, <1>3
<1>9. EveryPointAccounted'
  <2>1. SUFFICES ASSUME NEW v \in Users
                 PROVE  book'.wallet[v] = other'[v] + SumFunction([t \in SatAt(v)' |-> AwardOf(t, v)'])
    BY DEF EveryPointAccounted
  <2> DEFINE gains == SumFunction([t \in SatAt(v) |-> AwardOf(t, v)])
  <2>2. SatAt(v)' = SatAt(v) /\ \A t : AwardOf(t, v)' = AwardOf(t, v)
    BY <1>2 DEF SatAt, AwardOf
  <2>3. book.wallet[v] = other[v] + gains
    BY <1>1 DEF EveryPointAccounted
  <2>4. SumFunction([t \in SatAt(v)' |-> AwardOf(t, v)']) = gains
    BY <2>2
  <2>5. gains \in Int
    <3>1. \A s \in Tables : Gain(s, v) \in Int
      BY GainInt DEF TableInv
    <3>2. gains = SumFunctionOnSet(GainsOf(v), Tables)
      BY AccountIs DEF TableInv
    <3>3. \A s \in Tables : GainsOf(v)[s] \in Int
      BY <3>1 DEF GainsOf
    <3>4. QED
      BY <3>2, <3>3, SumInt DEF Finite
  <2> HIDE DEF gains
  <2>6. book'.wallet[v] = other'[v] + gains
    BY <1>2, <1>3, <1>4, <1>6, <2>3, <2>5
  <2>7. QED
    BY <2>4, <2>6
<1>10. Sum(book'.wallet) = Sum(book.wallet) + delta /\ Sum(other') = Sum(other) + delta
  <2>1. ASSUME NEW f \in [Users -> Int], NEW g, g = [f EXCEPT ![u] = f[u] + delta] PROVE Sum(g) = Sum(f) + delta
    <3>1. g \in [Users -> Int] /\ (\A x \in Users \ {u} : f[x] = g[x]) /\ g[u] = f[u] + delta
      BY <1>3, <2>1
    <3>2. SumFunctionOnSet(g, Users) = SumFunctionOnSet(f, Users) + g[u] - f[u]
      <4>1. \A x \in Users : f[x] \in Int /\ g[x] \in Int
        BY <3>1
      <4>2. IsFiniteSet(Users)
        BY DEF Finite
      <4>3. QED
        BY <3>1, <4>1, <4>2, SumChange
    <3>3. Sum(f) \in Int /\ Sum(f) = SumFunctionOnSet(f, Users) /\ Sum(g) = SumFunctionOnSet(g, Users)
      BY <3>1, SumOfTwo, SumOnUsers
    <3>4. QED
      BY <1>3, <3>1, <3>2, <3>3
  <2>2. QED
    BY <1>2, <1>3, <1>4, <1>6, <2>1
<1>11. Wealth(book') = Wealth(book) + delta
  <2> DEFINE f == [t \in Tables |-> Sum(book.held[t]) + book.fund[t]]
  <2>1. Wealth(book) = Sum(book.wallet) + Sum(f) /\ Wealth(book') = Sum(book'.wallet) + Sum(f)
    BY <1>6 DEF Wealth
  <2>2. Sum(f) \in Int
    <3>1. \A t \in Tables : f[t] \in Int
      <4>1. book \in Ledgers
        BY <1>3, BooksAreLedgers
      <4>2. QED
        BY <4>1, OnTableInt DEF OnTable
    <3>2. Sum(f) = SumFunctionOnSet(f, Tables)
      BY DEF Sum, SumFunction
    <3> HIDE DEF f
    <3>3. QED
      BY <3>1, <3>2, SumInt DEF Finite
  <2> HIDE DEF f
  <2>3. Sum(book.wallet) \in Int
    BY <1>4, SumOfTwo
  <2>4. QED
    BY <1>3, <1>10, <2>1, <2>2, <2>3
<1>12. PotIsTheStakes'
  BY <1>1, <1>2, <1>6, <1>10, <1>11 DEF PotIsTheStakes
<1>13. QED
  BY <1>7, <1>8, <1>9, <1>12

LEMMA TypeKept ==
    ASSUME TypeOK, UNCHANGED <<state, stake, players, mode, topic>>,
           book' \in Books, other' \in [Users -> Int], linked' \in [Users -> Tgs \cup {Null}], Linked(linked'),
           active' \subseteq Users, enabled' \in BOOLEAN, changes' \in Nat, timer' \in [Tables -> Nat]
    PROVE  TypeOK'
BY DEF TypeOK

LEMMA WorldMoney ==
    ASSUME Finite, TableInv, Tick \/ Environment \/ UNCHANGED vars
    PROVE  TypeOK' /\ Seated' /\ EveryPointAccounted' /\ PotIsTheStakes'
<1>1. /\ TypeOK /\ Seated /\ PotIsTheStakes /\ EveryPointAccounted
  BY DEF TableInv
<1>2. UNCHANGED <<state, stake, players, mode, topic>>
  BY DEF Tick, Environment, Rebind, Suspend, Switch, OtherPoints, vars, tables
<1>3. Seated'
  BY <1>1, <1>2 DEF Seated
<1>4. ASSUME UNCHANGED <<book, other>> PROVE EveryPointAccounted' /\ PotIsTheStakes'
  BY <1>1, <1>2, <1>4 DEF EveryPointAccounted, SatAt, AwardOf, PotIsTheStakes
<1>5. CASE Tick
  <2>1. timer' \in [Tables -> Nat]
    <3>1. /\ timer \in [Tables -> Nat]
          /\ timer' = [t \in Tables |-> IF state[t] = "lobby" /\ timer[t] > 0 THEN timer[t] - 1 ELSE timer[t]]
      BY <1>1, <1>5 DEF Tick, TypeOK
    <3>2. \A t \in Tables : (IF state[t] = "lobby" /\ timer[t] > 0 THEN timer[t] - 1 ELSE timer[t]) \in Nat
      BY <3>1
    <3>3. QED
      BY <3>1, <3>2
  <2>2. UNCHANGED <<book, other, linked, active, enabled, changes>>
    BY <1>5 DEF Tick, world
  <2>3. TypeOK'
    BY <1>1, <1>2, <2>1, <2>2 DEF TypeOK
  <2>4. QED
    BY <1>3, <1>4, <2>2, <2>3
<1>6. ASSUME NEW u \in Users, NEW tg \in Tgs \cup {Null}, Rebind(u, tg)
      PROVE  TypeOK' /\ EveryPointAccounted' /\ PotIsTheStakes'
  <2>1. /\ linked' = [v \in Users |-> IF v = u THEN tg ELSE IF linked[v] = tg THEN Null ELSE linked[v]]
        /\ changes' = changes + 1 /\ UNCHANGED <<book, other, active, enabled, timer>>
    BY <1>6 DEF Rebind, Outside, tables
  <2>2. linked \in [Users -> Tgs \cup {Null}] /\ Linked(linked) /\ changes \in Nat
    BY <1>1 DEF TypeOK
  <2>3. linked' \in [Users -> Tgs \cup {Null}]
    BY <2>1, <2>2
  <2>4. Linked(linked')
    BY <2>1, <2>2 DEF Linked
  <2>5. TypeOK'
    <3>1. book \in Books /\ other \in [Users -> Int] /\ active \subseteq Users /\ enabled \in BOOLEAN
          /\ timer \in [Tables -> Nat]
      BY <1>1 DEF TypeOK
    <3>2. changes' \in Nat
      BY <2>1, <2>2
    <3>3. QED
      BY <1>1, <1>2, <2>1, <2>3, <2>4, <3>1, <3>2, TypeKept
  <2>6. QED
    BY <1>4, <2>1, <2>5
<1>7. ASSUME NEW u \in Users, Suspend(u)
      PROVE  TypeOK' /\ EveryPointAccounted' /\ PotIsTheStakes'
  <2>1. UNCHANGED <<book, other, linked, enabled, timer>> /\ active' \subseteq active /\ changes' = changes + 1
    BY <1>7 DEF Suspend, Outside, tables
  <2>2. TypeOK'
    <3>1. book \in Books /\ other \in [Users -> Int] /\ linked \in [Users -> Tgs \cup {Null}] /\ Linked(linked)
          /\ timer \in [Tables -> Nat] /\ active \subseteq Users /\ enabled \in BOOLEAN /\ changes \in Nat
      BY <1>1 DEF TypeOK
    <3>2. active' \subseteq Users /\ enabled' \in BOOLEAN /\ changes' \in Nat
      BY <2>1, <3>1
    <3>3. QED
      BY <1>1, <1>2, <2>1, <3>1, <3>2, TypeKept
  <2>3. QED
    BY <1>4, <2>1, <2>2
<1>8. ASSUME Switch PROVE TypeOK' /\ EveryPointAccounted' /\ PotIsTheStakes'
  <2>1. UNCHANGED <<book, other, linked, active, timer>> /\ enabled' = ~enabled /\ changes' = changes + 1
    BY <1>8 DEF Switch, Outside, tables
  <2>2. TypeOK'
    <3>1. book \in Books /\ other \in [Users -> Int] /\ linked \in [Users -> Tgs \cup {Null}] /\ Linked(linked)
          /\ timer \in [Tables -> Nat] /\ active \subseteq Users /\ enabled \in BOOLEAN /\ changes \in Nat
      BY <1>1 DEF TypeOK
    <3>2. active' \subseteq Users /\ enabled' \in BOOLEAN /\ changes' \in Nat
      BY <2>1, <3>1
    <3>3. QED
      BY <1>1, <1>2, <2>1, <3>1, <3>2, TypeKept
  <2>3. QED
    BY <1>4, <2>1, <2>2
<1>9. ASSUME NEW u \in Users, NEW delta \in Deltas, OtherPoints(u, delta)
      PROVE  TypeOK' /\ EveryPointAccounted' /\ PotIsTheStakes'
  <2>1. book' \in Books /\ other' \in [Users -> Int] /\ EveryPointAccounted' /\ PotIsTheStakes'
    BY <1>9, EarnElsewhere
  <2>2. UNCHANGED <<linked, active, enabled, timer>> /\ changes' = changes + 1
    BY <1>9 DEF OtherPoints, Outside, tables
  <2>3. TypeOK'
    <3>1. linked \in [Users -> Tgs \cup {Null}] /\ Linked(linked)
          /\ timer \in [Tables -> Nat] /\ active \subseteq Users /\ enabled \in BOOLEAN /\ changes \in Nat
      BY <1>1 DEF TypeOK
    <3>2. changes' \in Nat
      BY <2>2, <3>1
    <3>3. QED
      BY <1>1, <1>2, <2>1, <2>2, <3>1, <3>2, TypeKept
  <2>4. QED
    BY <2>1, <2>3
<1>10. CASE UNCHANGED vars
  <2>1. UNCHANGED <<book, other, linked, active, enabled, changes, timer>>
    BY <1>10 DEF vars, world, tables
  <2>2. TypeOK'
    BY <1>1, <1>2, <2>1 DEF TypeOK
  <2>3. QED
    BY <1>3, <1>4, <2>1, <2>2
<1>11. QED
  BY <1>3, <1>5, <1>6, <1>7, <1>8, <1>9, <1>10 DEF Environment

LEMMA TableStep == ASSUME Finite, TableInv, [Next]_vars PROVE TableInv'
<1>1. BInv' /\ ResultInv'
  BY NextBInv, ResultStep DEF TableInv
<1>2. TypeOK' /\ Seated' /\ EveryPointAccounted' /\ PotIsTheStakes'
  BY CreateMoney, JoinMoney, ExpireMoney, WorldMoney DEF Next
<1>3. QED
  BY <1>1, <1>2 DEF TableInv

(* In black and white every point is accounted for: a member has what he    *)
(* earned elsewhere and what his tables brought him, a pot holds the stakes *)
(* of who sits there until it is paid or returned, and no point is made or  *)
(* lost (blackwhite.py, join, finish and expire).                          *)
THEOREM BlackwhitePointsExact == Finite => (Spec => [](TypeOK /\ EveryPointAccounted /\ PotIsTheStakes))
<1> SUFFICES ASSUME Finite PROVE Spec => [](TypeOK /\ EveryPointAccounted /\ PotIsTheStakes)
  OBVIOUS
<1>1. Init => TableInv
  BY TableStart
<1>2. TableInv /\ [Next]_vars => TableInv'
  BY TableStep
<1>3. TableInv => TypeOK /\ EveryPointAccounted /\ PotIsTheStakes
  BY DEF TableInv
<1>4. QED
  BY <1>1, <1>2, <1>3, PTL DEF Spec

LEMMA CountMembers == \A X : Dice!Cardinality(X) = Cardinality(X)
BY Zenon DEF Dice!Cardinality, Cardinality

LEMMA DiceSums == \A f : Dice!SumFunction(f) = SumFunctionOnSet(f, DOMAIN f)
BY DEF Dice!SumFunction, Dice!SumFunctionOnSet, Dice!FoldFunctionOnSet, Dice!MapThenFoldSet, SumFunctionOnSet, FoldFunctionOnSet, MapThenFoldSet

LEMMA MinOfThree ==
    ASSUME NEW a \in Int, NEW b \in Int, NEW c \in Int
    PROVE  /\ Dice!Min({a, b, c}) \in Int
           /\ Dice!Min({a, b, c}) <= a /\ Dice!Min({a, b, c}) <= b /\ Dice!Min({a, b, c}) <= c
<1>1. \E x \in {a, b, c} : \A y \in {a, b, c} : x <= y
  OBVIOUS
<1>2. /\ Dice!Min({a, b, c}) \in {a, b, c} /\ \A y \in {a, b, c} : Dice!Min({a, b, c}) <= y
  BY <1>1 DEF Dice!Min
<1>3. QED
  BY <1>2

(* One more term.                                                          *)
LEMMA SumAdd ==
    ASSUME NEW S, IsFiniteSet(S), NEW y, y \notin S, NEW f, NEW g,
           \A x \in S : f[x] \in Int /\ g[x] = f[x], g[y] \in Int
    PROVE  SumFunctionOnSet(g, S \cup {y}) = SumFunctionOnSet(f, S) + g[y] /\ SumFunctionOnSet(f, S) \in Int
<1> DEFINE T == S \cup {y}
<1>1. IsFiniteSet(T) /\ y \in T /\ T \ {y} = S /\ \A x \in T : g[x] \in Int
  BY FS_AddElement
<1> HIDE DEF T
<1>2. SumFunctionOnSet(g, T) = g[y] + SumFunctionOnSet(g, S)
  BY <1>1, SumPick
<1>3. SumFunctionOnSet(g, S) = SumFunctionOnSet(f, S) /\ SumFunctionOnSet(f, S) \in Int
  BY SumSame, SumInt
<1>4. QED
  BY <1>1, <1>2, <1>3 DEF T

Placed(ts, ms) == SumFunctionOnSet([m \in ms |-> ts[m].amount], ms)

LEMMA StakedIs == \A ms : Dice!Staked(ms) = Placed(tickets, ms)
BY DiceSums DEF Dice!Staked, Placed

LEMMA StakedNext == \A ms : Dice!Staked(ms)' = Placed(tickets', ms)
BY DiceSums DEF Dice!Staked, Placed

(* The bank's book before the round is over.                               *)
Balance(ts, ms, purse, capital) ==
    /\ Placed(ts, {m \in ms : m.side = "big"}) - Placed(ts, {m \in ms : m.side = "small"}) \in (-capital)..capital
    /\ SumFunctionOnSet(purse, Company) + capital + Placed(ts, ms) = Start * Cardinality(Company)

Amounts(ts, ms) == IsFiniteSet(ms) /\ \A m \in ms : ts[m].amount \in Nat

BankInv ==
    /\ Amounts(tickets, Dice!Accepted)
    /\ round.capital \in Nat
    /\ round.state = "none" => round.capital = 0
    /\ round.state \notin Dice!Terminal =>
          wallet \in [Company -> Int] /\ Balance(tickets, Dice!Accepted, wallet, round.capital)

LEMMA PlacedInt ==
    ASSUME NEW ts, NEW ms, Amounts(ts, ms), NEW S \in SUBSET ms
    PROVE  IsFiniteSet(S) /\ Placed(ts, S) \in Int
<1> DEFINE f == [m \in S |-> ts[m].amount]
<1>1. IsFiniteSet(S)
  BY FS_Subset DEF Amounts
<1>2. \A m \in S : f[m] \in Int
  BY DEF Amounts
<1> HIDE DEF f
<1>3. SumFunctionOnSet(f, S) \in Int
  BY <1>1, <1>2, SumInt
<1>4. QED
  BY <1>1, <1>3 DEF Placed, f

Further(ts, us, S, y) == Amounts(ts, S) /\ y \notin S /\ (\A m \in S : us[m] = ts[m]) /\ us[y].amount \in Nat
OneMore(ts, us, S, y) ==
    /\ Amounts(us, S) /\ Amounts(us, S \cup {y})
    /\ Placed(us, S) = Placed(ts, S) /\ Placed(us, S \cup {y}) = Placed(ts, S) + us[y].amount

LEMMA PlacedMore ==
    ASSUME NEW ts, NEW us, NEW S, NEW y, Further(ts, us, S, y)
    PROVE  OneMore(ts, us, S, y)
<1> DEFINE f == [m \in S |-> ts[m].amount]
           g == [m \in S \cup {y} |-> us[m].amount]
           h == [m \in S |-> us[m].amount]
<1>1. (\A x \in S : f[x] \in Int /\ g[x] = f[x]) /\ g[y] \in Int /\ g[y] = us[y].amount /\ IsFiniteSet(S) /\ f = h
  BY DEF Amounts, Further
<1>2. IsFiniteSet(S \cup {y})
  BY <1>1, FS_AddElement
<1> HIDE DEF f, g, h
<1>3. SumFunctionOnSet(g, S \cup {y}) = SumFunctionOnSet(f, S) + g[y]
  <2>1. IsFiniteSet(S) /\ y \notin S
    BY <1>1 DEF Further
  <2>2. (\A x \in S : f[x] \in Int /\ g[x] = f[x]) /\ g[y] \in Int
    BY <1>1
  <2>3. QED
    BY <2>1, <2>2, SumAdd
<1>4. QED
  BY <1>1, <1>2, <1>3 DEF Placed, f, g, h, Amounts, Further, OneMore

LEMMA NothingPlaced == ASSUME NEW ts PROVE Amounts(ts, {}) /\ Placed(ts, {}) = 0
BY FS_EmptySet, NoSum DEF Amounts, Placed

\* No ticket is taken for none.
IsTicket(x) == x = [user |-> x.user, amount |-> x.amount, at |-> x.at]
BankConstants == DiceConstants /\ IsFiniteSet(Company) /\ ~IsTicket(Null)

LEMMA BankStart == ASSUME BankConstants, Dice!Init PROVE BankInv
<1>1. /\ wallet = [u \in Company |-> Start] /\ tickets = [m \in Messages |-> Null] /\ round = Dice!NoRound
  BY DEF Dice!Init
<1>2. Start \in Nat
  BY DEF BankConstants, DiceConstants, Dice!DiceAssumption
<1>3. Dice!Accepted = {} /\ round.capital = 0
  BY <1>1 DEF Dice!Accepted, Dice!NoRound
<1>4. SumFunctionOnSet(wallet, Company) = Start * Cardinality(Company) /\ Start * Cardinality(Company) \in Int
  <2>1. \A u \in Company : wallet[u] = IF u \in Company THEN Start ELSE 0
    BY <1>1
  <2>2. IsFiniteSet(Company)
    BY DEF BankConstants
  <2>3. Start \in Int /\ Company \subseteq Company
    BY <1>2
  <2>4. SumFunctionOnSet(wallet, Company) = Start * Cardinality(Company)
    BY <2>1, <2>2, <2>3, SumEach
  <2>5. \A u \in Company : wallet[u] \in Int
    BY <1>1, <2>3
  <2>6. SumFunctionOnSet(wallet, Company) \in Int
    BY <2>2, <2>5, SumInt
  <2>7. QED
    BY <2>4, <2>6
<1>5. wallet \in [Company -> Int]
  BY <1>1, <1>2
<1>6. Balance(tickets, {}, wallet, 0)
  <2>1. {m \in {} : m.side = "big"} = {} /\ {m \in {} : m.side = "small"} = {}
    OBVIOUS
  <2>2. Placed(tickets, {}) = 0
    BY NothingPlaced
  <2>3. QED
    BY <1>4, <2>1, <2>2 DEF Balance
<1>7. QED
  BY <1>3, <1>5, <1>6, NothingPlaced DEF BankInv

(* Points change hands between one wallet and the bank.                    *)
Paying(w, purse, u, n) == w \in [Company -> Int] /\ u \in Company /\ n \in Int /\ purse = [w EXCEPT ![u] = w[u] - n]
Paid(w, purse, n) ==
    /\ purse \in [Company -> Int] /\ SumFunctionOnSet(w, Company) \in Int
    /\ SumFunctionOnSet(purse, Company) = SumFunctionOnSet(w, Company) - n

LEMMA WalletPays ==
    ASSUME IsFiniteSet(Company), NEW w, NEW purse, NEW u, NEW n, Paying(w, purse, u, n)
    PROVE  Paid(w, purse, n)
<1>1. purse \in [Company -> Int] /\ purse[u] = w[u] - n /\ \A v \in Company \ {u} : w[v] = purse[v]
  BY DEF Paying
<1>2. \A v \in Company : w[v] \in Int /\ purse[v] \in Int
  BY <1>1 DEF Paying
<1>3. u \in Company /\ n \in Int
  BY DEF Paying
<1>4. SumFunctionOnSet(purse, Company) = SumFunctionOnSet(w, Company) + purse[u] - w[u]
  BY <1>1, <1>2, <1>3, SumChange
<1>5. SumFunctionOnSet(w, Company) \in Int
  BY <1>2, SumInt
<1>6. QED
  BY <1>1, <1>2, <1>3, <1>4, <1>5 DEF Paid

LEMMA BankCreate ==
    ASSUME BankConstants, DiceInv, BankInv, NEW a \in Phones, NEW c \in Capitals, Dice!Create(a, c)
    PROVE  BankInv'
<1>1. /\ link[a] \in Company /\ Dice!Accepted = {} /\ round.state = "none"
      /\ round'.state = "opening" /\ round'.capital = c
      /\ wallet' = [wallet EXCEPT ![link[a]] = wallet[link[a]] - c] /\ tickets' = tickets
  BY DEF Dice!Create, Dice!Actor, Dice!Member, Dice!NoRound, DiceInv, DiceRow, TicketsOf
<1>2. c \in Nat
  BY DEF BankConstants, DiceConstants, Dice!DiceAssumption
<1>3. Dice!Accepted' = {}
  BY <1>1 DEF Dice!Accepted
<1>4. round.capital = 0 /\ wallet \in [Company -> Int] /\ Balance(tickets, {}, wallet, 0)
  BY <1>1 DEF BankInv, Dice!Terminal
<1>5. /\ wallet' \in [Company -> Int] /\ SumFunctionOnSet(wallet, Company) \in Int
      /\ SumFunctionOnSet(wallet', Company) = SumFunctionOnSet(wallet, Company) - c
  <2>1. IsFiniteSet(Company) /\ Paying(wallet, wallet', link[a], c)
    BY <1>1, <1>2, <1>4 DEF BankConstants, Paying
  <2>2. QED
    BY <2>1, WalletPays DEF Paid
<1>6. Placed(tickets, {}) = 0 /\ Amounts(tickets, {})
  BY NothingPlaced
<1>7. {m \in {} : m.side = "big"} = {} /\ {m \in {} : m.side = "small"} = {}
  OBVIOUS
<1>8. Balance(tickets, {}, wallet', c)
  <2>1. Start * Cardinality(Company) = SumFunctionOnSet(wallet, Company) + 0 + 0
    BY <1>4, <1>6 DEF Balance
  <2>2. SumFunctionOnSet(wallet', Company) + c + 0 = Start * Cardinality(Company)
    BY <1>2, <1>5, <2>1
  <2>3. 0 - 0 \in (-c)..c
    BY <1>2
  <2>4. QED
    BY <1>6, <1>7, <2>2, <2>3 DEF Balance
<1>9. QED
  BY <1>1, <1>2, <1>3, <1>5, <1>6, <1>8 DEF BankInv

LEMMA BankBet ==
    ASSUME BankConstants, DiceInv, BankInv, NEW m \in Messages, Dice!GroupBet(m)
    PROVE  BankInv'
<1> DEFINE u == link[m.tg]
           A == Dice!Accepted
           on(s) == {n \in A : n.side = s}
           total == Placed(tickets, A)
           big == Placed(tickets, on("big"))
           small == Placed(tickets, on("small"))
           capital == round.capital
           answer == capital + Dice!OnSide(Dice!Other(m.side)) - Dice!OnSide(m.side)
<1>1. /\ u \in Company /\ round.state = "open" /\ tickets[m] = Null
      /\ round' \in {round, Dice!Locked(round)} /\ m.side \in {"big", "small"}
  <2>1. m.tg \in Phones /\ m.side \in {"big", "small"}
    BY DEF BankConstants, DiceConstants, Dice!DiceAssumption
  <2>2. QED
    BY <2>1 DEF Dice!GroupBet, Dice!Actor, Dice!Member, DiceInv, DiceRow
<1>2. /\ capital \in Nat /\ wallet \in [Company -> Int] /\ Amounts(tickets, A)
      /\ Balance(tickets, A, wallet, capital)
  BY <1>1 DEF BankInv, Dice!Terminal
<1>3. /\ total \in Int /\ big \in Int /\ small \in Int
      /\ Amounts(tickets, on("big")) /\ Amounts(tickets, on("small"))
  <2>1. A \in SUBSET A /\ on("big") \in SUBSET A /\ on("small") \in SUBSET A
    OBVIOUS
  <2>2. total \in Int /\ big \in Int /\ small \in Int /\ IsFiniteSet(on("big")) /\ IsFiniteSet(on("small"))
    BY <1>2, <2>1, PlacedInt
  <2>3. QED
    BY <1>2, <2>2 DEF Amounts
<1>4. /\ Dice!OnSide("big") = big /\ Dice!OnSide("small") = small /\ Dice!Staked(A) = total
  BY StakedIs DEF Dice!OnSide
<1>5. answer \in Int /\ answer = IF m.side = "big" THEN capital + small - big ELSE capital + big - small
  BY <1>1, <1>2, <1>3, <1>4 DEF Dice!Other
<1>6. PICK amount :
        /\ amount \in Nat /\ amount <= answer
        /\ tickets' = [tickets EXCEPT ![m] = [user |-> u, amount |-> amount, at |-> clock]]
        /\ wallet' = [wallet EXCEPT ![u] = wallet[u] - amount]
  <2> DEFINE room == round.capital * Multiple - Dice!Staked(A)
             most == Dice!Min({wallet[u], answer, room})
  <2>1. PICK amount :
          /\ amount \in 1..most
          /\ tickets' = [tickets EXCEPT ![m] = [user |-> u, amount |-> amount, at |-> clock]]
          /\ wallet' = [wallet EXCEPT ![u] = wallet[u] - amount]
    BY DEF Dice!GroupBet, Dice!Capacity
  <2>2. wallet[u] \in Int /\ answer \in Int /\ room \in Int
    <3>1. Multiple \in Nat
      BY DEF BankConstants, DiceConstants, Dice!DiceAssumption
    <3>2. QED
      BY <1>1, <1>2, <1>3, <1>4, <1>5, <3>1
  <2>3. most \in Int /\ most <= answer
    <3> HIDE DEF answer, room
    <3>1. QED
      BY <2>2, MinOfThree
  <2> HIDE DEF most, answer
  <2>4. amount \in Nat /\ amount <= answer
    BY <1>5, <2>1, <2>3
  <2>5. QED
    BY <2>1, <2>4
<1> HIDE DEF answer, u
<1>7. m \notin A /\ Dice!Accepted' = A \cup {m} /\ m \in DOMAIN tickets
  <2>1. \A n \in Messages : tickets'[n] = IF n = m THEN [user |-> u, amount |-> amount, at |-> clock] ELSE tickets[n]
    BY <1>6 DEF DiceInv, DiceRow
  <2>2. [user |-> u, amount |-> amount, at |-> clock] # Null
    BY DEF BankConstants, IsTicket
  <2>3. QED
    BY <1>1, <2>1, <2>2 DEF Dice!Accepted, DiceInv, DiceRow
<1>8. tickets'[m].amount = amount /\ \A n \in A : tickets'[n] = tickets[n]
  BY <1>6, <1>7
<1>9. /\ Amounts(tickets', A \cup {m}) /\ Placed(tickets', A \cup {m}) = total + amount
  <2>1. Further(tickets, tickets', A, m)
    BY <1>2, <1>6, <1>7, <1>8 DEF Further
  <2>2. QED
    BY <1>8, <2>1, PlacedMore DEF OneMore
<1>10. /\ wallet' \in [Company -> Int] /\ SumFunctionOnSet(wallet, Company) \in Int
       /\ SumFunctionOnSet(wallet', Company) = SumFunctionOnSet(wallet, Company) - amount
  <2>1. IsFiniteSet(Company) /\ Paying(wallet, wallet', u, amount)
    BY <1>1, <1>2, <1>6 DEF BankConstants, Paying, u
  <2>2. QED
    BY <2>1, WalletPays DEF Paid
<1>11. round'.capital = capital /\ round'.state \in {"open", "locked"}
  BY <1>1 DEF Dice!Locked, DiceInv, DiceRow
<1> DEFINE after(s) == {n \in A \cup {m} : n.side = s}
<1>12. \A s \in {"big", "small"} :
          Placed(tickets', after(s)) = IF s = m.side THEN Placed(tickets, on(s)) + amount ELSE Placed(tickets, on(s))
  <2>1. SUFFICES ASSUME NEW s \in {"big", "small"}
                 PROVE  Placed(tickets', after(s)) = IF s = m.side THEN Placed(tickets, on(s)) + amount ELSE Placed(tickets, on(s))
    OBVIOUS
  <2>2. after(s) = IF s = m.side THEN on(s) \cup {m} ELSE on(s)
    OBVIOUS
  <2>3. m \notin on(s) /\ Amounts(tickets, on(s)) /\ \A n \in on(s) : tickets'[n] = tickets[n]
    BY <1>3, <1>7, <1>8
  <2> HIDE DEF on, after
  <2>4. Placed(tickets', on(s)) = Placed(tickets, on(s)) /\ Placed(tickets', on(s) \cup {m}) = Placed(tickets, on(s)) + amount
    <3>1. Further(tickets, tickets', on(s), m)
      BY <1>6, <1>8, <2>3 DEF Further
    <3>2. OneMore(tickets, tickets', on(s), m)
      BY <3>1, PlacedMore
    <3>3. tickets'[m].amount = amount
      BY <1>8
    <3>4. QED
      BY <3>2, <3>3 DEF OneMore
  <2>5. QED
    BY <2>2, <2>4
<1>13. Balance(tickets', A \cup {m}, wallet', capital)
  <2>1. /\ Placed(tickets', after("big")) = IF m.side = "big" THEN big + amount ELSE big
        /\ Placed(tickets', after("small")) = IF m.side = "small" THEN small + amount ELSE small
    BY <1>1, <1>12
  <2>2. /\ big - small \in (-capital)..capital
        /\ SumFunctionOnSet(wallet, Company) + capital + total = Start * Cardinality(Company)
    BY <1>2 DEF Balance
  <2> DEFINE purse == SumFunctionOnSet(wallet, Company)
             all == Start * Cardinality(Company)
             paid == SumFunctionOnSet(wallet', Company)
             now == Placed(tickets', A \cup {m})
             bigger == Placed(tickets', after("big"))
             smaller == Placed(tickets', after("small"))
  <2>3. paid = purse - amount /\ now = total + amount /\ purse \in Int /\ purse + capital + total = all
    BY <1>9, <1>10, <2>2
  <2> HIDE DEF purse, all, paid, now, total, capital, big, small, bigger, smaller
  <2>4. paid + capital + now = all
    BY <1>2, <1>3, <1>6, <2>3
  <2>5. amount <= IF m.side = "big" THEN capital + small - big ELSE capital + big - small
    BY <1>5, <1>6
  <2>6. bigger - smaller \in (-capital)..capital
    <3>1. CASE m.side = "big"
      <4>1. bigger = big + amount /\ smaller = small /\ amount <= capital + small - big
        BY <2>1, <2>5, <3>1 DEF bigger, smaller
      <4>2. QED
        BY <1>2, <1>3, <1>6, <2>2, <4>1
    <3>2. CASE m.side = "small"
      <4>1. bigger = big /\ smaller = small + amount /\ amount <= capital + big - small
        BY <2>1, <2>5, <3>2 DEF bigger, smaller
      <4>2. QED
        BY <1>2, <1>3, <1>6, <2>2, <4>1
    <3>3. QED
      BY <1>1, <3>1, <3>2
  <2>7. QED
    BY <2>4, <2>6 DEF Balance, paid, now, all, bigger, smaller
<1>14. QED
  BY <1>2, <1>7, <1>9, <1>10, <1>11, <1>13 DEF BankInv

(* The other steps move no points before the round is over.                *)
LEMMA BankKeep ==
    ASSUME BankInv, UNCHANGED <<wallet, tickets>>, round'.capital = round.capital,
           round'.state # "none" \/ round.state = "none",
           round'.state \notin Dice!Terminal => round.state \notin Dice!Terminal
    PROVE  BankInv'
<1>1. Dice!Accepted' = Dice!Accepted /\ Dice!Terminal' = Dice!Terminal
  BY DEF Dice!Accepted, Dice!Terminal
<1>2. QED
  BY <1>1 DEF BankInv, Balance, Placed, Amounts

LEMMA BankStep == ASSUME BankConstants, DiceInv, BankInv, [Dice!Next]_(Dice!vars) PROVE BankInv'
<1>1. ASSUME NEW a \in Phones, NEW c \in Capitals, Dice!Create(a, c) PROVE BankInv'
  BY <1>1, BankCreate
<1>2. ASSUME NEW m \in Messages, Dice!GroupBet(m) PROVE BankInv'
  BY <1>2, BankBet
<1>3. CASE Dice!Close \/ (\E d : Dice!Fix(d)) \/ Dice!SettleFails
  <2>1. /\ UNCHANGED <<wallet, tickets>> /\ round.state \in {"opening", "open", "locked", "fixed"}
        /\ round'.capital = round.capital /\ round'.state # "none"
    BY <1>3 DEF Dice!Close, Dice!Fix, Dice!SettleFails, Dice!MaySettle, Dice!Locked, DiceInv, DiceRow
  <2>2. QED
    BY <2>1, BankKeep DEF Dice!Terminal
<1>4. CASE Dice!Settle
  <2>1. /\ UNCHANGED tickets /\ round'.capital = round.capital /\ round'.state \in Dice!Terminal
        /\ Dice!Terminal' = Dice!Terminal /\ round'.state # "none"
    BY <1>4 DEF Dice!Settle, Dice!MaySettle, DiceInv, DiceRow, Dice!Terminal
  <2>2. Dice!Accepted' = Dice!Accepted
    BY <2>1 DEF Dice!Accepted
  <2>3. QED
    BY <2>1, <2>2 DEF BankInv, Amounts
<1>5. CASE DicePost \/ UNCHANGED Dice!vars
  <2>1. /\ UNCHANGED <<tickets, wallet>>
        /\ round' = round \/ (round.state = "opening" /\ round' = [round EXCEPT !.state = "open"])
    BY <1>5 DEF DicePost, Dice!vars, Dice!money, Dice!people, Dice!Bound, Dice!SendOpen, Dice!SendReport, Dice!PressOpen, Dice!PressReport,
           Dice!Clean, Dice!RecoverOpen, Dice!OpenAnswered, Dice!ReportAnswered, Dice!RecoverReport
  <2>2. round'.capital = round.capital
    BY <2>1 DEF DiceInv, DiceRow
  <2>3. /\ round'.state # "none" \/ round.state = "none"
        /\ round'.state \notin Dice!Terminal => round.state \notin Dice!Terminal
    BY <2>1 DEF DiceInv, DiceRow, Dice!Terminal
  <2>4. QED
    BY <2>1, <2>2, <2>3, BankKeep
<1>6. CASE DiceWorld
  <2>1. UNCHANGED <<wallet, round, tickets>>
    BY <1>6 DEF DiceWorld, Dice!BeginDeletion, Dice!Remove, Dice!EndDeletion, Dice!Relink, Dice!Tick, Dice!money
  <2>2. QED
    BY <2>1, BankKeep
<1>7. QED
  BY <1>1, <1>2, <1>3, <1>4, <1>5, <1>6 DEF Dice!Next, DicePost, DiceWorld

LEMMA BankTells == ASSUME BankInv PROVE Dice!BankCanPay
<1>1. SUFFICES ASSUME Dice!Live
               PROVE  /\ Dice!OnSide("big") - Dice!OnSide("small") \in (-round.capital)..round.capital
                      /\ Dice!SumFunction(wallet) + round.capital + Dice!Staked(Dice!Accepted) = Start * Dice!Cardinality(Company)
  BY DEF Dice!BankCanPay
<1>2. Balance(tickets, Dice!Accepted, wallet, round.capital) /\ wallet \in [Company -> Int]
  BY <1>1 DEF BankInv, Dice!Live, Dice!Terminal
<1>3. Dice!SumFunction(wallet) = SumFunctionOnSet(wallet, Company)
  BY <1>2, DiceSums
<1>4. QED
  BY <1>2, <1>3, StakedIs, CountMembers DEF Balance, Dice!OnSide

LEMMA CellSums == \A f : Nine!SumFunction(f) = SumFunctionOnSet(f, DOMAIN f)
BY DEF Nine!SumFunction, Nine!SumFunctionOnSet, Nine!FoldFunctionOnSet, Nine!MapThenFoldSet, SumFunctionOnSet, FoldFunctionOnSet, MapThenFoldSet

Own9(cs, u) == {rc \in Tables \X Cells : cs[rc[1]][rc[2]] # Null /\ cs[rc[1]][rc[2]].user = u}
Brings(cs, u) == [rc \in Own9(cs, u) |-> cs[rc[1]][rc[2]].reward - Cost]
Balanced(purse, cs, u) == purse[u] = Start + SumFunctionOnSet(Brings(cs, u), Own9(cs, u))

FeeConstants == ScratchConstants /\ IsFiniteSet(Tables)

FeeInv ==
    /\ wallet \in [Pair -> Int]
    /\ \A r \in Tables, c \in Cells : cells[r][c] # Null => cells[r][c].reward \in Int
    /\ \A u \in Pair : Balanced(wallet, cells, u)

LEMMA OwnFinite == ASSUME FeeConstants, NEW cs, NEW u PROVE IsFiniteSet(Own9(cs, u))
<1>1. IsFiniteSet(Cells) /\ IsFiniteSet(Tables)
  BY DEF FeeConstants, ScratchConstants, Nine!ScratchAssumption, Nine!IsFiniteSet, IsFiniteSet
<1>2. IsFiniteSet(Tables \X Cells)
  BY <1>1, FS_Product
<1>3. Own9(cs, u) \in SUBSET (Tables \X Cells)
  BY DEF Own9
<1>4. QED
  BY <1>2, <1>3, FS_Subset

LEMMA FeeTells == FeeInv => Nine!FeesAndRewards
BY CellSums DEF FeeInv, Nine!FeesAndRewards, Balanced, Brings, Own9

LEMMA FeeStart == ASSUME FeeConstants, Nine!Init PROVE FeeInv
<1>1. wallet = [u \in Pair |-> Start] /\ cells = [r \in Tables |-> [c \in Cells |-> Null]]
  BY DEF Nine!Init
<1>2. Start \in Int
  BY DEF FeeConstants, ScratchConstants, Nine!ScratchAssumption
<1>3. ASSUME NEW u \in Pair PROVE Balanced(wallet, cells, u)
  <2>1. Own9(cells, u) = {}
    BY <1>1 DEF Own9
  <2>2. SumFunctionOnSet(Brings(cells, u), {}) = 0
    BY NoSum
  <2>3. wallet[u] = Start + 0
    BY <1>1, <1>2
  <2>4. QED
    BY <2>1, <2>2, <2>3 DEF Balanced
<1>4. QED
  BY <1>1, <1>2, <1>3 DEF FeeInv

LEMMA FeeConfirm ==
  ASSUME FeeConstants, PressInv, FeeInv, NEW a \in Handles, NEW p \in Requests, NEW w \in Rewards, Nine!Confirm(a, p, w)
  PROVE  FeeInv'
<1>1. PICK i : i = intents[p]
  OBVIOUS
<1>2. PICK r, c, u : r = i.round /\ c = i.cell /\ u = link[a]
  OBVIOUS
<1>3. PICK paid : paid = [user |-> u, tg |-> a, reward |-> w]
  OBVIOUS
<1>4. i # Null /\ r \in Tables /\ c \in Cells
  BY <1>1, <1>2 DEF Nine!Confirm, PressInv
<1>5. /\ cells[r][c] = Null
      /\ wallet' = [wallet EXCEPT ![u] = wallet[u] - Cost + w]
      /\ cells' = [cells EXCEPT ![r] = [cells[r] EXCEPT ![c] = paid]]
  BY <1>1, <1>2, <1>3 DEF Nine!Confirm
<1>6. paid # Null /\ paid.user = u /\ paid.reward = w /\ w \in Int /\ Cost \in Int
  BY <1>3 DEF IsCell, FeeConstants, ScratchConstants, Nine!ScratchAssumption
<1>7. \A s \in Tables, d \in Cells : cells'[s][d] = IF s = r /\ d = c THEN paid ELSE cells[s][d]
  BY <1>5 DEF PressInv
<1>8. wallet \in [Pair -> Int]
  BY DEF FeeInv
<1>9. wallet' \in [Pair -> Int] /\ \A v \in Pair : wallet'[v] = IF v = u THEN wallet[v] - Cost + w ELSE wallet[v]
  <2>1. CASE u \in Pair
    <3>1. PICK n : n = wallet[u] - Cost + w
      OBVIOUS
    <3>2. wallet[u] \in Int
      BY <1>8, <2>1
    <3>3. n \in Int
      BY <1>6, <3>1, <3>2
    <3>4. wallet' = [wallet EXCEPT ![u] = n]
      BY <1>5, <3>1
    <3>5. wallet' \in [Pair -> Int] /\ \A v \in Pair : wallet'[v] = IF v = u THEN n ELSE wallet[v]
      BY <1>8, <3>3, <3>4
    <3>6. QED
      BY <3>1, <3>5
  <2>2. CASE u \notin Pair
    <3>1. wallet' = wallet
      BY <1>5, <1>8, <2>2
    <3>2. QED
      BY <1>8, <2>2, <3>1
  <2>3. QED
    BY <2>1, <2>2
<1>10. \A s \in Tables, d \in Cells : cells'[s][d] # Null => cells'[s][d].reward \in Int
  BY <1>6, <1>7 DEF FeeInv
<1>11. ASSUME NEW v \in Pair, v # u PROVE Balanced(wallet', cells', v)
  <2>1. Own9(cells', v) = Own9(cells, v)
    BY <1>5, <1>6, <1>7, <1>11 DEF Own9
  <2>2. \A rc \in Own9(cells, v) : cells'[rc[1]][rc[2]] = cells[rc[1]][rc[2]]
    BY <1>5, <1>7 DEF Own9
  <2>3. Brings(cells', v) = Brings(cells, v)
    BY <2>1, <2>2 DEF Brings
  <2>4. QED
    BY <1>9, <1>11, <2>1, <2>3 DEF FeeInv, Balanced
<1>12. ASSUME u \in Pair PROVE Balanced(wallet', cells', u)
  <2> DEFINE S == Own9(cells, u)
             y == <<r, c>>
             f == Brings(cells, u)
             g == Brings(cells', u)
  <2>1. y \notin S /\ Own9(cells', u) = S \cup {y}
    <3>1. y \in Tables \X Cells /\ y[1] = r /\ y[2] = c
      BY <1>4
    <3>2. \A rc \in Tables \X Cells : rc[1] \in Tables /\ rc[2] \in Cells /\ (rc = y <=> rc[1] = r /\ rc[2] = c)
      OBVIOUS
    <3> HIDE DEF y
    <3>3. \A rc \in Tables \X Cells : cells'[rc[1]][rc[2]] = IF rc = y THEN paid ELSE cells[rc[1]][rc[2]]
      BY <1>7, <3>2
    <3>4. QED
      BY <1>5, <1>6, <3>1, <3>3 DEF Own9
  <2>2. \A rc \in S : rc[1] \in Tables /\ rc[2] \in Cells /\ rc # y /\ cells'[rc[1]][rc[2]] = cells[rc[1]][rc[2]]
                      /\ cells[rc[1]][rc[2]] # Null
    BY <1>5, <1>7 DEF Own9
  <2>3. \A rc \in S : f[rc] \in Int /\ g[rc] = f[rc]
    BY <1>6, <2>1, <2>2 DEF Brings, FeeInv
  <2>4. g[y] = w - Cost /\ g[y] \in Int
    <3>1. cells'[r][c] = paid /\ y[1] = r /\ y[2] = c
      BY <1>4, <1>7
    <3>2. QED
      BY <1>6, <2>1, <3>1 DEF Brings
  <2>5. IsFiniteSet(S)
    BY OwnFinite
  <2> HIDE DEF S, y, f, g
  <2>6. SumFunctionOnSet(g, S \cup {y}) = SumFunctionOnSet(f, S) + g[y] /\ SumFunctionOnSet(f, S) \in Int
    BY <2>1, <2>3, <2>4, <2>5, SumAdd
  <2>7. wallet[u] = Start + SumFunctionOnSet(f, S) /\ wallet'[u] = wallet[u] - Cost + w /\ Start \in Int
    BY <1>9, <1>12 DEF FeeInv, Balanced, S, f, FeeConstants, ScratchConstants, Nine!ScratchAssumption
  <2>8. wallet'[u] = Start + SumFunctionOnSet(g, S \cup {y})
    BY <1>6, <2>4, <2>6, <2>7
  <2>9. QED
    BY <2>1, <2>8 DEF Balanced, g
<1>13. QED
  BY <1>9, <1>10, <1>11, <1>12 DEF FeeInv

LEMMA FeeStep == ASSUME FeeConstants, PressInv, FeeInv, [Nine!Next]_(Nine!vars) PROVE FeeInv'
<1>1. ASSUME UNCHANGED <<wallet, cells>> PROVE FeeInv'
  BY <1>1 DEF FeeInv, Balanced, Brings, Own9
<1>2. ASSUME NEW r \in Tables, Nine!Create(r) \/ Nine!BeginPublish(r) \/ Nine!LeaseEnds(r) PROVE FeeInv'
  BY <1>1, <1>2 DEF Nine!Create, Nine!BeginPublish, Nine!LeaseEnds
<1>3. ASSUME NEW a \in Handles, NEW r \in Tables, NEW c \in Cells, NEW q \in Requests, Nine!Select(a, r, c, q)
      PROVE  FeeInv'
  BY <1>1, <1>3 DEF Nine!Select
<1>4. ASSUME Nine!ExpireDue \/ Nine!Published \/ Nine!Schedule \/ Nine!Toggle \/ Nine!Tick PROVE FeeInv'
  BY <1>1, <1>4 DEF Nine!ExpireDue, Nine!Published, Nine!Schedule, Nine!Toggle, Nine!Tick, Nine!play
<1>5. ASSUME (\E f \in {"retry", "failed", "unknown"}, arrived \in BOOLEAN : Nine!PublishFailed(f, arrived))
             \/ \E arrived \in BOOLEAN : Nine!Restart(arrived)
      PROVE  FeeInv'
  BY <1>1, <1>5 DEF Nine!PublishFailed, Nine!Restart, Nine!play
<1>6. ASSUME (\E s \in Slots, r \in Tables : Nine!AutoCreate(s, r)) \/ \E a \in Handles, u \in Pair \cup {Null} : Nine!Relink(a, u)
      PROVE  FeeInv'
  BY <1>1, <1>6 DEF Nine!AutoCreate, Nine!Relink, Nine!play
<1>7. ASSUME UNCHANGED Nine!vars PROVE FeeInv'
  BY <1>1, <1>7 DEF Nine!vars, Nine!play
<1>8. QED
  BY <1>2, <1>3, <1>4, <1>5, <1>6, <1>7, FeeConfirm DEF Nine!Next

(* A dice bank can pay whatever is thrown (dice_group.py, group_bet): what  *)
(* the sides are apart never exceeds the capital, and wallets, capital and  *)
(* bets together are the points the members came with.                     *)
THEOREM DiceBankCanPay == ASSUME BankConstants PROVE Dice!Spec => []Dice!BankCanPay
<1>1. Dice!Init => DiceInv /\ BankInv
  BY DiceInit, BankStart DEF BankConstants
<1>2. DiceInv /\ BankInv /\ [Dice!Next]_(Dice!vars) => DiceInv' /\ BankInv'
  BY DiceStep, BankStep DEF BankConstants
<1>3. BankInv => Dice!BankCanPay
  BY BankTells
<1>4. QED
  BY <1>1, <1>2, <1>3, PTL DEF Dice!Spec

(* Whoever scratched a cell paid its fee once and has its one reward, and   *)
(* nobody has more cells than allowed, under whichever identity (scratch9). *)
THEOREM ScratchCellsPaid == ASSUME FeeConstants PROVE Nine!Spec => []Nine!CellsPaid
<1>1. Nine!Init => ScratchInv /\ FeeInv
  BY ScratchStart, FeeStart DEF FeeConstants
<1>2. ScratchInv /\ FeeInv /\ [Nine!Next]_(Nine!vars) => ScratchInv' /\ FeeInv'
  BY ScratchStep, FeeStep DEF FeeConstants, ScratchInv
<1>3. ScratchInv /\ FeeInv => Nine!CellsPaid
  BY FeeTells DEF ScratchInv, Nine!CellsPaid
<1>4. QED
  BY <1>1, <1>2, <1>3, PTL DEF Nine!Spec

-----------------------------------------------------------------------------
(* The games side by side, as MCGames has them: what is proved of a game    *)
(* holds while it is at work.                                              *)
GameConstants == Finite /\ PkConstants /\ NiuniuConstants /\ BankConstants /\ FeeConstants

GamesAtWork ==
    /\ TableInv
    /\ part \in Duelling => DuelInv
    /\ part = "room" => RoomInv
    /\ part \in Rolls => DiceInv /\ ReportInv /\ BankInv
    /\ part \in Scratches => ScratchInv /\ FeeInv

LEMMA GamesAtFirst == ASSUME GameConstants, UnionInit PROVE GamesAtWork
<1>1. /\ Init
      /\ part \in Duelling => Duel!Init
      /\ part = "room" => Room!Init
      /\ part \in Rolls => Dice!Init
      /\ part \in Scratches => Nine!Init
  BY DEF UnionInit, Fresh, AtRest, Tabled, Duelling, Rolls, Scratches
<1>2. TableInv
  BY <1>1, TableStart DEF GameConstants
<1>3. part \in Rolls => DiceInv /\ ReportInv /\ BankInv
  BY <1>1, DiceInit, ReportStart, BankStart DEF GameConstants, BankConstants
<1>4. part \in Scratches => ScratchInv /\ FeeInv
  BY <1>1, ScratchStart, FeeStart DEF GameConstants, FeeConstants
<1>5. QED
  BY <1>1, <1>2, <1>3, <1>4, DuelStart, RoomStart DEF GameConstants, GamesAtWork

LEMMA GamesStep == ASSUME GameConstants, GamesAtWork, [UnionNext]_allVars PROVE GamesAtWork'
<1>1. /\ part' = part
      /\ [Next]_vars
      /\ part \in Duelling => [Duel!Next]_(Duel!vars)
      /\ part = "room" => [Room!Next]_(Room!vars)
      /\ part \in Rolls => [Dice!Next]_(Dice!vars)
      /\ part \in Scratches => [Nine!Next]_(Nine!vars)
  <2>1. CASE UNCHANGED allVars
    BY <2>1 DEF allVars, others, Duel!vars, Room!vars, Room!room, Room!post, Dice!vars, Dice!money, Dice!people, Dice!mail,
                Nine!vars, Nine!play, Nine!show, Nine!plan
  <2>2. CASE UnionNext
    BY <2>2 DEF UnionNext, InTable, InDuel, InRoom, InDice, InNine, Tabled, Duelling, Rolls, Scratches
  <2>3. QED
    BY <2>1, <2>2
<1>2. part \in Duelling => DuelInv'
  BY <1>1, DuelStep DEF GameConstants, GamesAtWork
<1>3. part = "room" => RoomInv'
  BY <1>1, RoomStep DEF GameConstants, GamesAtWork
<1>4. part \in Rolls => DiceInv' /\ ReportInv' /\ BankInv'
  BY <1>1, DiceStep, ReportStep, BankStep DEF GameConstants, BankConstants, PkConstants, GamesAtWork
<1>5. part \in Scratches => ScratchInv' /\ FeeInv'
  BY <1>1, ScratchStep, FeeStep DEF GameConstants, FeeConstants, GamesAtWork, ScratchInv
<1>6. TableInv'
  BY <1>1, TableStep DEF GameConstants, GamesAtWork
<1>7. QED
  BY <1>1, <1>2, <1>3, <1>4, <1>5, <1>6 DEF GamesAtWork, Duelling, Rolls, Scratches

(* What the group sees is what decides (bot_pk.py, niuniu_delivery.py,     *)
(* bot_dice.py, scratch9.py): whatever answers are lost, no die is thrown   *)
(* twice, a card stays until its one report is there, a round has one card *)
(* that shows what is recorded, and the schedule catches up with nothing.  *)
THEOREM GamesShownOnce == ASSUME GameConstants PROVE UnionSpec => []ShownOnce
<1>1. GamesAtWork => ShownOnce
  BY DuelTells, RoomTells, ReportTells, ScratchTells DEF GameConstants, PkConstants, FeeConstants, GamesAtWork, ShownOnce
<1>2. UnionInit => GamesAtWork
  BY GamesAtFirst
<1>3. GamesAtWork /\ [UnionNext]_allVars => GamesAtWork'
  BY GamesStep
<1>4. QED
  BY <1>1, <1>2, <1>3, PTL DEF UnionSpec

(* In each of the questions that are asked of it, a dice bet is placed      *)
(* before the beacon that decides it is out, and who has points on the     *)
(* table stays until they are paid (dice_quicknet.py, dice_group.py,       *)
(* account_deletion.py).                                                   *)
THEOREM GamesBetsAreBlind == ASSUME GameConstants PROVE UnionSpec => []BetsAreBlind
<1>1. GamesAtWork => BetsAreBlind
  BY DiceTells DEF GameConstants, BankConstants, GamesAtWork, BetsAreBlind
<1>2. UnionInit => GamesAtWork
  BY GamesAtFirst
<1>3. GamesAtWork /\ [UnionNext]_allVars => GamesAtWork'
  BY GamesStep
<1>4. QED
  BY <1>1, <1>2, <1>3, PTL DEF UnionSpec

(* The points of every game are exact: the pot of black and white is what  *)
(* its members put in and goes to the smaller side, the stakes of a duel    *)
(* are complete until they are returned or won, a niuniu guest settles one  *)
(* stake with the banker, a dice bank can pay whatever is thrown, and a     *)
(* scratched cell costs its fee and brings its one reward (blackwhite.py,   *)
(* bot_pk.py, niuniu.py, dice_group.py, scratch9.py).                      *)
THEOREM GamesPotsExact == ASSUME GameConstants PROVE UnionSpec => []PotsExact
<1>1. GamesAtWork => PotsExact
  <2> SUFFICES ASSUME GamesAtWork PROVE PotsExact
    OBVIOUS
  <2>1. TypeOK /\ EveryPointAccounted /\ PotIsTheStakes /\ MinorityWins
    BY DEF GamesAtWork, TableInv, ResultInv
  <2>2. part \in Duelling => Duel!StakesComplete /\ Duel!OneDuelEach
    BY DEF GamesAtWork, DuelInv
  <2>3. part = "room" => Room!PairsSettled
    BY RoomTells DEF GamesAtWork
  <2>4. part \in Rolls => Dice!BankCanPay
    BY BankTells DEF GamesAtWork
  <2>5. part \in Scratches => Nine!CellsPaid /\ Nine!PressedTwice
    BY FeeTells, ScratchTells DEF GamesAtWork, GameConstants, FeeConstants, Nine!CellsPaid
  <2>6. QED
    BY <2>1, <2>2, <2>3, <2>4, <2>5 DEF PotsExact
<1>2. UnionInit => GamesAtWork
  BY GamesAtFirst
<1>3. GamesAtWork /\ [UnionNext]_allVars => GamesAtWork'
  BY GamesStep
<1>4. QED
  BY <1>1, <1>2, <1>3, PTL DEF UnionSpec
=============================================================================
