---------------------------- MODULE StoreProofs ----------------------------
(***************************************************************************)
(* What the usage store, its archives and the quota cycles promise, for    *)
(* every set of devices, events, requests, cutoffs and archives and for    *)
(* every length of a period.                                               *)
(*                                                                         *)
(* A database is good when each usage was inserted as often as it is a raw *)
(* row or archived, every receipt names a usage that was inserted, and the *)
(* tokens in raw and hourly rows are those ever inserted.  Each writer     *)
(* turns a good database into a good one; the open transaction's is good,  *)
(* too, so that a commit at any point would be.  The sums are those of the *)
(* lemmas of the first part, which every later part cites.                 *)
(*                                                                         *)
(* A later database remembers an earlier one: it holds all that it held,   *)
(* and so does the open transaction's at all times (StoredStays).          *)
(*                                                                         *)
(* Import records have an invariant of their own, Recorded: a record leads *)
(* to the usage it names, and all of an archive that was imported is still *)
(* here.                                                                   *)
(*                                                                         *)
(* The cycles follow from one operator: Processed says what a snapshot may *)
(* do to the books of any of the eleven trackers, and CyclesInv relates    *)
(* the books to the provider's periods.                                    *)
(***************************************************************************)
EXTENDS DataTransfer, QuotaCycles, FiniteSetTheorems, WellFoundedInduction, TLAPS

-----------------------------------------------------------------------------
(* Sums over finite sets. *)

\* A nonempty set of naturals has a least element, a nonempty set of finite sets
\* a minimal one.
LEMMA LeastNatural ==
  ASSUME NEW T \in SUBSET Nat, T # {}
  PROVE  \E n \in T : \A m \in T : n <= m
<1>1. \A x, y \in Nat : y < x => <<y, x>> \in OpToRel(<, Nat)
  BY DEF OpToRel
<1>2. PICK n \in T : \A m \in T : ~(<<m, n>> \in OpToRel(<, Nat))
  BY NatLessThanWellFounded, WFMin, Zenon
<1> HIDE DEF OpToRel
<1>3. ASSUME NEW m \in T
      PROVE  n <= m
  <2>1. m \in Nat /\ n \in Nat
    OBVIOUS
  <2>2. ~(m < n)
    BY <1>1, <1>2, <2>1, Zenon
  <2> QED  BY <2>1, <2>2
<1> QED  BY <1>3

LEMMA AllNaturals ==
  ASSUME NEW T, 0 \in T, \A n \in Nat : n \in T => n + 1 \in T
  PROVE  Nat \subseteq T
<1> DEFINE F == Nat \ T
<1> SUFFICES ASSUME F # {} PROVE FALSE
  OBVIOUS
<1>1. PICK n \in F : \A m \in F : n <= m
  BY LeastNatural
<1>2. n - 1 \in Nat /\ n - 1 \notin F
  BY <1>1
<1> QED  BY <1>1, <1>2

LEMMA MinimalSet ==
  ASSUME NEW S, IsFiniteSet(S), NEW F \in SUBSET (SUBSET S), F # {}
  PROVE  \E T \in F : IsFiniteSet(T) /\ \A x \in T : T \ {x} \notin F
<1> DEFINE N == {Cardinality(T) : T \in F}
<1>1. \A T \in F : IsFiniteSet(T) /\ Cardinality(T) \in Nat
  BY FS_Subset, FS_CardinalityType
<1>2. N \in SUBSET Nat /\ N # {}
  BY <1>1
<1>3. PICK n \in N : \A m \in N : n <= m
  BY <1>2, LeastNatural
<1>4. PICK T \in F : Cardinality(T) = n
  BY <1>3
<1>5. ASSUME NEW x \in T, T \ {x} \in F
      PROVE  FALSE
  <2>1. Cardinality(T \ {x}) = n - 1
    BY <1>1, <1>4, <1>5, FS_RemoveElement
  <2>2. n <= n - 1
    BY <1>3, <1>5, <2>1
  <2> QED  BY <1>1, <1>4, <2>2
<1> QED  BY <1>1, <1>4, <1>5

\* the element that a sum takes out of a set first
Chosen(s) == CHOOSE x \in s : TRUE

\* the sums of the sets in D
IsSums(it, g, D) ==
  it = [s \in D |-> IF s = {} THEN 0 ELSE g[Chosen(s)] + it[s \ {Chosen(s)}]]

\* the subsets of at most n elements
UpTo(S, n) == {s \in SUBSET S : Cardinality(s) <= n}

LEMMA SumsExist ==
  ASSUME NEW S, IsFiniteSet(S), NEW g
  PROVE  \E it : IsSums(it, g, SUBSET S)
<1> DEFINE T == {n \in Nat : \E it : IsSums(it, g, UpTo(S, n))}
<1>1. \A s \in SUBSET S : IsFiniteSet(s) /\ Cardinality(s) \in Nat /\ Cardinality(s) <= Cardinality(S)
  BY FS_Subset, FS_CardinalityType
<1>2. 0 \in T
  <2> DEFINE it == [s \in UpTo(S, 0) |-> 0]
  <2>1. \A s \in UpTo(S, 0) : s = {}
    <3> SUFFICES ASSUME NEW s \in UpTo(S, 0)
                 PROVE  s = {}
      OBVIOUS
    <3>1. IsFiniteSet(s) /\ Cardinality(s) \in Nat /\ Cardinality(s) <= 0
      BY <1>1 DEF UpTo
    <3>2. Cardinality(s) = 0
      BY <3>1
    <3> QED  BY <3>1, <3>2, FS_EmptySet
  <2>2. IsSums(it, g, UpTo(S, 0))
    BY <2>1 DEF IsSums
  <2> QED  BY <2>2
<1>3. ASSUME NEW n \in Nat, n \in T
      PROVE  n + 1 \in T
  <2>1. PICK it : IsSums(it, g, UpTo(S, n))
    BY <1>3
  <2> DEFINE step(s) == IF s = {} THEN 0 ELSE g[Chosen(s)] + it[s \ {Chosen(s)}]
             next == [s \in UpTo(S, n + 1) |-> step(s)]
  <2>2. \A s \in UpTo(S, n) : s \in UpTo(S, n + 1) /\ it[s] = step(s)
    <3>1. \A s \in UpTo(S, n) : s \in UpTo(S, n + 1)
      BY <1>1 DEF UpTo
    <3> QED  BY <2>1, <3>1 DEF IsSums
  <2>3. ASSUME NEW s \in UpTo(S, n + 1), s # {}
        PROVE  s \ {Chosen(s)} \in UpTo(S, n)
    <3>1. Chosen(s) \in s
      BY <2>3 DEF Chosen
    <3>2. IsFiniteSet(s) /\ Cardinality(s) \in Nat /\ Cardinality(s) <= n + 1 /\ s \in SUBSET S
      BY <1>1 DEF UpTo
    <3>3. Cardinality(s \ {Chosen(s)}) = Cardinality(s) - 1
      BY <3>1, <3>2, FS_RemoveElement
    <3>4. Cardinality(s \ {Chosen(s)}) <= n /\ s \ {Chosen(s)} \in SUBSET S
      BY <3>2, <3>3
    <3> QED  BY <3>4 DEF UpTo
  <2>4. ASSUME NEW s \in UpTo(S, n + 1)
        PROVE  next[s] = IF s = {} THEN 0 ELSE g[Chosen(s)] + next[s \ {Chosen(s)}]
    <3>1. CASE s = {}
      BY <2>4, <3>1
    <3>2. CASE s # {}
      <4>1. s \ {Chosen(s)} \in UpTo(S, n)
        BY <2>3, <3>2
      <4> DEFINE t == s \ {Chosen(s)}
      <4>2. next[t] = it[t]
        BY <2>2, <4>1
      <4> HIDE DEF t
      <4> QED  BY <3>2, <4>2 DEF t
    <3> QED  BY <3>1, <3>2
  <2>5. IsSums(next, g, UpTo(S, n + 1))
    <3>1. next = [s \in UpTo(S, n + 1) |-> next[s]]
      OBVIOUS
    <3> HIDE DEF next
    <3> QED  BY <2>4, <3>1, Zenon DEF IsSums
  <2> QED  BY <2>5
<1>4. Cardinality(S) \in T
  <2> HIDE DEF T
  <2> QED  BY <1>1, <1>2, <1>3, AllNaturals
<1>5. UpTo(S, Cardinality(S)) = SUBSET S
  BY <1>1 DEF UpTo
<1> QED  BY <1>4, <1>5

\* what the sum of a subset is does not depend on the set it is taken in
LEMMA SumsAgree ==
  ASSUME NEW S, IsFiniteSet(S), NEW R \in SUBSET S, NEW g, NEW it, NEW jt,
         IsSums(it, g, SUBSET S), IsSums(jt, g, SUBSET R)
  PROVE  jt[R] = it[R]
<1> DEFINE F == {T \in SUBSET R : jt[T] # it[T]}
<1>1. IsFiniteSet(R)
  BY FS_Subset
<1>2. ASSUME F # {}
      PROVE  FALSE
  <2>1. PICK T \in F : \A x \in T : T \ {x} \notin F
    BY <1>1, <1>2, MinimalSet
  <2>2. CASE T = {}
    BY <2>1, <2>2 DEF IsSums
  <2>3. CASE T # {}
    <3> DEFINE c == Chosen(T)
    <3>1. c \in T
      BY <2>3 DEF Chosen
    <3>2. jt[T \ {c}] = it[T \ {c}]
      BY <2>1, <3>1
    <3>3. jt[T] = g[c] + jt[T \ {c}] /\ it[T] = g[c] + it[T \ {c}]
      BY <2>1, <2>3 DEF IsSums
    <3> QED  BY <2>1, <3>2, <3>3
  <2> QED  BY <2>2, <2>3
<1> QED  BY <1>2

LEMMA SumIs ==
  ASSUME NEW g, NEW S
  PROVE  SumFunctionOnSet(g, S) = (CHOOSE it : IsSums(it, g, SUBSET S))[S]
BY DEF SumFunctionOnSet, FoldFunctionOnSet, MapThenFoldSet, Chosen, IsSums

LEMMA SumUnfolds ==
  ASSUME NEW g, NEW S, IsFiniteSet(S), S # {}
  PROVE  SumFunctionOnSet(g, S) =
           g[Chosen(S)] + SumFunctionOnSet(g, S \ {Chosen(S)})
<1> DEFINE R == S \ {Chosen(S)}
           it == CHOOSE i : IsSums(i, g, SUBSET S)
           jt == CHOOSE i : IsSums(i, g, SUBSET R)
<1>1. R \in SUBSET S /\ IsFiniteSet(R)
  BY FS_Subset
<1>2. IsSums(it, g, SUBSET S)
  BY SumsExist
<1>3. IsSums(jt, g, SUBSET R)
  BY <1>1, SumsExist
<1>4. SumFunctionOnSet(g, S) = it[S] /\ SumFunctionOnSet(g, R) = jt[R]
  BY SumIs
<1> HIDE DEF it, jt
<1>5. jt[R] = it[R]
  <2> HIDE DEF R
  <2> QED  BY <1>1, <1>2, <1>3, SumsAgree
<1>6. it[S] = g[Chosen(S)] + it[R]
  BY <1>2 DEF IsSums
<1> QED  BY <1>4, <1>5, <1>6

LEMMA SumEmpty ==
  ASSUME NEW g
  PROVE  SumFunctionOnSet(g, {}) = 0
<1>1. PICK it : IsSums(it, g, SUBSET {})
  BY SumsExist, FS_EmptySet
<1>2. IsSums(CHOOSE jt : IsSums(jt, g, SUBSET {}), g, SUBSET {})
  BY <1>1
<1>3. (CHOOSE jt : IsSums(jt, g, SUBSET {}))[{}] = 0
  BY <1>2 DEF IsSums
<1> QED  BY <1>3, SumIs

LEMMA SumNat ==
  ASSUME NEW S, IsFiniteSet(S), NEW g, \A x \in S : g[x] \in Nat
  PROVE  SumFunctionOnSet(g, S) \in Nat
<1> DEFINE F == {T \in SUBSET S : SumFunctionOnSet(g, T) \notin Nat}
<1>1. ASSUME F # {}
      PROVE  FALSE
  <2>1. PICK T \in F : IsFiniteSet(T) /\ \A x \in T : T \ {x} \notin F
    BY <1>1, MinimalSet
  <2>2. T # {}
    BY <2>1, SumEmpty
  <2>3. Chosen(T) \in T
    BY <2>2 DEF Chosen
  <2>4. SumFunctionOnSet(g, T \ {Chosen(T)}) \in Nat
    BY <2>1, <2>3
  <2>5. SumFunctionOnSet(g, T) = g[Chosen(T)] + SumFunctionOnSet(g, T \ {Chosen(T)})
    BY <2>1, <2>2, SumUnfolds
  <2>6. g[Chosen(T)] \in Nat
    BY <2>1, <2>3
  <2> QED  BY <2>1, <2>4, <2>5, <2>6
<1> QED  BY <1>1

\* any element may be taken out first
LEMMA SumTakeOut ==
  ASSUME NEW S, IsFiniteSet(S), NEW g, \A x \in S : g[x] \in Nat, NEW e \in S
  PROVE  SumFunctionOnSet(g, S) = g[e] + SumFunctionOnSet(g, S \ {e})
<1> DEFINE Odd(T) == \E x \in T : SumFunctionOnSet(g, T) # g[x] + SumFunctionOnSet(g, T \ {x})
           F == {T \in SUBSET S : Odd(T)}
<1>1. ASSUME F # {}
      PROVE  FALSE
  <2>1. PICK T \in F : IsFiniteSet(T) /\ \A x \in T : T \ {x} \notin F
    BY <1>1, MinimalSet
  <2>2. PICK x \in T : SumFunctionOnSet(g, T) # g[x] + SumFunctionOnSet(g, T \ {x})
    BY <2>1
  <2> DEFINE c == Chosen(T)
             R == T \ {c, x}
  <2>3. c \in T
    BY <2>2 DEF Chosen
  <2>4. SumFunctionOnSet(g, T) = g[c] + SumFunctionOnSet(g, T \ {c})
    BY <2>1, <2>2, SumUnfolds
  <2> HIDE DEF c
  <2>5. c # x
    BY <2>2, <2>4
  <2>6. T \ {c} \notin F /\ T \ {x} \notin F /\ T \in SUBSET S
    BY <2>1, <2>3
  <2>7. ~Odd(T \ {c}) /\ ~Odd(T \ {x})
    BY <2>6
  <2>8. x \in T \ {c} /\ c \in T \ {x} /\ (T \ {c}) \ {x} = R /\ (T \ {x}) \ {c} = R
    BY <2>3, <2>5
  <2>9. SumFunctionOnSet(g, T \ {c}) = g[x] + SumFunctionOnSet(g, R)
    BY <2>7, <2>8
  <2>10. SumFunctionOnSet(g, T \ {x}) = g[c] + SumFunctionOnSet(g, R)
    BY <2>7, <2>8
  <2>11. IsFiniteSet(R)
    BY <2>1, FS_Subset
  <2>12. SumFunctionOnSet(g, R) \in Nat /\ g[x] \in Nat /\ g[c] \in Nat
    <3>1. \A y \in R : g[y] \in Nat
      BY <2>6
    <3>2. SumFunctionOnSet(g, R) \in Nat
      <4> HIDE DEF R
      <4> QED  BY <3>1, <2>11, SumNat
    <3> QED  BY <2>3, <2>6, <3>2
  <2> HIDE DEF R
  <2> QED  BY <2>2, <2>4, <2>9, <2>10, <2>12
<1> QED  BY <1>1

LEMMA SumAgrees ==
  ASSUME NEW S, IsFiniteSet(S), NEW g, NEW h, \A x \in S : g[x] = h[x]
  PROVE  SumFunctionOnSet(g, S) = SumFunctionOnSet(h, S)
<1> DEFINE F == {T \in SUBSET S : SumFunctionOnSet(g, T) # SumFunctionOnSet(h, T)}
<1>1. ASSUME F # {}
      PROVE  FALSE
  <2>1. PICK T \in F : IsFiniteSet(T) /\ \A x \in T : T \ {x} \notin F
    BY <1>1, MinimalSet
  <2>2. T # {}
    BY <2>1, SumEmpty
  <2> DEFINE c == Chosen(T)
  <2>3. c \in T
    BY <2>2 DEF Chosen
  <2>4. /\ SumFunctionOnSet(g, T) = g[c] + SumFunctionOnSet(g, T \ {c})
        /\ SumFunctionOnSet(h, T) = h[c] + SumFunctionOnSet(h, T \ {c})
    BY <2>1, <2>2, SumUnfolds
  <2> HIDE DEF c
  <2>5. SumFunctionOnSet(g, T \ {c}) = SumFunctionOnSet(h, T \ {c}) /\ g[c] = h[c]
    BY <2>1, <2>3
  <2> QED  BY <2>1, <2>4, <2>5
<1> QED  BY <1>1

LEMMA SumDisjoint ==
  ASSUME NEW S, IsFiniteSet(S), NEW R, IsFiniteSet(R), S \cap R = {},
         NEW g, \A x \in S \cup R : g[x] \in Nat
  PROVE  SumFunctionOnSet(g, S \cup R) = SumFunctionOnSet(g, S) + SumFunctionOnSet(g, R)
<1> DEFINE F == {T \in SUBSET R : SumFunctionOnSet(g, S \cup T)
                                    # SumFunctionOnSet(g, S) + SumFunctionOnSet(g, T)}
<1>0. \A T \in SUBSET R : IsFiniteSet(T) /\ IsFiniteSet(S \cup T)
  BY FS_Subset, FS_Union
<1>1. ASSUME F # {}
      PROVE  FALSE
  <2>1. PICK T \in F : IsFiniteSet(T) /\ \A x \in T : T \ {x} \notin F
    BY <1>1, MinimalSet
  <2>2. SumFunctionOnSet(g, S) \in Nat
    BY SumNat
  <2>3. T # {}
    BY <2>1, <2>2, SumEmpty
  <2>4. PICK e \in T : TRUE
    BY <2>3
  <2> DEFINE Q == T \ {e}
  <2>5. e \in R /\ e \notin S /\ (S \cup T) \ {e} = S \cup Q /\ T \in SUBSET R /\ Q \in SUBSET R
    BY <2>1, <2>4
  <2>6. SumFunctionOnSet(g, S \cup Q) = SumFunctionOnSet(g, S) + SumFunctionOnSet(g, Q)
    BY <2>1, <2>4, <2>5
  <2>7. SumFunctionOnSet(g, T) = g[e] + SumFunctionOnSet(g, Q)
    BY <2>1, <2>4, <2>5, SumTakeOut
  <2>8. SumFunctionOnSet(g, S \cup T) = g[e] + SumFunctionOnSet(g, S \cup Q)
    <3>1. \A x \in S \cup T : g[x] \in Nat
      BY <2>5
    <3>2. e \in S \cup T
      BY <2>4
    <3>3. IsFiniteSet(S \cup T)
      BY <1>0, <2>5
    <3>4. SumFunctionOnSet(g, S \cup T) = g[e] + SumFunctionOnSet(g, (S \cup T) \ {e})
      BY <3>1, <3>2, <3>3, SumTakeOut
    <3> QED  BY <2>5, <3>4
  <2>9. SumFunctionOnSet(g, Q) \in Nat /\ g[e] \in Nat
    <3>1. \A y \in Q : g[y] \in Nat
      BY <2>5
    <3>2. SumFunctionOnSet(g, Q) \in Nat
      BY <1>0, <2>5, <3>1, SumNat
    <3> QED  BY <2>5, <3>2
  <2> HIDE DEF Q
  <2> QED  BY <2>1, <2>2, <2>6, <2>7, <2>8, <2>9
<1> QED  BY <1>1

LEMMA FiniteImage ==
  ASSUME NEW S, IsFiniteSet(S), NEW p
  PROVE  IsFiniteSet({p[x] : x \in S})
<1> DEFINE T == {p[x] : x \in S}
           q == [x \in S |-> p[x]]
<1>1. q \in Surjection(S, T)
  BY DEF Surjection
<1> HIDE DEF q, T
<1>2. IsFiniteSet(T)
  BY <1>1, FS_Surjection
<1> QED  BY <1>2 DEF T

\* the same numbers under other names
LEMMA SumRenamed ==
  ASSUME NEW S, IsFiniteSet(S), NEW g, \A x \in S : g[x] \in Nat, NEW h,
         NEW p, \A x \in S : h[p[x]] = g[x],
         \A x, y \in S : p[x] = p[y] => x = y
  PROVE  SumFunctionOnSet(g, S) = SumFunctionOnSet(h, {p[x] : x \in S})
<1> DEFINE Named(T) == {p[x] : x \in T}
           F == {T \in SUBSET S : SumFunctionOnSet(g, T) # SumFunctionOnSet(h, Named(T))}
<1>1. ASSUME F # {}
      PROVE  FALSE
  <2>1. PICK T \in F : IsFiniteSet(T) /\ \A x \in T : T \ {x} \notin F
    BY <1>1, MinimalSet
  <2>2. T # {}
    <3>1. Named({}) = {}
      OBVIOUS
    <3>2. SumFunctionOnSet(g, {}) = SumFunctionOnSet(h, Named({}))
      BY <3>1, SumEmpty
    <3> QED  BY <2>1, <3>2
  <2>3. PICK e \in T : TRUE
    BY <2>2
  <2> DEFINE Q == T \ {e}
  <2>4. T \in SUBSET S /\ Q \in SUBSET S
    BY <2>1
  <2>5. p[e] \in Named(T) /\ Named(T) \ {p[e]} = Named(Q)
    BY <2>3, <2>4
  <2>6. SumFunctionOnSet(g, Q) = SumFunctionOnSet(h, Named(Q))
    BY <2>1, <2>3, <2>4
  <2>7. SumFunctionOnSet(g, T) = g[e] + SumFunctionOnSet(g, Q)
    BY <2>1, <2>3, <2>4, SumTakeOut
  <2>8. IsFiniteSet(Named(T))
    BY <2>1, FiniteImage
  <2>9. \A y \in Named(T) : h[y] \in Nat
    BY <2>4
  <2>10. SumFunctionOnSet(h, Named(T)) = h[p[e]] + SumFunctionOnSet(h, Named(T) \ {p[e]})
    <3> HIDE DEF Named
    <3> QED  BY <2>5, <2>8, <2>9, SumTakeOut
  <2>11. h[p[e]] = g[e]
    BY <2>3, <2>4
  <2> QED  BY <2>1, <2>5, <2>6, <2>7, <2>10, <2>11
<1> QED  BY <1>1

-----------------------------------------------------------------------------
(* The fields of a database. *)
Shape(x) ==
  x = [rows |-> x.rows, tombs |-> x.tombs, hourly |-> x.hourly, records |-> x.records,
       imported |-> x.imported, receipts |-> x.receipts, nextId |-> x.nextId,
       inserts |-> x.inserts, booked |-> x.booked, taken |-> x.taken]

(* CountedOnce of any database. *)
Counted(x) ==
  \A f \in Prints :
    /\ x.inserts[f] <= 1
    /\ x.inserts[f] = 1 <=> x.rows[f] # NoRow \/ f \in x.tombs
    /\ ~(x.rows[f] # NoRow /\ f \in x.tombs)

(* A receipt's usage has been inserted. *)
Backed(x) ==
  \A d \in Devices, k \in Keys :
    x.receipts[d][k] # NoReceipt => x.inserts[x.receipts[d][k].fp] = 1

(* UsageConserved of any database. *)
Conserved(x) ==
  /\ x.booked = x.hourly.tokens + Tokens(x, Raw(x)) + HourlyTokens(x.imported)
  /\ x.hourly.requests = Cardinality(x.tombs)

Good(x) == Shape(x) /\ Typed(x) /\ Counted(x) /\ Backed(x) /\ Conserved(x)

(* What an answer that is no rejection promises of the database behind it. *)
Kept(answers, x) ==
  \A i \in 1..Len(answers) :
    answers[i].status # "rejected" => x.receipts[sender][answers[i].line.key] # NoReceipt

(* Both databases are good, and what was answered, to a caller or so far in *)
(* the open transaction, is kept by the database it will be read from.      *)
IInv ==
  /\ Good(db) /\ Good(work)
  /\ sender \in Devices
  /\ todo \in Seq(Lines)
  /\ results \in Seq(AnswerType) /\ replies \in Seq(AnswerType)
  /\ Kept(results, work)
  /\ Kept(replies, db)

-----------------------------------------------------------------------------
(* The writers of one database. *)

LEMMA LineFacts ==
  \A l \in Lines : /\ l.key \in Keys /\ l.fp \in Prints
                   /\ l.at \in Nat /\ l.tokens \in Nat /\ l.meta \in SUBSET STRING
  BY StoreConstants DEF LineType, Keys, Prints

LEMMA FinitePrints == IsFiniteSet(Prints)
<1> DEFINE p == [l \in Lines |-> l.fp]
<1>1. Prints = {p[l] : l \in Lines}
  BY DEF Prints
<1> HIDE DEF p
<1> QED  BY <1>1, FiniteImage, StoreConstants

(* Sums of usages that are raw rows, and of hourly rows. *)
LEMMA TokensNat ==
  ASSUME NEW x, Typed(x), NEW S \in SUBSET Raw(x)
  PROVE  Tokens(x, S) \in Nat /\ IsFiniteSet(S)
<1> DEFINE g == [f \in S |-> x.rows[f].tokens]
<1>1. IsFiniteSet(S)
  BY FinitePrints, FS_Subset DEF Raw
<1>2. \A f \in S : g[f] \in Nat
  BY DEF Raw, Typed, Row
<1> HIDE DEF g
<1>3. SumFunctionOnSet(g, S) \in Nat
  BY <1>1, <1>2, SumNat
<1> QED  BY <1>1, <1>3 DEF Tokens, g

LEMMA TokensSplit ==
  ASSUME NEW x, Typed(x), NEW S \in SUBSET Raw(x), NEW R \in SUBSET Raw(x), S \cap R = {}
  PROVE  Tokens(x, S \cup R) = Tokens(x, S) + Tokens(x, R)
<1> DEFINE g == [f \in S \cup R |-> x.rows[f].tokens]
           gS == [f \in S |-> x.rows[f].tokens]
           gR == [f \in R |-> x.rows[f].tokens]
<1>1. IsFiniteSet(S) /\ IsFiniteSet(R)
  BY TokensNat
<1>2. \A f \in S \cup R : g[f] \in Nat
  BY DEF Raw, Typed, Row
<1>3. (\A f \in S : g[f] = gS[f]) /\ (\A f \in R : g[f] = gR[f])
  OBVIOUS
<1> HIDE DEF g, gS, gR
<1>4. SumFunctionOnSet(g, S \cup R) = SumFunctionOnSet(g, S) + SumFunctionOnSet(g, R)
  BY <1>1, <1>2, SumDisjoint
<1>5. SumFunctionOnSet(g, S) = SumFunctionOnSet(gS, S) /\ SumFunctionOnSet(g, R) = SumFunctionOnSet(gR, R)
  BY <1>1, <1>3, SumAgrees
<1> QED  BY <1>4, <1>5 DEF Tokens, g, gS, gR

LEMMA HourlyNat ==
  ASSUME NEW H \in SUBSET ImportedType, IsFiniteSet(H)
  PROVE  HourlyTokens(H) \in Nat
<1> DEFINE g == [h \in H |-> h.tokens]
<1>1. \A h \in H : g[h] \in Nat
  BY DEF ImportedType
<1> HIDE DEF g
<1>2. SumFunctionOnSet(g, H) \in Nat
  BY <1>1, SumNat
<1> QED  BY <1>2 DEF HourlyTokens, g

LEMMA HourlySplit ==
  ASSUME NEW G \in SUBSET ImportedType, IsFiniteSet(G),
         NEW H \in SUBSET ImportedType, IsFiniteSet(H), G \cap H = {}
  PROVE  HourlyTokens(G \cup H) = HourlyTokens(G) + HourlyTokens(H)
<1> DEFINE g == [h \in G \cup H |-> h.tokens]
           gG == [h \in G |-> h.tokens]
           gH == [h \in H |-> h.tokens]
<1>1. \A h \in G \cup H : g[h] \in Nat
  BY DEF ImportedType
<1>2. (\A h \in G : g[h] = gG[h]) /\ (\A h \in H : g[h] = gH[h])
  OBVIOUS
<1> HIDE DEF g, gG, gH
<1>3. SumFunctionOnSet(g, G \cup H) = SumFunctionOnSet(g, G) + SumFunctionOnSet(g, H)
  BY <1>1, SumDisjoint
<1>4. SumFunctionOnSet(g, G) = SumFunctionOnSet(gG, G) /\ SumFunctionOnSet(g, H) = SumFunctionOnSet(gH, H)
  BY <1>2, SumAgrees
<1> QED  BY <1>3, <1>4 DEF HourlyTokens, g, gG, gH

LEMMA NoTokens == (\A x : Tokens(x, {}) = 0) /\ HourlyTokens({}) = 0
  BY SumEmpty DEF Tokens, HourlyTokens

LEMMA OneToken ==
  ASSUME NEW x, NEW f, x.rows[f].tokens \in Nat
  PROVE  Tokens(x, {f}) = x.rows[f].tokens
<1> DEFINE g == [e \in {f} |-> x.rows[e].tokens]
<1>1. IsFiniteSet({f}) /\ \A e \in {f} : g[e] \in Nat
  BY FS_Singleton
<1>2. f \in {f} /\ {f} \ {f} = {} /\ g[f] = x.rows[f].tokens
  OBVIOUS
<1> HIDE DEF g
<1>3. SumFunctionOnSet(g, {f}) = g[f] + SumFunctionOnSet(g, {f} \ {f})
  BY <1>1, <1>2, SumTakeOut
<1> QED  BY <1>2, <1>3, SumEmpty DEF Tokens, g

(* New raw and hourly rows add what they bring. *)
LEMMA AddingConserves ==
  ASSUME NEW x, Typed(x), Conserved(x), NEW y, Typed(y),
         NEW S, S \cap Raw(x) = {}, Raw(y) = Raw(x) \cup S,
         \A f \in Raw(x) : y.rows[f].tokens = x.rows[f].tokens,
         NEW H, H \cap x.imported = {}, y.imported = x.imported \cup H,
         y.hourly = x.hourly, y.tombs = x.tombs,
         y.booked = x.booked + Tokens(y, S) + HourlyTokens(H)
  PROVE  Conserved(y)
<1>1. Raw(x) \in SUBSET Raw(y) /\ S \in SUBSET Raw(y) /\ Raw(x) \cap S = {}
  OBVIOUS
<1>2. Tokens(y, Raw(y)) = Tokens(y, Raw(x)) + Tokens(y, S)
  BY <1>1, TokensSplit
<1>3. Tokens(y, Raw(x)) = Tokens(x, Raw(x))
  BY DEF Tokens
<1>4. Tokens(y, S) \in Nat /\ Tokens(x, Raw(x)) \in Nat
  BY <1>1, TokensNat
<1>5. /\ x.imported \in SUBSET ImportedType /\ IsFiniteSet(x.imported)
      /\ H \in SUBSET ImportedType /\ IsFiniteSet(H)
  BY FS_Subset DEF Typed
<1>6. HourlyTokens(y.imported) = HourlyTokens(x.imported) + HourlyTokens(H)
  BY <1>5, HourlySplit
<1>7. HourlyTokens(x.imported) \in Nat /\ HourlyTokens(H) \in Nat
  BY <1>5, HourlyNat
<1>8. x.hourly.tokens \in Nat
  BY DEF Typed, HourlyType
<1> QED
  BY <1>2, <1>3, <1>4, <1>6, <1>7, <1>8 DEF Conserved

(* Nor does a row that says more about its usage change the sums. *)
LEMMA KeepingConserves ==
  ASSUME NEW x, Conserved(x), NEW y, Raw(y) = Raw(x),
         \A f \in Raw(x) : y.rows[f].tokens = x.rows[f].tokens,
         y.hourly = x.hourly, y.tombs = x.tombs, y.imported = x.imported,
         y.booked = x.booked
  PROVE  Conserved(y)
<1>1. Tokens(y, Raw(y)) = Tokens(x, Raw(x))
  BY DEF Tokens
<1> QED  BY <1>1 DEF Conserved

(* Retention moves what the expired rows count to the archive. *)
LEMMA ArchivingConserves ==
  ASSUME NEW x, Typed(x), Conserved(x), NEW y, NEW E, E \subseteq Raw(x),
         x.tombs \cap E = {},
         Raw(y) = Raw(x) \ E, \A f \in Raw(y) : y.rows[f] = x.rows[f],
         y.hourly.tokens = x.hourly.tokens + Tokens(x, E),
         y.hourly.requests = x.hourly.requests + Cardinality(E),
         y.tombs = x.tombs \cup E, y.imported = x.imported, y.booked = x.booked
  PROVE  Conserved(y)
<1>1. /\ E \in SUBSET Raw(x) /\ Raw(y) \in SUBSET Raw(x) /\ E \cap Raw(y) = {}
      /\ Raw(x) = E \cup Raw(y)
  OBVIOUS
<1>2. Tokens(x, Raw(x)) = Tokens(x, E) + Tokens(x, Raw(y))
  <2> DEFINE R == Raw(y)
  <2>1. R \in SUBSET Raw(x) /\ E \in SUBSET Raw(x) /\ E \cap R = {} /\ Raw(x) = E \cup R
    BY <1>1
  <2> HIDE DEF R
  <2>2. Tokens(x, E \cup R) = Tokens(x, E) + Tokens(x, R)
    BY <2>1, TokensSplit
  <2>3. Tokens(x, Raw(x)) = Tokens(x, E) + Tokens(x, R)
    BY <2>1, <2>2, Zenon
  <2> QED
    BY <2>3 DEF R
<1>3. Tokens(y, Raw(y)) = Tokens(x, Raw(y))
  BY DEF Tokens
<1>4. Tokens(x, E) \in Nat /\ Tokens(x, Raw(y)) \in Nat /\ IsFiniteSet(E)
  BY <1>1, TokensNat
<1>5. IsFiniteSet(x.tombs)
  BY FinitePrints, FS_Subset DEF Typed
<1>6. Cardinality(y.tombs) = Cardinality(x.tombs) + Cardinality(E)
  <2>1. Cardinality(x.tombs \cup E) = Cardinality(x.tombs) + Cardinality(E) - Cardinality({})
    BY <1>4, <1>5, FS_Union
  <2> QED  BY <1>4, <1>5, <2>1, FS_EmptySet, FS_CardinalityType
<1>7. x.imported \in SUBSET ImportedType /\ IsFiniteSet(x.imported) /\ x.hourly.tokens \in Nat
  BY DEF Typed, HourlyType
<1>8. HourlyTokens(x.imported) \in Nat
  BY <1>7, HourlyNat
<1>9. y.booked = y.hourly.tokens + Tokens(y, Raw(y)) + HourlyTokens(y.imported)
  BY <1>2, <1>3, <1>4, <1>7, <1>8 DEF Conserved
<1> QED
  BY <1>6, <1>9 DEF Conserved

LEMMA EmptyIsGood == Good(Empty)
<1>1. Raw(Empty) = {}
  BY DEF Raw, Empty
<1>2. Conserved(Empty)
  <2>1. /\ Empty.booked = 0 /\ Empty.hourly.tokens = 0 /\ Empty.hourly.requests = 0
        /\ Empty.imported = {} /\ Empty.tombs = {}
    BY DEF Empty
  <2>2. Tokens(Empty, Raw(Empty)) = 0 /\ HourlyTokens(Empty.imported) = 0
    BY <1>1, <2>1, NoTokens
  <2> QED  BY <2>1, <2>2, FS_EmptySet DEF Conserved
<1>3. Shape(Empty) /\ Typed(Empty) /\ Counted(Empty) /\ Backed(Empty)
  BY FS_EmptySet DEF Shape, Typed, Counted, Backed, Empty, HourlyType
<1> QED  BY <1>2, <1>3 DEF Good

(* A usage that was never stored may be inserted. *)
LEMMA InsertKeeps ==
  ASSUME NEW x, Good(x), NEW u, u.fp \in Prints,
         u.at \in Nat, u.tokens \in Nat, u.meta \in SUBSET STRING,
         x.rows[u.fp] = NoRow, u.fp \notin x.tombs
  PROVE  /\ Good(Inserted(x, u))
         /\ Inserted(x, u).inserts[u.fp] = 1
         /\ Inserted(x, u).receipts = x.receipts
         /\ x.nextId \in Nat
<1> DEFINE y == Inserted(x, u)
<1>1. /\ y.rows = [x.rows EXCEPT ![u.fp] = RowOf(u, x.nextId)]
      /\ y.tombs = x.tombs
      /\ y.receipts = x.receipts
      /\ y.nextId = x.nextId + 1
      /\ y.inserts = [x.inserts EXCEPT ![u.fp] = @ + 1]
      /\ y.hourly = x.hourly /\ y.imported = x.imported /\ y.records = x.records
      /\ y.booked = x.booked + u.tokens
      /\ Shape(y)
  <2> DEFINE r == RowOf(u, x.nextId)
  <2> HIDE DEF r
  <2>0. y = [x EXCEPT !.rows[u.fp] = r, !.nextId = @ + 1,
                      !.inserts[u.fp] = @ + 1, !.booked = @ + u.tokens]
    BY DEF Inserted, r
  <2>1. y.rows = [x.rows EXCEPT ![u.fp] = r]
    BY <2>0 DEF Good, Shape
  <2>2. y.tombs = x.tombs /\ y.receipts = x.receipts
    BY <2>0 DEF Good, Shape
  <2>3. y.nextId = x.nextId + 1
    BY <2>0 DEF Good, Shape
  <2>4. y.inserts = [x.inserts EXCEPT ![u.fp] = @ + 1]
    BY <2>0 DEF Good, Shape
  <2>5. /\ y.hourly = x.hourly /\ y.imported = x.imported /\ y.records = x.records
        /\ y.booked = x.booked + u.tokens
    BY <2>0 DEF Good, Shape
  <2>6. Shape(y)
    BY <2>0 DEF Good, Shape
  <2> QED
    BY <2>1, <2>2, <2>3, <2>4, <2>5, <2>6 DEF r
<1>2. RowOf(u, x.nextId) \in Row
  BY DEF RowOf, Row, Good, Typed
<1>3. Typed(y)
  BY <1>1, <1>2 DEF Good, Typed
<1>4. x.inserts[u.fp] = 0
  <2> HIDE DEF y
  <2>1. x.inserts[u.fp] \in Nat
    BY DEF Good, Typed
  <2>2. x.inserts[u.fp] <= 1 /\ x.inserts[u.fp] # 1
    BY DEF Good, Counted
  <2> QED
    BY <2>1, <2>2
<1>5. Counted(y)
  BY <1>1, <1>2, <1>4, StoreConstants DEF Good, Typed, Counted
<1>6. Backed(y)
  <2> SUFFICES ASSUME NEW d \in Devices, NEW k \in Keys, x.receipts[d][k] # NoReceipt
               PROVE  y.inserts[x.receipts[d][k].fp] = 1
    BY <1>1 DEF Backed
  <2>1. x.receipts[d][k] \in ReceiptType
    BY DEF Good, Typed
  <2>2. x.receipts[d][k].fp \in Prints /\ x.inserts[x.receipts[d][k].fp] = 1
    BY <2>1 DEF ReceiptType, Good, Backed
  <2> QED
    BY <1>1, <1>4, <2>2 DEF Good, Typed
<1>7. y.inserts[u.fp] = 1 /\ x.nextId \in Nat
  BY <1>1, <1>4 DEF Good, Typed
<1>8. Conserved(y)
  <2>1. Raw(y) = Raw(x) \cup {u.fp} /\ {u.fp} \cap Raw(x) = {}
    BY <1>1, <1>2, StoreConstants DEF Raw, Good, Typed
  <2>2. \A f \in Raw(x) : y.rows[f].tokens = x.rows[f].tokens
    BY <1>1 DEF Raw, Good, Typed
  <2>3. y.rows[u.fp].tokens = u.tokens
    BY <1>1 DEF RowOf, Good, Typed
  <2>4. Tokens(y, {u.fp}) = u.tokens
    BY <2>3, OneToken
  <2>5. y.booked = x.booked + Tokens(y, {u.fp}) + HourlyTokens({})
    <3>1. x.booked \in Nat /\ y.booked = x.booked + u.tokens
      BY <1>1 DEF Good, Typed
    <3> HIDE DEF y
    <3> QED
      BY <2>4, <3>1, NoTokens
  <2>6. {} \cap x.imported = {} /\ y.imported = x.imported \cup {}
    BY <1>1
  <2> DEFINE none == {}
  <2>7. /\ y.booked = x.booked + Tokens(y, {u.fp}) + HourlyTokens(none)
        /\ none \cap x.imported = {} /\ y.imported = x.imported \cup none
        /\ y.hourly = x.hourly /\ y.tombs = x.tombs
    BY <1>1, <2>5, <2>6
  <2>8. Typed(x) /\ Conserved(x)
    BY DEF Good
  <2> HIDE DEF y, none
  <2> QED
    BY <1>3, <2>1, <2>2, <2>7, <2>8, AddingConserves
<1> QED
  BY <1>1, <1>3, <1>5, <1>6, <1>7, <1>8 DEF Good

(* A receipt for a usage that was inserted. *)
LEMMA ReceiptKeeps ==
  ASSUME NEW x, Good(x), NEW d \in Devices, NEW l \in Lines, NEW row \in Nat,
         x.inserts[l.fp] = 1
  PROVE  /\ Good(Receipted(x, d, l, row))
         /\ Receipted(x, d, l, row).receipts[d][l.key] # NoReceipt
         /\ \A e \in Devices, k \in Keys :
              x.receipts[e][k] # NoReceipt => Receipted(x, d, l, row).receipts[e][k] # NoReceipt
<1> DEFINE y == Receipted(x, d, l, row)
           r == [line |-> l, fp |-> l.fp, row |-> row]
<1>1. /\ y.rows = x.rows /\ y.tombs = x.tombs /\ y.nextId = x.nextId /\ y.inserts = x.inserts
      /\ y.receipts = [x.receipts EXCEPT ![d][l.key] = r]
      /\ y.hourly = x.hourly /\ y.imported = x.imported /\ y.records = x.records
      /\ y.booked = x.booked
      /\ Shape(y)
  BY DEF Receipted, Good, Shape
<1>2. r \in ReceiptType /\ r # NoReceipt /\ l.key \in Keys
  BY LineFacts, StoreConstants DEF ReceiptType
<1>3. x.receipts \in [Devices -> [Keys -> ReceiptType \cup {NoReceipt}]]
  BY DEF Good, Typed
<1>4. \A e \in Devices, k \in Keys :
        y.receipts[e][k] = IF e = d /\ k = l.key THEN r ELSE x.receipts[e][k]
  BY <1>1, <1>2, <1>3
<1>5. y.receipts \in [Devices -> [Keys -> ReceiptType \cup {NoReceipt}]]
  BY <1>1, <1>2, <1>3
<1>6. Typed(y)
  BY <1>1, <1>5 DEF Good, Typed
<1>7. Counted(y)
  BY <1>1 DEF Good, Counted
<1>8. Backed(y)
  BY <1>1, <1>4 DEF Good, Backed
<1>9. Conserved(y)
  BY <1>1, KeepingConserves DEF Good, Raw
<1> QED
  BY <1>1, <1>2, <1>4, <1>6, <1>7, <1>8, <1>9 DEF Good

(* A row may say more about its usage, and a receipt may remember another   *)
(* event of a usage that was inserted.                                      *)
Revises(y, x) ==
  /\ Shape(y)
  /\ y.tombs = x.tombs /\ y.nextId = x.nextId /\ y.inserts = x.inserts
  /\ y.rows \in [Prints -> Row \cup {NoRow}]
  /\ \A f \in Prints : y.rows[f] = NoRow <=> x.rows[f] = NoRow
  /\ \A f \in Raw(x) : y.rows[f].tokens = x.rows[f].tokens
  /\ y.hourly = x.hourly /\ y.imported = x.imported /\ y.records = x.records
  /\ y.booked = x.booked
  /\ y.receipts \in [Devices -> [Keys -> ReceiptType \cup {NoReceipt}]]
  /\ \A d \in Devices, k \in Keys :
       y.receipts[d][k] # NoReceipt => x.inserts[y.receipts[d][k].fp] = 1

LEMMA RevisionKeeps ==
  ASSUME NEW x, Good(x), NEW y, Revises(y, x)
  PROVE  Good(y)
<1>1. Typed(y)
  BY DEF Good, Typed, Revises
<1>2. Counted(y)
  BY DEF Good, Counted, Revises
<1>3. Backed(y)
  BY DEF Backed, Revises
<1>4. Conserved(y)
  <2>1. Raw(y) = Raw(x)
    BY DEF Raw, Revises
  <2> QED
    BY <2>1, KeepingConserves DEF Good, Revises
<1> QED
  BY <1>1, <1>2, <1>3, <1>4 DEF Good, Revises

(* enrichUsageEvent. *)
Enriched(x, f, d, l) ==
  [x EXCEPT !.rows[f].meta = l.meta, !.receipts[d][l.key].line = l]

LEMMA EnrichKeeps ==
  ASSUME NEW x, Good(x), NEW d \in Devices, NEW l \in Lines,
         x.receipts[d][l.key] # NoReceipt,
         NEW f \in Prints, x.rows[f] # NoRow,
         NEW y, y = Enriched(x, f, d, l)
  PROVE  /\ Good(y)
         /\ \A e \in Devices, k \in Keys :
              x.receipts[e][k] # NoReceipt => y.receipts[e][k] # NoReceipt
<1> DEFINE row == [x.rows[f] EXCEPT !.meta = l.meta]
           receipt == [x.receipts[d][l.key] EXCEPT !.line = l]
<1>1. x.rows \in [Prints -> Row \cup {NoRow}]
      /\ x.receipts \in [Devices -> [Keys -> ReceiptType \cup {NoReceipt}]]
  BY DEF Good, Typed
<1>2. x.rows[f] \in Row /\ x.receipts[d][l.key] \in ReceiptType
  BY <1>1, LineFacts
<1>3. row \in Row /\ row # NoRow /\ row.tokens = x.rows[f].tokens
  BY <1>2, LineFacts, StoreConstants DEF Row
<1>4. receipt \in ReceiptType /\ receipt # NoReceipt
      /\ receipt.fp = x.receipts[d][l.key].fp
  BY <1>2, LineFacts, StoreConstants DEF ReceiptType
<1> HIDE DEF row, receipt
<1>5. /\ y.tombs = x.tombs /\ y.nextId = x.nextId /\ y.inserts = x.inserts
      /\ y.hourly = x.hourly /\ y.imported = x.imported /\ y.records = x.records
      /\ y.booked = x.booked
  BY DEF Good, Shape, Enriched
<1>6. y.rows = [x.rows EXCEPT ![f] = row]
  BY DEF Good, Shape, Enriched, row
<1>7. y.receipts = [x.receipts EXCEPT ![d] = [x.receipts[d] EXCEPT ![l.key] = receipt]]
  BY DEF Good, Shape, Enriched, receipt
<1>8. Shape(y)
  BY DEF Good, Shape, Enriched
<1>9. \A e \in Devices, k \in Keys :
        y.receipts[e][k] = IF e = d /\ k = l.key THEN receipt ELSE x.receipts[e][k]
  BY <1>1, <1>7, LineFacts
<1>10. y.receipts \in [Devices -> [Keys -> ReceiptType \cup {NoReceipt}]]
  BY <1>1, <1>4, <1>7, LineFacts
<1>11. /\ y.rows \in [Prints -> Row \cup {NoRow}]
       /\ \A g \in Prints : y.rows[g] = NoRow <=> x.rows[g] = NoRow
       /\ \A g \in Raw(x) : y.rows[g].tokens = x.rows[g].tokens
  BY <1>1, <1>3, <1>6 DEF Raw
<1>12. \A e \in Devices, k \in Keys :
         y.receipts[e][k] # NoReceipt => x.inserts[y.receipts[e][k].fp] = 1
  BY <1>4, <1>9, LineFacts DEF Good, Backed
<1>13. Good(y)
  <2>1. Revises(y, x)
    BY <1>5, <1>8, <1>10, <1>11, <1>12 DEF Revises
  <2> QED
    BY <2>1, RevisionKeeps
<1> QED
  BY <1>4, <1>9, <1>13

(* InsertAPIIntegrationUsageEvent of a usage that is a raw row. *)
Merged(x, l) == [x EXCEPT !.rows[l.fp].meta = @ \cup l.meta]

LEMMA MergeKeeps ==
  ASSUME NEW x, Good(x), NEW l \in Lines, x.rows[l.fp] # NoRow,
         NEW y, y = Merged(x, l)
  PROVE  Good(y) /\ y.receipts = x.receipts
<1> DEFINE row == [x.rows[l.fp] EXCEPT !.meta = x.rows[l.fp].meta \cup l.meta]
<1>1. x.rows[l.fp] \in Row
  BY LineFacts DEF Good, Typed
<1>2. row \in Row /\ row # NoRow /\ row.tokens = x.rows[l.fp].tokens
  BY <1>1, LineFacts, StoreConstants DEF Row
<1> HIDE DEF row
<1>3. /\ y.tombs = x.tombs /\ y.nextId = x.nextId /\ y.inserts = x.inserts
      /\ y.hourly = x.hourly /\ y.imported = x.imported /\ y.records = x.records
      /\ y.booked = x.booked
      /\ y.receipts = x.receipts
  BY DEF Good, Shape, Merged
<1>4. y.rows = [x.rows EXCEPT ![l.fp] = row]
  BY DEF Good, Shape, Merged, row
<1>5. Shape(y)
  BY DEF Good, Shape, Merged
<1>6. /\ y.rows \in [Prints -> Row \cup {NoRow}]
      /\ \A g \in Prints : y.rows[g] = NoRow <=> x.rows[g] = NoRow
      /\ \A g \in Raw(x) : y.rows[g].tokens = x.rows[g].tokens
  <2>1. l.fp \in Prints /\ x.rows \in [Prints -> Row \cup {NoRow}]
    BY LineFacts DEF Good, Typed
  <2> QED
    BY <1>2, <1>4, <2>1 DEF Raw
<1>7. y.receipts \in [Devices -> [Keys -> ReceiptType \cup {NoReceipt}]]
      /\ \A e \in Devices, k \in Keys :
           y.receipts[e][k] # NoReceipt => x.inserts[y.receipts[e][k].fp] = 1
  BY <1>3 DEF Good, Typed, Backed
<1>8. Revises(y, x)
  BY <1>3, <1>5, <1>6, <1>7 DEF Revises
<1> QED
  BY <1>3, <1>8, RevisionKeeps

(* CompactAPIIntegrationUsageEvents: raw rows become archived ones. *)
LEMMA CompactKeeps ==
  ASSUME NEW x, Good(x), NEW E, E \subseteq Prints, \A f \in E : x.rows[f] # NoRow,
         NEW y, Shape(y),
         y.rows = [f \in Prints |-> IF f \in E THEN NoRow ELSE x.rows[f]],
         y.tombs = x.tombs \cup E,
         y.receipts = x.receipts, y.nextId = x.nextId, y.inserts = x.inserts,
         y.hourly = [requests |-> x.hourly.requests + Cardinality(E),
                     tokens |-> x.hourly.tokens + Tokens(x, E),
                     times |-> x.hourly.times \cup {x.rows[f].at : f \in E}],
         y.records \subseteq x.records, y.imported = x.imported, y.booked = x.booked
  PROVE  Good(y)
<1>0. /\ E \in SUBSET Raw(x) /\ x.tombs \cap E = {}
      /\ Raw(y) = Raw(x) \ E /\ \A f \in Raw(y) : y.rows[f] = x.rows[f]
  BY DEF Raw, Good, Counted
<1>1. Typed(y)
  <2>1. Tokens(x, E) \in Nat /\ Cardinality(E) \in Nat
    BY <1>0, TokensNat, FS_CardinalityType DEF Good
  <2>2. \A f \in E : x.rows[f].at \in Nat
    BY DEF Good, Typed, Row
  <2>3. y.hourly \in HourlyType
    BY <2>1, <2>2 DEF Good, Typed, HourlyType
  <2> QED
    BY <2>3 DEF Good, Typed
<1>2. Counted(y)
  BY DEF Good, Counted
<1>3. Backed(y)
  BY DEF Good, Backed
<1>4. Conserved(y)
  BY <1>0, ArchivingConserves DEF Good
<1> QED
  BY <1>1, <1>2, <1>3, <1>4 DEF Good

(* The raw rows of an archive that are new here have different fingerprints, *)
(* so each is inserted once, under an id of its own.                         *)
LEMMA FreshFacts ==
  ASSUME NEW x, Good(x), NEW a \in Archives
  PROVE  LET new == Fresh(x, Self, a) IN
         /\ Cardinality(new) \in Nat
         /\ \A i \in new :
              /\ NewId(x, Self, a, i) \in Nat
              /\ a.raw[i].usage \in UsageType
              /\ x.rows[a.raw[i].usage.fp] = NoRow
              /\ a.raw[i].usage.fp \notin x.tombs
<1> DEFINE new == Fresh(x, Self, a)
<1>1. a.raw \in Seq(RawType)
  BY ArchiveType
<1>2. new \subseteq 1..Len(a.raw)
  BY <1>1 DEF Fresh, Unmapped
<1>3. \A S \in SUBSET new : Cardinality(S) \in Nat
  <2> SUFFICES ASSUME NEW S \in SUBSET new
               PROVE  Cardinality(S) \in Nat
    OBVIOUS
  <2>1. IsFiniteSet(1..Len(a.raw))
    BY <1>1, FS_Interval
  <2>2. IsFiniteSet(S)
    BY <1>2, <2>1, FS_Subset
  <2> QED
    BY <2>2, FS_CardinalityType
<1>4. x.nextId \in Nat
  BY DEF Good, Typed
<1>5. ASSUME NEW i \in new
      PROVE  NewId(x, Self, a, i) \in Nat
  <2>1. {j \in new : j < i} \in SUBSET new
    OBVIOUS
  <2>2. Cardinality({j \in new : j < i}) \in Nat
    BY <1>3, <2>1
  <2> QED
    BY <1>4, <2>2 DEF NewId
<1>6. \A i \in new : /\ a.raw[i].usage \in UsageType
                     /\ x.rows[a.raw[i].usage.fp] = NoRow
                     /\ a.raw[i].usage.fp \notin x.tombs
  <2> SUFFICES ASSUME NEW i \in new
               PROVE  /\ a.raw[i].usage \in UsageType
                      /\ x.rows[a.raw[i].usage.fp] = NoRow
                      /\ a.raw[i].usage.fp \notin x.tombs
    OBVIOUS
  <2>1. a.raw[i] \in RawType
    <3>1. i \in 1..Len(a.raw)
      BY <1>2
    <3> QED
      BY <1>1, <3>1
  <2>2. a.raw[i].usage \in UsageType
    BY <2>1 DEF RawType
  <2>3. x.rows[a.raw[i].usage.fp] = NoRow /\ a.raw[i].usage.fp \notin x.tombs
    BY DEF Fresh
  <2> QED
    BY <2>2, <2>3
<1> QED
  BY <1>3, <1>5, <1>6

(* What the new rows of an archive count is what its records say: two rows  *)
(* of an archive never have one fingerprint.                                *)
LEMMA FreshTokens ==
  ASSUME NEW x, Good(x), NEW a \in Archives, NEW y,
         \A i \in Fresh(x, Self, a) :
           y.rows[a.raw[i].usage.fp].tokens = a.raw[i].usage.tokens
  PROVE  LET new == Fresh(x, Self, a)
             brought == SumFunctionOnSet([i \in new |-> a.raw[i].usage.tokens], new)
         IN  /\ Tokens(y, {a.raw[i].usage.fp : i \in new}) = brought
             /\ brought \in Nat
<1> DEFINE new == Fresh(x, Self, a)
           g == [i \in new |-> a.raw[i].usage.tokens]
           p == [i \in new |-> a.raw[i].usage.fp]
           S == {p[i] : i \in new}
           h == [f \in S |-> y.rows[f].tokens]
<1>1. new \subseteq 1..Len(a.raw) /\ DOMAIN a.raw = 1..Len(a.raw) /\ Len(a.raw) \in Nat
  BY ArchiveType DEF Fresh, Unmapped
<1>2. IsFiniteSet(new)
  <2>1. IsFiniteSet(1..Len(a.raw))
    BY <1>1, FS_Interval
  <2> QED
    BY <1>1, <2>1, FS_Subset
<1>3. \A i \in new : g[i] \in Nat
  BY FreshFacts DEF UsageType
<1>4. \A i \in new : h[p[i]] = g[i]
  OBVIOUS
<1>5. \A i, j \in new : p[i] = p[j] => i = j
  BY <1>1, ArchiveType
<1>6. S = {a.raw[i].usage.fp : i \in new}
  OBVIOUS
<1> HIDE DEF new, g, p, h
<1>7. SumFunctionOnSet(g, new) = SumFunctionOnSet(h, S)
  BY <1>2, <1>3, <1>4, <1>5, SumRenamed
<1>8. SumFunctionOnSet(g, new) \in Nat
  BY <1>2, <1>3, SumNat
<1> HIDE DEF S
<1>9. Tokens(y, S) = SumFunctionOnSet(h, S)
  BY DEF Tokens, h
<1> QED
  BY <1>6, <1>7, <1>8, <1>9 DEF new, g

(* Usages that were never stored may be inserted together, with hourly rows *)
(* that are new.                                                            *)
Adds(y, x, S, H) ==
  /\ Shape(y)
  /\ S \subseteq Prints
  /\ \A f \in S : x.rows[f] = NoRow /\ f \notin x.tombs
  /\ y.tombs = x.tombs /\ y.receipts = x.receipts /\ y.nextId \in Nat
  /\ y.rows \in [Prints -> Row \cup {NoRow}]
  /\ \A f \in Prints : y.rows[f] # NoRow <=> x.rows[f] # NoRow \/ f \in S
  /\ \A f \in Raw(x) : y.rows[f].tokens = x.rows[f].tokens
  /\ y.hourly = x.hourly /\ y.records \subseteq RecordType
  /\ H \subseteq ImportedType /\ IsFiniteSet(H) /\ H \cap x.imported = {}
  /\ y.imported = x.imported \cup H
  /\ y.booked = x.booked + Tokens(y, S) + HourlyTokens(H) /\ y.booked \in Nat
  /\ y.inserts = [f \in Prints |-> IF f \in S THEN x.inserts[f] + 1 ELSE x.inserts[f]]

LEMMA AdditionKeeps ==
  ASSUME NEW x, Good(x), NEW S, NEW H, NEW y, Adds(y, x, S, H)
  PROVE  Good(y)
<1>1. x.inserts \in [Prints -> Nat]
  BY DEF Good, Typed
<1>2. \A f \in S : x.inserts[f] = 0
  BY <1>1 DEF Good, Counted, Adds
<1>3. \A f \in Prints : y.inserts[f] = IF f \in S THEN 1 ELSE x.inserts[f]
  BY <1>1, <1>2 DEF Adds
<1>4. Typed(y)
  <2>1. y.imported \subseteq ImportedType /\ IsFiniteSet(y.imported)
    <3>1. /\ x.imported \subseteq ImportedType /\ H \subseteq ImportedType
          /\ IsFiniteSet(x.imported) /\ IsFiniteSet(H)
          /\ y.imported = x.imported \cup H
      BY DEF Good, Typed, Adds
    <3> QED
      BY <3>1, FS_Union
  <2>2. y.inserts \in [Prints -> Nat]
    BY <1>1 DEF Adds
  <2> QED
    BY <2>1, <2>2 DEF Good, Typed, Adds
<1>5. Counted(y)
  BY <1>3 DEF Good, Counted, Adds
<1>6. Backed(y)
  <2> SUFFICES ASSUME NEW d \in Devices, NEW k \in Keys, x.receipts[d][k] # NoReceipt
               PROVE  y.inserts[x.receipts[d][k].fp] = 1
    BY DEF Backed, Adds
  <2>1. x.receipts[d][k] \in ReceiptType
    BY DEF Good, Typed
  <2>2. x.receipts[d][k].fp \in Prints /\ x.inserts[x.receipts[d][k].fp] = 1
    BY <2>1 DEF ReceiptType, Good, Backed
  <2> QED
    BY <1>3, <2>2
<1>7. Conserved(y)
  <2>1. S \cap Raw(x) = {} /\ Raw(y) = Raw(x) \cup S
    BY DEF Raw, Adds
  <2> QED
    BY <1>4, <2>1, AddingConserves DEF Good, Adds
<1> QED
  BY <1>4, <1>5, <1>6, <1>7 DEF Good, Adds

(* An import inserts the new raw rows of its archive, and leaves receipts,  *)
(* tombstones and the rows that are here alone.                             *)
Imported(x, a) == [Import(x, Self, a).db EXCEPT !.taken = @ \cup {a}]

LEMMA ImportKeeps ==
  ASSUME NEW x, Good(x), NEW a \in Archives,
         NEW y, y = Imported(x, a)
  PROVE  /\ Good(y) /\ y.receipts = x.receipts
         /\ y.tombs = x.tombs /\ x.imported \subseteq y.imported
         /\ \A f \in Prints : x.rows[f] # NoRow => y.rows[f] = x.rows[f]
         /\ x.nextId <= y.nextId /\ x.booked <= y.booked
<1> DEFINE raw == ImportRaw(x, Self, a)
           new == Fresh(x, Self, a)
           position(f) == CHOOSE i \in new : a.raw[i].usage.fp = f
           S == {a.raw[i].usage.fp : i \in new}
           R == [f \in Prints |->
                   IF f \in S THEN RowOf(a.raw[position(f)].usage, NewId(x, Self, a, position(f)))
                   ELSE x.rows[f]]
           I == [f \in Prints |-> IF f \in S THEN x.inserts[f] + 1 ELSE x.inserts[f]]
           records == x.records
             \cup {RecordOrigin(a.raw[i], x.rows[a.raw[i].usage.fp].id) : i \in Here(x, Self, a)}
             \cup {RecordOrigin(a.raw[i], NewId(x, Self, a, i)) : i \in new}
           brought == SumFunctionOnSet([i \in new |-> a.raw[i].usage.tokens], new)
           booked == x.booked + brought
           hours == NewHourly(raw, Self, a)
           sum == HourlyTokens(hours)
<1>1. raw = [x EXCEPT !.rows = R, !.nextId = x.nextId + Cardinality(new),
                      !.records = records, !.inserts = I, !.booked = booked]
  BY DEF ImportRaw
<1>2. Import(x, Self, a).db = [raw EXCEPT !.imported = @ \cup hours, !.booked = @ + sum]
  BY DEF Import, ImportHourly
<1>3. \A f \in S : /\ position(f) \in new
                   /\ f = a.raw[position(f)].usage.fp
  OBVIOUS
<1>4. x.rows \in [Prints -> Row \cup {NoRow}] /\ x.nextId \in Nat
  BY DEF Good, Typed
<1>5. Cardinality(new) \in Nat
  BY FreshFacts
<1>6. ASSUME NEW f \in S
      PROVE  /\ f \in Prints /\ x.rows[f] = NoRow /\ f \notin x.tombs
             /\ RowOf(a.raw[position(f)].usage, NewId(x, Self, a, position(f))) \in Row
  <2> DEFINE i == position(f)
  <2>1. i \in new /\ f = a.raw[i].usage.fp
    BY <1>3
  <2> HIDE DEF i, new
  <2>2. /\ NewId(x, Self, a, i) \in Nat /\ a.raw[i].usage \in UsageType
        /\ x.rows[a.raw[i].usage.fp] = NoRow /\ a.raw[i].usage.fp \notin x.tombs
    BY <2>1, FreshFacts DEF new
  <2>3. RowOf(a.raw[i].usage, NewId(x, Self, a, i)) \in Row
    BY <2>2 DEF RowOf, Row, UsageType
  <2>4. f \in Prints
    BY <2>1, <2>2 DEF UsageType
  <2> QED
    BY <2>1, <2>2, <2>3, <2>4 DEF i
<1>7. R \in [Prints -> Row \cup {NoRow}]
  BY <1>4, <1>6
<1>8. \A f \in Prints : R[f] # NoRow <=> x.rows[f] # NoRow \/ f \in S
  BY <1>6, StoreConstants
<1>9. S \subseteq Prints /\ \A f \in S : x.rows[f] = NoRow /\ f \notin x.tombs
  BY <1>6
<1>10. \A i \in new : R[a.raw[i].usage.fp].tokens = a.raw[i].usage.tokens
  <2> SUFFICES ASSUME NEW i \in new
               PROVE  R[a.raw[i].usage.fp].tokens = a.raw[i].usage.tokens
    OBVIOUS
  <2> DEFINE f == a.raw[i].usage.fp
  <2>1. f \in S
    OBVIOUS
  <2>2. new \subseteq DOMAIN a.raw
    BY DEF Fresh, Unmapped
  <2>3. position(f) = i
    <3>1. position(f) \in new /\ a.raw[position(f)].usage.fp = a.raw[i].usage.fp
      BY <1>3, <2>1
    <3> HIDE DEF position, new
    <3> QED
      BY <2>2, <3>1, ArchiveType DEF f
  <2>4. R[f] = RowOf(a.raw[i].usage, NewId(x, Self, a, i))
    BY <1>9, <2>1, <2>3
  <2>5. RowOf(a.raw[i].usage, NewId(x, Self, a, i)).tokens = a.raw[i].usage.tokens
    BY DEF RowOf
  <2> HIDE DEF R
  <2> QED
    BY <2>4, <2>5 DEF f
<1>11. \A f \in Raw(x) : R[f].tokens = x.rows[f].tokens
  BY <1>9 DEF Raw
<1>12. records \subseteq RecordType
  <2>1. \A i \in DOMAIN a.raw : a.raw[i] \in RawType
    BY ArchiveType
  <2>2. \A i \in Here(x, Self, a) : RecordOrigin(a.raw[i], x.rows[a.raw[i].usage.fp].id) \in RecordType
    <3> SUFFICES ASSUME NEW i \in Here(x, Self, a)
                 PROVE  RecordOrigin(a.raw[i], x.rows[a.raw[i].usage.fp].id) \in RecordType
      OBVIOUS
    <3>1. a.raw[i] \in RawType /\ x.rows[a.raw[i].usage.fp] # NoRow
      BY <2>1 DEF Here, Unmapped
    <3>2. a.raw[i].usage.fp \in Prints
      BY <3>1 DEF RawType, UsageType
    <3>3. x.rows[a.raw[i].usage.fp].id \in Nat
      BY <1>4, <3>1, <3>2 DEF Row
    <3> QED
      BY <3>1, <3>3 DEF RecordOrigin, RawType, RecordType
  <2>3. \A i \in new : RecordOrigin(a.raw[i], NewId(x, Self, a, i)) \in RecordType
    <3> SUFFICES ASSUME NEW i \in new
                 PROVE  RecordOrigin(a.raw[i], NewId(x, Self, a, i)) \in RecordType
      OBVIOUS
    <3>1. a.raw[i] \in RawType
      BY <2>1 DEF Fresh, Unmapped
    <3>2. NewId(x, Self, a, i) \in Nat
      BY FreshFacts
    <3> QED
      BY <3>1, <3>2 DEF RecordOrigin, RawType, RecordType
  <2>4. x.records \subseteq RecordType
    BY DEF Good, Typed
  <2> QED
    BY <2>2, <2>3, <2>4
<1> HIDE DEF raw, new, S, R, I, records, booked, brought, hours, sum
<1>13. y = [[raw EXCEPT !.imported = @ \cup hours, !.booked = @ + sum]
              EXCEPT !.taken = @ \cup {a}]
  BY <1>2 DEF Imported
<1>14. /\ raw.rows = R /\ raw.nextId = x.nextId + Cardinality(new) /\ raw.inserts = I
       /\ raw.tombs = x.tombs /\ raw.receipts = x.receipts
       /\ raw.hourly = x.hourly /\ raw.records = records /\ raw.imported = x.imported
       /\ raw.booked = booked
       /\ Shape(raw)
  BY <1>1 DEF Good, Shape
<1>15. /\ y.rows = R /\ y.nextId = x.nextId + Cardinality(new) /\ y.inserts = I
       /\ y.tombs = x.tombs /\ y.receipts = x.receipts
       /\ y.hourly = x.hourly /\ y.records = records
       /\ y.imported = x.imported \cup hours
       /\ y.booked = booked + sum
       /\ Shape(y)
  BY <1>13, <1>14 DEF Shape
<1>16. hours \subseteq ImportedType /\ IsFiniteSet(hours) /\ hours \cap x.imported = {}
  <2>1. hours \subseteq a.hourly /\ hours \cap raw.imported = {}
    BY DEF hours, NewHourly
  <2> QED
    BY <1>14, <2>1, ArchiveType, FS_Subset
<1>17. Tokens(y, S) = brought /\ brought \in Nat
  BY <1>10, <1>15, FreshTokens DEF new, S, brought
<1>18. /\ y.booked = x.booked + Tokens(y, S) + HourlyTokens(hours)
       /\ y.booked \in Nat /\ x.booked <= y.booked
  <2>1. HourlyTokens(hours) \in Nat
    BY <1>16, HourlyNat
  <2>2. x.booked \in Nat
    BY DEF Good, Typed
  <2> QED
    BY <1>15, <1>17, <2>1, <2>2 DEF booked, sum
<1>19. Adds(y, x, S, hours)
  BY <1>4, <1>5, <1>7, <1>8, <1>9, <1>11, <1>12, <1>15, <1>16, <1>18 DEF Adds, I
<1>20. Good(y)
  BY <1>19, AdditionKeeps
<1>21. \A f \in Prints : x.rows[f] # NoRow => y.rows[f] = x.rows[f]
  <2>1. \A f \in Prints : x.rows[f] # NoRow => R[f] = x.rows[f]
    BY <1>9 DEF R
  <2> QED
    BY <1>15, <2>1
<1>22. x.nextId <= y.nextId
  BY <1>4, <1>5, <1>15
<1> QED
  BY <1>15, <1>18, <1>20, <1>21, <1>22

-----------------------------------------------------------------------------
(* The steps. *)

LEMMA InitKeeps == Init => IInv
<1> SUFFICES ASSUME Init PROVE IInv
  OBVIOUS
<1>1. Good(db) /\ Good(work)
  BY EmptyIsGood DEF Init
<1>2. /\ sender \in Devices /\ todo \in Seq(Lines)
      /\ results \in Seq(AnswerType) /\ replies \in Seq(AnswerType)
  BY DEF Init
<1>3. Kept(results, work) /\ Kept(replies, db)
  BY DEF Init, Kept
<1> QED
  BY <1>1, <1>2, <1>3 DEF IInv

(* The open transaction may change its own database, if it keeps the        *)
(* receipts behind its answers, and answers for the event it is about.      *)
LEMMA AnswerKeeps ==
  ASSUME IInv, NEW status \in Statuses, todo # <<>>, Answer(Event, status),
         Good(work'),
         \A k \in Keys : work.receipts[sender][k] # NoReceipt
                         => work'.receipts[sender][k] # NoReceipt,
         status # "rejected" => work'.receipts[sender][Event.key] # NoReceipt
  PROVE  IInv'
<1> DEFINE r == [line |-> Event, status |-> status]
<1>1. UNCHANGED <<db, sender, replies>> /\ todo' = Tail(todo) /\ results' = Append(results, r)
  BY DEF Answer
<1>2. Event \in Lines /\ todo' \in Seq(Lines)
  BY <1>1 DEF IInv, Event
<1>3. r \in AnswerType
  BY <1>2 DEF AnswerType
<1>4. results \in Seq(AnswerType)
  BY DEF IInv
<1>5. results' \in Seq(AnswerType)
  BY <1>1, <1>3, <1>4
<1>6. \A i \in 1..Len(results') :
        results'[i] = r \/ (i \in 1..Len(results) /\ results'[i] = results[i])
  BY <1>1, <1>3, <1>4
<1>7. \A i \in 1..Len(results) : results[i].line.key \in Keys
  <2> SUFFICES ASSUME NEW i \in 1..Len(results) PROVE results[i].line.key \in Keys
    OBVIOUS
  <2>1. results[i] \in AnswerType
    BY <1>4
  <2>2. results[i].line \in Lines
    BY <2>1 DEF AnswerType
  <2> QED
    BY <2>2, LineFacts
<1>8. Kept(results, work)'
  <2> SUFFICES ASSUME NEW i \in 1..Len(results'), results'[i].status # "rejected"
               PROVE  work'.receipts[sender][results'[i].line.key] # NoReceipt
    BY <1>1 DEF Kept
  <2>1. CASE results'[i] = r
    BY <2>1
  <2>2. CASE i \in 1..Len(results) /\ results'[i] = results[i]
    BY <1>7, <2>2 DEF IInv, Kept
  <2> QED
    BY <1>6, <2>1, <2>2
<1>9. Kept(replies, db)'
  BY <1>1 DEF IInv, Kept
<1>10. Good(db)' /\ Good(work)' /\ sender' \in Devices /\ replies' \in Seq(AnswerType)
  BY <1>1 DEF IInv
<1> QED
  BY <1>2, <1>5, <1>8, <1>9, <1>10 DEF IInv

(* A receipt that is already there answers for a replay or a rejection. *)
LEMMA EventFacts ==
  ASSUME IInv, todo # <<>>
  PROVE  /\ Event \in Lines /\ Event.fp \in Prints /\ Event.key \in Keys
         /\ Good(work) /\ sender \in Devices
  BY LineFacts DEF IInv, Event

LEMMA StoreNewKeeps == IInv /\ StoreNew => IInv'
<1> SUFFICES ASSUME IInv, StoreNew PROVE IInv'
  OBVIOUS
<1> DEFINE x == Inserted(work, Event)
<1>1. /\ todo # <<>> /\ Event.fp \notin work.tombs /\ work.rows[Event.fp] = NoRow
      /\ work' = Receipted(x, sender, Event, work.nextId)
      /\ Answer(Event, "accepted")
  BY DEF StoreNew
<1>2. Event \in Lines /\ Good(work) /\ sender \in Devices
  BY <1>1, EventFacts
<1>3. /\ Event.fp \in Prints /\ Event.at \in Nat
      /\ Event.tokens \in Nat /\ Event.meta \in SUBSET STRING
  BY <1>2, LineFacts
<1>4. Good(x) /\ x.inserts[Event.fp] = 1 /\ x.receipts = work.receipts /\ work.nextId \in Nat
  BY <1>1, <1>2, <1>3, InsertKeeps
<1> HIDE DEF x
<1>5. /\ Good(work')
      /\ work'.receipts[sender][Event.key] # NoReceipt
      /\ \A e \in Devices, k \in Keys :
           x.receipts[e][k] # NoReceipt => work'.receipts[e][k] # NoReceipt
  BY <1>1, <1>2, <1>4, ReceiptKeeps
<1> QED
  BY <1>1, <1>2, <1>4, <1>5, AnswerKeeps DEF Statuses

(* The usage of a raw row or of the archive was inserted. *)
LEMMA KnownUsageKeeps ==
  ASSUME IInv, todo # <<>>, NEW row \in Nat,
         work.rows[Event.fp] # NoRow \/ Event.fp \in work.tombs,
         work' = Receipted(work, sender, Event, row),
         Answer(Event, "duplicate")
  PROVE  IInv'
<1>1. /\ Event \in Lines /\ Event.fp \in Prints /\ Good(work) /\ sender \in Devices
  BY EventFacts
<1>2. work.inserts[Event.fp] = 1
  BY <1>1 DEF Good, Counted
<1>3. /\ Good(work')
      /\ work'.receipts[sender][Event.key] # NoReceipt
      /\ \A e \in Devices, k \in Keys :
           work.receipts[e][k] # NoReceipt => work'.receipts[e][k] # NoReceipt
  BY <1>1, <1>2, ReceiptKeeps
<1> QED
  BY <1>1, <1>3, AnswerKeeps DEF Statuses

LEMMA StoreKnownUsageKeeps == IInv /\ StoreKnownUsage => IInv'
<1> SUFFICES ASSUME IInv, StoreKnownUsage PROVE IInv'
  OBVIOUS
<1>1. /\ todo # <<>> /\ work.rows[Event.fp] # NoRow
      /\ work' = Receipted(work, sender, Event, work.rows[Event.fp].id)
      /\ Answer(Event, "duplicate")
  BY DEF StoreKnownUsage
<1>2. work.rows[Event.fp] \in Row
  BY <1>1, EventFacts DEF Good, Typed
<1>3. work.rows[Event.fp].id \in Nat
  BY <1>2 DEF Row
<1> QED
  BY <1>1, <1>3, KnownUsageKeeps

LEMMA StoreArchivedUsageKeeps == IInv /\ StoreArchivedUsage => IInv'
  BY KnownUsageKeeps DEF StoreArchivedUsage

(* Without a change of its database, the transaction answers for an event   *)
(* that has a receipt.                                                      *)
LEMMA KnownReceiptKeeps ==
  ASSUME IInv, todo # <<>>, Receipt # NoReceipt, UNCHANGED work,
         NEW status \in Statuses, Answer(Event, status)
  PROVE  IInv'
  BY EventFacts, AnswerKeeps DEF Receipt

LEMMA RejectionKeeps == IInv /\ (RejectIdentity \/ RejectPayload) => IInv'
  BY KnownReceiptKeeps DEF RejectIdentity, RejectPayload, SameIdentity, Statuses

LEMMA StoreReplayKeeps == IInv /\ StoreReplay => IInv'
  BY KnownReceiptKeeps DEF StoreReplay, SameIdentity, Statuses

LEMMA StoreEnrichmentKeeps == IInv /\ StoreEnrichment => IInv'
<1> SUFFICES ASSUME IInv, StoreEnrichment PROVE IInv'
  OBVIOUS
<1> DEFINE f == PrintOf(work, Receipt.row)
<1>1. /\ todo # <<>> /\ Receipt # NoReceipt /\ HasRow(work, Receipt.row)
      /\ work' = Enriched(work, f, sender, Event)
      /\ Answer(Event, "enriched")
  BY DEF StoreEnrichment, SameIdentity, Enriched
<1>2. f \in Prints /\ work.rows[f] # NoRow
  BY <1>1 DEF HasRow, PrintOf
<1>3. Event \in Lines /\ Event.key \in Keys /\ Good(work) /\ sender \in Devices
  BY <1>1, EventFacts
<1>4. work.receipts[sender][Event.key] # NoReceipt
  BY <1>1 DEF Receipt
<1> HIDE DEF f
<1>5. /\ Good(work')
      /\ \A e \in Devices, k \in Keys :
           work.receipts[e][k] # NoReceipt => work'.receipts[e][k] # NoReceipt
  BY <1>1, <1>2, <1>3, <1>4, EnrichKeeps
<1> QED
  BY <1>1, <1>3, <1>4, <1>5, AnswerKeeps DEF Statuses

LEMMA BeginBatchKeeps ==
  ASSUME IInv, NEW d \in Devices, NEW b \in Batches, BeginBatch(d, b)
  PROVE  IInv'
<1>1. /\ sender' \in Devices /\ todo' \in Seq(Lines)
      /\ replies' = <<>> /\ results = <<>> /\ UNCHANGED <<db, work, results>>
  BY StoreConstants DEF BeginBatch, Open
<1>2. Good(db)' /\ Good(work)' /\ results' \in Seq(AnswerType) /\ replies' \in Seq(AnswerType)
  BY <1>1 DEF IInv
<1>3. Kept(results, work)' /\ Kept(replies, db)'
  BY <1>1 DEF Kept
<1> QED
  BY <1>1, <1>2, <1>3 DEF IInv

LEMMA CommitKeeps == IInv /\ Commit => IInv'
<1> SUFFICES ASSUME IInv, Commit PROVE IInv'
  OBVIOUS
<1>1. /\ db' = work /\ replies' = results /\ results' = <<>>
      /\ UNCHANGED <<work, sender, todo>>
  BY DEF Commit
<1>2. /\ Good(db)' /\ Good(work)' /\ sender' \in Devices /\ todo' \in Seq(Lines)
      /\ results' \in Seq(AnswerType) /\ replies' \in Seq(AnswerType)
  BY <1>1 DEF IInv
<1>3. Kept(results, work)' /\ Kept(replies, db)'
  BY <1>1 DEF Kept, IInv
<1> QED
  BY <1>2, <1>3 DEF IInv

LEMMA RollbackKeeps == IInv /\ Rollback => IInv'
<1> SUFFICES ASSUME IInv, Rollback PROVE IInv'
  OBVIOUS
<1>1. /\ work' = db /\ todo' = <<>> /\ results' = <<>> /\ replies' = <<>>
      /\ UNCHANGED <<db, sender>>
  BY DEF Rollback
<1>2. /\ Good(db)' /\ Good(work)' /\ sender' \in Devices /\ todo' \in Seq(Lines)
      /\ results' \in Seq(AnswerType) /\ replies' \in Seq(AnswerType)
  BY <1>1 DEF IInv
<1>3. Kept(results, work)' /\ Kept(replies, db)'
  BY <1>1 DEF Kept
<1> QED
  BY <1>2, <1>3 DEF IInv

(* A transaction of another writer, between two batches. *)
LEMMA WriterKeeps ==
  ASSUME IInv, ~Open, Good(db'), work' = db', replies' = <<>>,
         UNCHANGED <<sender, todo, results>>
  PROVE  IInv'
<1>1. results' = <<>> /\ replies' = <<>>
  BY DEF Open
<1>2. Kept(results, work)' /\ Kept(replies, db)'
  BY <1>1 DEF Kept
<1>3. /\ Good(db)' /\ Good(work)' /\ sender' \in Devices /\ todo' \in Seq(Lines)
      /\ results' \in Seq(AnswerType) /\ replies' \in Seq(AnswerType)
  BY <1>1 DEF IInv
<1> QED
  BY <1>2, <1>3 DEF IInv

LEMMA LocalInsertKeeps ==
  ASSUME IInv, NEW l \in Lines, LocalInsert(l)
  PROVE  IInv'
<1>1. Good(db) /\ l.fp \in Prints
  BY LineFacts DEF IInv
<1>2. Good(db')
  <2>1. CASE l.fp \in db.tombs
    BY <1>1, <2>1 DEF LocalInsert
  <2>2. CASE l.fp \notin db.tombs /\ db.rows[l.fp] = NoRow
    <3>1. db' = Inserted(db, l)
      BY <2>2 DEF LocalInsert
    <3>2. l.at \in Nat /\ l.tokens \in Nat /\ l.meta \in SUBSET STRING
      BY LineFacts
    <3> QED
      BY <1>1, <2>2, <3>1, <3>2, InsertKeeps
  <2>3. CASE l.fp \notin db.tombs /\ db.rows[l.fp] # NoRow
    <3>1. db' = Merged(db, l)
      BY <2>3 DEF LocalInsert, Merged
    <3> QED
      BY <1>1, <2>3, <3>1, MergeKeeps
  <2> QED
    BY <2>1, <2>2, <2>3
<1> QED
  BY <1>2, WriterKeeps DEF LocalInsert

LEMMA CompactionKeeps ==
  ASSUME IInv, NEW c \in Cutoffs, Compact(c)
  PROVE  IInv'
<1> DEFINE E == Expired(c)
           hourly == [requests |-> db.hourly.requests + Cardinality(E),
                      tokens |-> db.hourly.tokens
                                   + Tokens(db, E),
                      times |-> db.hourly.times \cup {db.rows[f].at : f \in E}]
           records == {e \in db.records : \A f \in E : e.row # db.rows[f].id}
           rows == [f \in Prints |-> IF f \in E THEN NoRow ELSE db.rows[f]]
<1>1. db' = [db EXCEPT !.hourly = hourly, !.records = records,
                       !.tombs = db.tombs \cup E, !.rows = rows]
  BY DEF Compact
<1>2. Good(db) /\ E \subseteq Prints /\ \A f \in E : db.rows[f] # NoRow
  BY DEF IInv, Expired
<1> HIDE DEF hourly, records, E
<1>3. /\ db'.rows = rows /\ db'.tombs = db.tombs \cup E
      /\ db'.receipts = db.receipts /\ db'.nextId = db.nextId /\ db'.inserts = db.inserts
      /\ db'.hourly = hourly /\ db'.records = records /\ db'.imported = db.imported
      /\ db'.booked = db.booked
      /\ Shape(db')
  BY <1>1, <1>2 DEF Good, Shape
<1>4. db'.records \subseteq db.records
  BY <1>3 DEF records
<1>5. Good(db')
  BY <1>2, <1>3, <1>4, CompactKeeps DEF hourly
<1> QED
  BY <1>5, WriterKeeps DEF Compact

LEMMA ImportDataKeeps ==
  ASSUME IInv, NEW a \in Archives, ImportData(a)
  PROVE  IInv'
<1>1. /\ ~Open
      /\ db' = Imported(db, a)
      /\ work' = db' /\ replies' = <<>> /\ UNCHANGED <<sender, todo, results>>
  BY DEF ImportData, Imported
<1>2. Good(db')
  BY <1>1, ImportKeeps DEF IInv
<1> QED
  BY <1>1, <1>2, WriterKeeps

LEMMA NextKeeps == IInv /\ [TransferNext]_vars => IInv'
<1> SUFFICES ASSUME IInv, [TransferNext]_vars PROVE IInv'
  OBVIOUS
<1>1. CASE \E d \in Devices, b \in Batches : BeginBatch(d, b)
  BY <1>1, BeginBatchKeeps
<1>2. CASE StoreNew
  BY <1>2, StoreNewKeeps
<1>3. CASE StoreKnownUsage
  BY <1>3, StoreKnownUsageKeeps
<1>4. CASE StoreArchivedUsage
  BY <1>4, StoreArchivedUsageKeeps
<1>5. CASE RejectIdentity \/ RejectPayload
  BY <1>5, RejectionKeeps
<1>6. CASE StoreReplay
  BY <1>6, StoreReplayKeeps
<1>7. CASE StoreEnrichment
  BY <1>7, StoreEnrichmentKeeps
<1>8. CASE Commit
  BY <1>8, CommitKeeps
<1>9. CASE Rollback
  BY <1>9, RollbackKeeps
<1>10. CASE \E l \in Lines : LocalInsert(l)
  BY <1>10, LocalInsertKeeps
<1>11. CASE \E c \in Cutoffs : Compact(c)
  BY <1>11, CompactionKeeps
<1>12. CASE \E a \in Archives : ImportData(a)
  BY <1>12, ImportDataKeeps
<1>13. CASE UNCHANGED vars
  BY <1>13 DEF vars, IInv, Kept
<1> QED
  BY <1>1, <1>2, <1>3, <1>4, <1>5, <1>6, <1>7, <1>8, <1>9, <1>10, <1>11, <1>12, <1>13
  DEF TransferNext, Next

-----------------------------------------------------------------------------
(* An archive that is imported again.                                       *)
(* The archived row that a record names is the raw row it points to. *)
Points(x, e) ==
  \E f \in Prints :
    /\ x.rows[f] # NoRow /\ x.rows[f].id = e.row
    /\ \A a \in Archives : \A i \in DOMAIN a.raw :
         a.raw[i].origin = e.origin /\ a.raw[i].rec = e.rec => a.raw[i].usage.fp = f

(* Every usage of an archive that was imported is a raw row or archived, and *)
(* every hourly row is here under its identity.                              *)
Held(x, a) ==
  /\ \A i \in DOMAIN a.raw :
       x.rows[a.raw[i].usage.fp] # NoRow \/ a.raw[i].usage.fp \in x.tombs
  /\ \A h \in a.hourly :
       h.origin = Self \/ \E g \in x.imported : g.origin = h.origin /\ g.rec = h.rec

(* Hourly rows come from archives, records lead to the usage they name, and *)
(* imported archives are still here.                                        *)
Recorded(x) ==
  /\ x.taken \subseteq Archives
  /\ \A g \in x.imported : \E a \in Archives : g \in a.hourly
  /\ \A e \in x.records : Points(x, e)
  /\ \A a \in x.taken : Held(x, a)

(* A writer that takes no row away and changes no id, records or archives. *)
Grows(y, x) ==
  /\ \A f \in Prints :
       x.rows[f] # NoRow => y.rows[f] # NoRow /\ y.rows[f].id = x.rows[f].id
  /\ y.tombs = x.tombs /\ y.records = x.records /\ y.imported = x.imported
  /\ y.taken = x.taken

LEMMA RawFacts ==
  ASSUME NEW a \in Archives, NEW i \in DOMAIN a.raw
  PROVE  a.raw[i] \in RawType /\ a.raw[i].usage.fp \in Prints
<1>1. a.raw[i] \in RawType
  BY ArchiveType
<1> QED  BY <1>1 DEF RawType, UsageType

LEMMA GrowthRecords ==
  ASSUME NEW x, Recorded(x), NEW y, Grows(y, x)
  PROVE  Recorded(y)
<1>1. \A e \in y.records : Points(y, e)
  BY DEF Recorded, Points, Grows
<1>2. ASSUME NEW a \in y.taken
      PROVE  Held(y, a)
  <2>1. a \in Archives /\ Held(x, a)
    BY DEF Recorded, Grows
  <2>2. \A i \in DOMAIN a.raw : a.raw[i].usage.fp \in Prints
    BY <2>1, RawFacts
  <2> QED  BY <2>1, <2>2 DEF Held, Grows
<1> QED  BY <1>1, <1>2 DEF Recorded, Grows

LEMMA InsertRecords ==
  ASSUME NEW x, Good(x), Recorded(x), NEW u, x.rows[u.fp] = NoRow
  PROVE  Recorded(Inserted(x, u))
<1> DEFINE y == Inserted(x, u)
           r == RowOf(u, x.nextId)
<1> HIDE DEF r
<1>1. y = [x EXCEPT !.rows[u.fp] = r, !.nextId = @ + 1,
                    !.inserts[u.fp] = @ + 1, !.booked = @ + u.tokens]
  BY DEF Inserted, r
<1>2. /\ y.rows = [x.rows EXCEPT ![u.fp] = r]
      /\ y.tombs = x.tombs /\ y.records = x.records /\ y.imported = x.imported
      /\ y.taken = x.taken
  BY <1>1 DEF Good, Shape
<1>3. Grows(y, x)
  BY <1>2 DEF Grows, Good, Typed
<1> QED  BY <1>3, GrowthRecords

LEMMA ReceiptRecords ==
  ASSUME NEW x, Good(x), Recorded(x), NEW d, NEW l, NEW row
  PROVE  Recorded(Receipted(x, d, l, row))
<1> DEFINE y == Receipted(x, d, l, row)
<1>1. /\ y.rows = x.rows /\ y.tombs = x.tombs /\ y.records = x.records
      /\ y.imported = x.imported /\ y.taken = x.taken
  BY DEF Receipted, Good, Shape
<1>2. Grows(y, x)
  BY <1>1 DEF Grows
<1> QED  BY <1>2, GrowthRecords

LEMMA EnrichRecords ==
  ASSUME NEW x, Good(x), Recorded(x), NEW d, NEW l \in Lines,
         NEW f \in Prints, x.rows[f] # NoRow
  PROVE  Recorded(Enriched(x, f, d, l))
<1> DEFINE y == Enriched(x, f, d, l)
           row == [x.rows[f] EXCEPT !.meta = l.meta]
<1>1. x.rows[f] \in Row
  BY DEF Good, Typed
<1>2. row \in Row /\ row # NoRow /\ row.id = x.rows[f].id
  BY <1>1, LineFacts, StoreConstants DEF Row
<1> HIDE DEF row
<1>3. /\ y.rows = [x.rows EXCEPT ![f] = row]
      /\ y.tombs = x.tombs /\ y.records = x.records
      /\ y.imported = x.imported /\ y.taken = x.taken
  BY DEF Good, Shape, Enriched, row
<1>4. Grows(y, x)
  BY <1>2, <1>3 DEF Grows, Good, Typed
<1> QED  BY <1>4, GrowthRecords

LEMMA MergeRecords ==
  ASSUME NEW x, Good(x), Recorded(x), NEW l \in Lines, x.rows[l.fp] # NoRow
  PROVE  Recorded(Merged(x, l))
<1> DEFINE y == Merged(x, l)
           row == [x.rows[l.fp] EXCEPT !.meta = x.rows[l.fp].meta \cup l.meta]
<1>1. x.rows[l.fp] \in Row
  BY LineFacts DEF Good, Typed
<1>2. row \in Row /\ row # NoRow /\ row.id = x.rows[l.fp].id
  BY <1>1, LineFacts, StoreConstants DEF Row
<1> HIDE DEF row
<1>3. /\ y.rows = [x.rows EXCEPT ![l.fp] = row]
      /\ y.tombs = x.tombs /\ y.records = x.records
      /\ y.imported = x.imported /\ y.taken = x.taken
  BY DEF Good, Shape, Merged, row
<1>4. Grows(y, x)
  BY <1>2, <1>3 DEF Grows, Good, Typed
<1> QED  BY <1>4, GrowthRecords

(* Retention forgets the records of the rows it takes away, and only those. *)
LEMMA CompactRecords ==
  ASSUME NEW x, Recorded(x), NEW E, NEW y,
         y.rows = [f \in Prints |-> IF f \in E THEN NoRow ELSE x.rows[f]],
         y.tombs = x.tombs \cup E,
         y.records = {e \in x.records : \A f \in E : e.row # x.rows[f].id},
         y.imported = x.imported, y.taken = x.taken
  PROVE  Recorded(y)
<1>1. ASSUME NEW e \in y.records
      PROVE  Points(y, e)
  <2>1. Points(x, e) /\ \A f \in E : e.row # x.rows[f].id
    BY DEF Recorded
  <2>2. PICK f \in Prints :
          /\ x.rows[f] # NoRow /\ x.rows[f].id = e.row
          /\ \A a \in Archives : \A i \in DOMAIN a.raw :
               a.raw[i].origin = e.origin /\ a.raw[i].rec = e.rec => a.raw[i].usage.fp = f
    BY <2>1 DEF Points
  <2>3. y.rows[f] = x.rows[f]
    BY <2>1, <2>2
  <2> QED  BY <2>2, <2>3 DEF Points
<1>2. ASSUME NEW a \in y.taken
      PROVE  Held(y, a)
  <2>1. a \in Archives /\ Held(x, a)
    BY DEF Recorded
  <2>2. \A i \in DOMAIN a.raw : a.raw[i].usage.fp \in Prints
    BY <2>1, RawFacts
  <2> QED  BY <2>1, <2>2 DEF Held
<1> QED  BY <1>1, <1>2 DEF Recorded

(* A row that is known by its identity is here under its fingerprint. *)
LEMMA MappedIsHere ==
  ASSUME OneIdentity, NEW x, Recorded(x), NEW a \in Archives, NEW i \in DOMAIN a.raw,
         LocalRow(x, Self, a.raw[i]) # 0
  PROVE  x.rows[a.raw[i].usage.fp] # NoRow
<1> DEFINE mapped == {e \in x.records : e.origin = a.raw[i].origin /\ e.rec = a.raw[i].rec}
<1>1. a.raw[i].origin # Self
  BY DEF OneIdentity
<1>2. mapped # {}
  BY <1>1 DEF LocalRow
<1>3. PICK e \in mapped : TRUE
  BY <1>2
<1>4. Points(x, e)
  BY <1>3 DEF Recorded
<1> QED  BY <1>3, <1>4 DEF Points

LEMMA ImportRecords ==
  ASSUME OneIdentity, NEW x, Good(x), Recorded(x), NEW a \in Archives,
         NEW y, y = Imported(x, a)
  PROVE  Recorded(y)
<1> DEFINE raw == ImportRaw(x, Self, a)
           new == Fresh(x, Self, a)
           position(f) == CHOOSE i \in new : a.raw[i].usage.fp = f
           S == {a.raw[i].usage.fp : i \in new}
           R == [f \in Prints |->
                   IF f \in S THEN RowOf(a.raw[position(f)].usage, NewId(x, Self, a, position(f)))
                   ELSE x.rows[f]]
           known == {RecordOrigin(a.raw[i], x.rows[a.raw[i].usage.fp].id) : i \in Here(x, Self, a)}
           added == {RecordOrigin(a.raw[i], NewId(x, Self, a, i)) : i \in new}
           hours == NewHourly(raw, Self, a)
<1>1. /\ raw.rows = R /\ raw.tombs = x.tombs
      /\ raw.records = x.records \cup known \cup added
      /\ raw.imported = x.imported /\ raw.taken = x.taken
      /\ Shape(raw)
  <2> DEFINE I == [f \in Prints |-> IF f \in S THEN x.inserts[f] + 1 ELSE x.inserts[f]]
             booked == x.booked + SumFunctionOnSet([i \in new |-> a.raw[i].usage.tokens], new)
             next == x.nextId + Cardinality(new)
  <2>1. raw = [x EXCEPT !.rows = R, !.nextId = next,
                        !.records = x.records \cup known \cup added,
                        !.inserts = I, !.booked = booked]
    BY DEF ImportRaw
  <2> HIDE DEF R, I, booked, next, known, added, raw
  <2> QED
    BY <2>1 DEF Good, Shape
<1>2. \A i \in new :
        /\ a.raw[i].usage.fp \in Prints /\ a.raw[i].usage.fp \in S
        /\ x.rows[a.raw[i].usage.fp] = NoRow
        /\ R[a.raw[i].usage.fp] # NoRow
        /\ R[a.raw[i].usage.fp].id = NewId(x, Self, a, i)
  <2> SUFFICES ASSUME NEW i \in new
               PROVE  /\ a.raw[i].usage.fp \in Prints /\ a.raw[i].usage.fp \in S
                      /\ x.rows[a.raw[i].usage.fp] = NoRow
                      /\ R[a.raw[i].usage.fp] # NoRow
                      /\ R[a.raw[i].usage.fp].id = NewId(x, Self, a, i)
    OBVIOUS
  <2> DEFINE f == a.raw[i].usage.fp
             row == RowOf(a.raw[i].usage, NewId(x, Self, a, i))
  <2>1. new \subseteq DOMAIN a.raw
    BY DEF Fresh, Unmapped
  <2>2. position(f) = i
    <3>1. position(f) \in new /\ a.raw[position(f)].usage.fp = a.raw[i].usage.fp
      OBVIOUS
    <3> HIDE DEF position, new
    <3> QED
      BY <2>1, <3>1, ArchiveType DEF f
  <2>3. f \in Prints /\ f \in S
    BY <2>1, RawFacts
  <2>4. R[f] = row
    BY <2>2, <2>3
  <2>5. x.rows[f] = NoRow /\ a.raw[i].usage \in UsageType /\ NewId(x, Self, a, i) \in Nat
    BY FreshFacts
  <2>6. row \in Row /\ row.id = NewId(x, Self, a, i)
    BY <2>5 DEF RowOf, Row, UsageType
  <2> HIDE DEF R, row, new, S
  <2> QED
    BY <2>3, <2>4, <2>5, <2>6, StoreConstants
<1>3. \A f \in Prints : x.rows[f] # NoRow => R[f] = x.rows[f]
  <2>1. \A f \in S : x.rows[f] = NoRow
    BY <1>2
  <2> QED
    BY <2>1
<1> HIDE DEF raw, new, R, S, known, added, hours
<1>4. y = [[raw EXCEPT !.imported = @ \cup hours, !.booked = @ + HourlyTokens(hours)]
             EXCEPT !.taken = @ \cup {a}]
  BY DEF Imported, Import, ImportHourly, hours, raw
<1>5. /\ y.rows = R /\ y.tombs = x.tombs
      /\ y.records = x.records \cup known \cup added
      /\ y.imported = x.imported \cup hours /\ y.taken = x.taken \cup {a}
  BY <1>1, <1>4 DEF Shape
<1>6. ASSUME NEW e \in x.records
      PROVE  Points(y, e)
  <2>1. Points(x, e)
    BY DEF Recorded
  <2> QED
    BY <1>3, <1>5, <2>1 DEF Points
<1>7. ASSUME NEW i \in DOMAIN a.raw, NEW e, e.origin = a.raw[i].origin, e.rec = a.raw[i].rec,
             R[a.raw[i].usage.fp] # NoRow, R[a.raw[i].usage.fp].id = e.row
      PROVE  Points(y, e)
  <2>1. a.raw[i].usage.fp \in Prints
    BY RawFacts
  <2>2. \A b \in Archives : \A j \in DOMAIN b.raw :
          b.raw[j].origin = e.origin /\ b.raw[j].rec = e.rec => b.raw[j].usage.fp = a.raw[i].usage.fp
    BY <1>7 DEF OneIdentity
  <2> QED
    BY <1>5, <1>7, <2>1, <2>2 DEF Points
<1>8. ASSUME NEW e \in known
      PROVE  Points(y, e)
  <2>1. PICK i \in Here(x, Self, a) : e = RecordOrigin(a.raw[i], x.rows[a.raw[i].usage.fp].id)
    BY DEF known
  <2>2. i \in DOMAIN a.raw /\ x.rows[a.raw[i].usage.fp] # NoRow
    BY DEF Here, Unmapped
  <2>3. a.raw[i].usage.fp \in Prints
    BY <2>2, RawFacts
  <2>4. /\ e.origin = a.raw[i].origin /\ e.rec = a.raw[i].rec
        /\ e.row = x.rows[a.raw[i].usage.fp].id
    BY <2>1 DEF RecordOrigin
  <2> QED
    BY <1>3, <1>7, <2>2, <2>3, <2>4
<1>9. ASSUME NEW e \in added
      PROVE  Points(y, e)
  <2>1. PICK i \in new : e = RecordOrigin(a.raw[i], NewId(x, Self, a, i))
    BY DEF added
  <2>2. i \in DOMAIN a.raw
    BY DEF new, Fresh, Unmapped
  <2>3. /\ e.origin = a.raw[i].origin /\ e.rec = a.raw[i].rec
        /\ e.row = NewId(x, Self, a, i)
    BY <2>1 DEF RecordOrigin
  <2> QED
    BY <1>2, <1>7, <2>2, <2>3
<1>10. ASSUME NEW b \in x.taken
       PROVE  Held(y, b)
  <2>1. b \in Archives /\ Held(x, b)
    BY DEF Recorded
  <2>2. \A i \in DOMAIN b.raw : b.raw[i].usage.fp \in Prints
    BY <2>1, RawFacts
  <2> QED
    BY <1>3, <1>5, <2>1, <2>2 DEF Held
<1>11. Held(y, a)
  <2>1. ASSUME NEW i \in DOMAIN a.raw
        PROVE  R[a.raw[i].usage.fp] # NoRow \/ a.raw[i].usage.fp \in x.tombs
    <3>1. a.raw[i].usage.fp \in Prints
      BY RawFacts
    <3>2. CASE LocalRow(x, Self, a.raw[i]) # 0
      BY <1>3, <3>1, <3>2, MappedIsHere
    <3>3. CASE x.rows[a.raw[i].usage.fp] # NoRow
      BY <1>3, <3>1, <3>3
    <3>4. CASE /\ LocalRow(x, Self, a.raw[i]) = 0
               /\ x.rows[a.raw[i].usage.fp] = NoRow /\ a.raw[i].usage.fp \notin x.tombs
      <4>1. i \in new
        BY <3>4 DEF new, Fresh, Unmapped
      <4> QED
        BY <1>2, <4>1
    <3> QED
      BY <3>2, <3>3, <3>4
  <2>2. ASSUME NEW h \in a.hourly, h.origin # Self
        PROVE  \E g \in y.imported : g.origin = h.origin /\ g.rec = h.rec
    <3>1. CASE h \in hours
      BY <1>5, <3>1
    <3>2. CASE h \notin hours
      BY <1>1, <1>5, <2>2, <3>2 DEF hours, NewHourly
    <3> QED
      BY <3>1, <3>2
  <2> QED
    BY <1>5, <2>1, <2>2 DEF Held
<1>12. /\ y.taken \subseteq Archives
       /\ \A g \in y.imported : \E b \in Archives : g \in b.hourly
  BY <1>5 DEF Recorded, hours, NewHourly
<1> QED
  BY <1>5, <1>6, <1>8, <1>9, <1>10, <1>11, <1>12 DEF Recorded

(* What is held adds nothing. *)
LEMMA HeldAddsNothing ==
  ASSUME NEW x, Good(x), NEW a \in Archives, Held(x, a)
  PROVE  LET y == Import(x, Self, a).db IN
         \A f \in Prints : TimesCounted(y, f) = TimesCounted(x, f)
<1> DEFINE raw == ImportRaw(x, Self, a)
           hours == NewHourly(raw, Self, a)
           y == Import(x, Self, a).db
<1>1. Fresh(x, Self, a) = {}
  BY DEF Fresh, Unmapped, Held
<1>2. /\ \A f \in Prints : raw.rows[f] = x.rows[f]
      /\ raw.tombs = x.tombs /\ raw.imported = x.imported
      /\ Shape(raw)
  <2> DEFINE new == Fresh(x, Self, a)
             position(f) == CHOOSE i \in new : a.raw[i].usage.fp = f
             S == {a.raw[i].usage.fp : i \in new}
             R == [f \in Prints |->
                     IF f \in S THEN RowOf(a.raw[position(f)].usage, NewId(x, Self, a, position(f)))
                     ELSE x.rows[f]]
             I == [f \in Prints |-> IF f \in S THEN x.inserts[f] + 1 ELSE x.inserts[f]]
             booked == x.booked + SumFunctionOnSet([i \in new |-> a.raw[i].usage.tokens], new)
             records == x.records
               \cup {RecordOrigin(a.raw[i], x.rows[a.raw[i].usage.fp].id) : i \in Here(x, Self, a)}
               \cup {RecordOrigin(a.raw[i], NewId(x, Self, a, i)) : i \in new}
             next == x.nextId + Cardinality(new)
  <2>1. raw = [x EXCEPT !.rows = R, !.nextId = next, !.records = records,
                        !.inserts = I, !.booked = booked]
    BY DEF ImportRaw
  <2>2. \A f \in Prints : R[f] = x.rows[f]
    BY <1>1
  <2> HIDE DEF R, I, booked, records, next, raw
  <2> QED
    BY <2>1, <2>2 DEF Good, Shape
<1>3. hours = {}
  BY <1>2 DEF NewHourly, Held
<1> HIDE DEF raw
<1>4. Import(x, Self, a).db = [raw EXCEPT !.imported = @ \cup hours, !.booked = @ + HourlyTokens(hours)]
  BY DEF Import, ImportHourly, raw
<1> HIDE DEF hours
<1>5. \A f \in Prints : y.rows[f] = x.rows[f]
  BY <1>2, <1>4 DEF Shape
<1>6. y.tombs = x.tombs /\ y.imported = x.imported
  BY <1>2, <1>3, <1>4 DEF Shape
<1> HIDE DEF y
<1>7. \A f \in Prints : TimesCounted(y, f) = TimesCounted(x, f)
  BY <1>5, <1>6 DEF TimesCounted
<1> QED
  BY <1>7 DEF y

(* What an import may bring, whatever the archive and the installation. *)
LEMMA ImportBrings ==
  ASSUME NEW x, Shape(x), NEW self, NEW a, NEW y, y = Import(x, self, a).db
  PROVE  /\ Shape(y)
         /\ y.tombs = x.tombs
         /\ y.imported \subseteq x.imported \cup a.hourly
         /\ \A f \in Prints : y.rows[f] # NoRow =>
              x.rows[f] # NoRow \/ \E i \in DOMAIN a.raw : a.raw[i].usage.fp = f
<1> DEFINE raw == ImportRaw(x, self, a)
           new == Fresh(x, self, a)
           position(f) == CHOOSE i \in new : a.raw[i].usage.fp = f
           S == {a.raw[i].usage.fp : i \in new}
           R == [f \in Prints |->
                   IF f \in S THEN RowOf(a.raw[position(f)].usage, NewId(x, self, a, position(f)))
                   ELSE x.rows[f]]
           I == [f \in Prints |-> IF f \in S THEN x.inserts[f] + 1 ELSE x.inserts[f]]
           booked == x.booked + SumFunctionOnSet([i \in new |-> a.raw[i].usage.tokens], new)
           records == x.records
             \cup {RecordOrigin(a.raw[i], x.rows[a.raw[i].usage.fp].id) : i \in Here(x, self, a)}
             \cup {RecordOrigin(a.raw[i], NewId(x, self, a, i)) : i \in new}
           next == x.nextId + Cardinality(new)
           hours == NewHourly(raw, self, a)
<1>1. raw = [x EXCEPT !.rows = R, !.nextId = next, !.records = records,
                      !.inserts = I, !.booked = booked]
  BY DEF ImportRaw
<1>2. \A f \in Prints : R[f] # NoRow =>
        x.rows[f] # NoRow \/ \E i \in DOMAIN a.raw : a.raw[i].usage.fp = f
  BY DEF Fresh, Unmapped
<1>3. hours \subseteq a.hourly
  BY DEF NewHourly
<1> HIDE DEF R, I, booked, records, next, raw, hours
<1>4. raw.rows = R /\ raw.tombs = x.tombs /\ raw.imported = x.imported /\ Shape(raw)
  BY <1>1 DEF Shape
<1>5. y = [raw EXCEPT !.imported = @ \cup hours, !.booked = @ + HourlyTokens(hours)]
  BY DEF Import, ImportHourly, raw, hours
<1>6. y.rows = R /\ y.tombs = x.tombs /\ y.imported = x.imported \cup hours /\ Shape(y)
  BY <1>4, <1>5 DEF Shape
<1> QED
  BY <1>2, <1>3, <1>6

(* An export lists raw rows and no other. *)
LEMMA ExportedIsRaw ==
  ASSUME NEW x, NEW self, NEW i \in DOMAIN Export(x, self).raw
  PROVE  Export(x, self).raw[i].usage.fp \in Raw(x)
<1> DEFINE raw == Raw(x)
           n == Cardinality(raw)
           s == SetToSeq(raw)
<1>1. IsFiniteSet(raw)
  BY FinitePrints, FS_Subset DEF Raw
<1>2. s \in [1..n -> raw]
  <2> HIDE DEF raw
  <2>1. PICK f : f \in Bijection(1..n, raw)
    BY <1>1, FS_CardinalityType DEF ExistsBijection
  <2>2. f \in [1..n -> raw] /\ IsInjective(f)
    BY <2>1 DEF Bijection, Injection, IsInjective
  <2> QED
    BY <2>2 DEF SetToSeq
<1>3. Export(x, self).raw = [k \in 1..n |-> Exported(x, self, s[k])]
  BY DEF Export
<1> HIDE DEF raw, n, s
<1>4. i \in 1..n /\ Export(x, self).raw[i] = Exported(x, self, s[i])
  BY <1>3
<1>5. s[i] \in raw
  BY <1>2, <1>4
<1> QED
  BY <1>4, <1>5 DEF Exported, raw

(* The third installation has no row that the server does not have.         *)
LEMMA ThirdHasNoMore ==
  ASSUME OneHour, NEW x, Good(x), Recorded(x), NEW a \in x.taken,
         NEW c, c.tombs = {}, NEW f \in Prints, f \notin x.tombs,
         c.imported \subseteq a.hourly \cup Export(x, Self).hourly,
         c.rows[f] # NoRow => \/ \E i \in DOMAIN a.raw : a.raw[i].usage.fp = f
                              \/ \E i \in DOMAIN Export(x, Self).raw :
                                   Export(x, Self).raw[i].usage.fp = f
  PROVE  TimesCounted(c, f) <= Max({1, TimesCounted(x, f)})
<1> DEFINE C == {h \in c.imported : f \in h.prints}
           X == {h \in x.imported : f \in h.prints}
<1>1. a \in Archives /\ Held(x, a)
  BY DEF Recorded
<1>2. c.rows[f] # NoRow => x.rows[f] # NoRow
  BY <1>1, ExportedIsRaw DEF Held, Raw
<1>3. a.hourly \subseteq x.imported
  <2> SUFFICES ASSUME NEW h \in a.hourly PROVE h \in x.imported
    OBVIOUS
  <2>1. h.origin # Self
    BY <1>1 DEF OneHour
  <2>2. PICK g \in x.imported : g.origin = h.origin /\ g.rec = h.rec
    BY <1>1, <2>1 DEF Held
  <2>3. PICK b \in Archives : g \in b.hourly
    BY DEF Recorded
  <2>4. g = h
    BY <1>1, <2>2, <2>3 DEF OneHour
  <2> QED  BY <2>4
<1>4. Export(x, Self).hourly = OwnHourly(x, Self) \cup x.imported
  BY DEF Export, ExportHourly
<1>5. \A h \in OwnHourly(x, Self) : h.prints = x.tombs
  BY DEF OwnHourly
<1>6. C \subseteq X
  BY <1>3, <1>4, <1>5
<1>7. IsFiniteSet(X)
  BY FS_Subset DEF Good, Typed
<1>8. /\ Cardinality(C) <= Cardinality(X)
      /\ Cardinality(C) \in Nat /\ Cardinality(X) \in Nat
  <2> HIDE DEF C, X
  <2> QED  BY <1>6, <1>7, FS_Subset, FS_CardinalityType
<1>9. TimesCounted(x, f) = (IF x.rows[f] # NoRow THEN 1 ELSE 0) + 0 + Cardinality(X)
  BY DEF TimesCounted
<1>10. TimesCounted(c, f) = (IF c.rows[f] # NoRow THEN 1 ELSE 0) + 0 + Cardinality(C)
  BY DEF TimesCounted
<1> HIDE DEF C, X
<1>11. /\ TimesCounted(c, f) <= TimesCounted(x, f)
       /\ TimesCounted(c, f) \in Nat /\ TimesCounted(x, f) \in Nat
  BY <1>2, <1>8, <1>9, <1>10
<1>12. \A m \in Nat : m <= Max({1, m}) /\ Max({1, m}) \in Nat
  <2> SUFFICES ASSUME NEW m \in Nat PROVE m <= Max({1, m}) /\ Max({1, m}) \in Nat
    OBVIOUS
  <2>1. \E n \in {1, m} : \A k \in {1, m} : n >= k
    OBVIOUS
  <2>2. \A k \in {1, m} : Max({1, m}) >= k
    BY <2>1 DEF Max
  <2>3. Max({1, m}) \in {1, m}
    BY <2>1 DEF Max
  <2> QED  BY <2>2, <2>3
<1> DEFINE m == TimesCounted(x, f)
<1>13. m \in Nat /\ TimesCounted(c, f) <= m
  BY <1>11
<1> HIDE DEF m
<1>14. m <= Max({1, m}) /\ Max({1, m}) \in Nat
  BY <1>12, <1>13
<1> QED
  BY <1>11, <1>13, <1>14 DEF m

LEMMA RelayAddsNothing ==
  ASSUME OneHour, NEW x, Good(x), Recorded(x), NEW a \in x.taken,
         NEW f \in Prints, f \notin x.tombs,
         NEW s, NEW t, {s, t} = {a, Export(x, Self)},
         NEW one, one = Import(Empty, "third", s),
         NEW two, two = Import(one.db, "third", t),
         NEW c, c \in {one.db, two.db}
  PROVE  TimesCounted(c, f) <= Max({1, TimesCounted(x, f)})
<1> DEFINE own == Export(x, Self)
           From(r) == \E i \in DOMAIN r.raw : r.raw[i].usage.fp = f
<1>1. /\ Shape(Empty) /\ Empty.tombs = {} /\ Empty.imported = {}
      /\ Empty.rows[f] = NoRow
  BY DEF Shape, Empty
<1>2. /\ Shape(one.db) /\ one.db.tombs = {} /\ one.db.imported \subseteq s.hourly
      /\ one.db.rows[f] # NoRow => From(s)
  <2> HIDE DEF From
  <2>1. /\ Shape(one.db) /\ one.db.tombs = Empty.tombs
        /\ one.db.imported \subseteq Empty.imported \cup s.hourly
        /\ one.db.rows[f] # NoRow => Empty.rows[f] # NoRow \/ From(s)
    BY <1>1, ImportBrings DEF From
  <2> QED  BY <1>1, <2>1
<1>3. /\ two.db.tombs = {} /\ two.db.imported \subseteq s.hourly \cup t.hourly
      /\ two.db.rows[f] # NoRow => From(s) \/ From(t)
  <2>1. /\ two.db.tombs = one.db.tombs
        /\ two.db.imported \subseteq one.db.imported \cup t.hourly
        /\ two.db.rows[f] # NoRow => one.db.rows[f] # NoRow \/ From(t)
    BY <1>2, ImportBrings
  <2> QED  BY <1>2, <2>1
<1>4. s \in {a, own} /\ t \in {a, own}
  OBVIOUS
<1> HIDE DEF From, own
<1>5. /\ c.tombs = {} /\ c.imported \subseteq a.hourly \cup own.hourly
      /\ c.rows[f] # NoRow => From(a) \/ From(own)
  BY <1>2, <1>3, <1>4
<1> QED
  BY <1>5, ThirdHasNoMore DEF From, own

(* What import records promise, of both databases. *)
RecordsInv == Recorded(db) /\ Recorded(work)

LEMMA RecordsInit == Init => RecordsInv
<1>1. Recorded(Empty)
  BY DEF Recorded, Empty
<1> QED
  BY <1>1 DEF Init, RecordsInv

LEMMA RecordsStep ==
  OneIdentity /\ IInv /\ RecordsInv /\ [TransferNext]_vars => RecordsInv'
<1> SUFFICES ASSUME OneIdentity, IInv, RecordsInv, [TransferNext]_vars
             PROVE  RecordsInv'
  OBVIOUS
<1>1. Good(db) /\ Good(work) /\ Recorded(db) /\ Recorded(work)
  BY DEF IInv, RecordsInv
<1>2. CASE \E d \in Devices, b \in Batches : BeginBatch(d, b)
  BY <1>1, <1>2 DEF BeginBatch, RecordsInv
<1>3. CASE StoreNew
  <2>1. Event \in Lines
    BY <1>3, EventFacts DEF StoreNew
  <2>2. work' = Receipted(Inserted(work, Event), sender, Event, work.nextId) /\ db' = db
    BY <1>3 DEF StoreNew, Answer
  <2>3. Good(Inserted(work, Event)) /\ Recorded(Inserted(work, Event))
    BY <1>1, <1>3, <2>1, LineFacts, InsertKeeps, InsertRecords DEF StoreNew
  <2>4. Recorded(work')
    BY <2>2, <2>3, ReceiptRecords
  <2> QED
    BY <1>1, <2>2, <2>4 DEF RecordsInv
<1>4. CASE StoreKnownUsage
  BY <1>1, <1>4, ReceiptRecords DEF StoreKnownUsage, Answer, RecordsInv
<1>5. CASE StoreArchivedUsage
  BY <1>1, <1>5, ReceiptRecords DEF StoreArchivedUsage, Answer, RecordsInv
<1>6. CASE RejectIdentity \/ RejectPayload \/ StoreReplay
  BY <1>1, <1>6 DEF RejectIdentity, RejectPayload, StoreReplay, Answer, RecordsInv
<1>7. CASE StoreEnrichment
  <2> DEFINE f == PrintOf(work, Receipt.row)
  <2>1. /\ todo # <<>> /\ HasRow(work, Receipt.row)
        /\ work' = Enriched(work, f, sender, Event) /\ db' = db
    BY <1>7 DEF StoreEnrichment, SameIdentity, Enriched, Answer
  <2>2. f \in Prints /\ work.rows[f] # NoRow
    BY <2>1 DEF HasRow, PrintOf
  <2>3. Event \in Lines
    BY <2>1, EventFacts
  <2> HIDE DEF f
  <2>4. Recorded(work')
    BY <1>1, <2>1, <2>2, <2>3, EnrichRecords
  <2> QED
    BY <1>1, <2>1, <2>4 DEF RecordsInv
<1>8. CASE Commit
  BY <1>1, <1>8 DEF Commit, RecordsInv
<1>9. CASE Rollback
  BY <1>1, <1>9 DEF Rollback, RecordsInv
<1>10. CASE \E l \in Lines : LocalInsert(l)
  <2>1. PICK l \in Lines : LocalInsert(l)
    BY <1>10
  <2>2. CASE l.fp \in db.tombs
    BY <1>1, <2>1, <2>2 DEF LocalInsert, RecordsInv
  <2>3. CASE l.fp \notin db.tombs /\ db.rows[l.fp] = NoRow
    BY <1>1, <2>1, <2>3, InsertRecords DEF LocalInsert, RecordsInv
  <2>4. CASE l.fp \notin db.tombs /\ db.rows[l.fp] # NoRow
    BY <1>1, <2>1, <2>4, MergeRecords DEF LocalInsert, Merged, RecordsInv
  <2> QED
    BY <2>2, <2>3, <2>4
<1>11. CASE \E c \in Cutoffs : Compact(c)
  <2>1. PICK c \in Cutoffs : Compact(c)
    BY <1>11
  <2> DEFINE E == Expired(c)
             hourly == [requests |-> db.hourly.requests + Cardinality(E),
                        tokens |-> db.hourly.tokens + Tokens(db, E),
                        times |-> db.hourly.times \cup {db.rows[f].at : f \in E}]
             records == {e \in db.records : \A f \in E : e.row # db.rows[f].id}
             rows == [f \in Prints |-> IF f \in E THEN NoRow ELSE db.rows[f]]
  <2>2. db' = [db EXCEPT !.hourly = hourly, !.records = records,
                         !.tombs = db.tombs \cup E, !.rows = rows] /\ work' = db'
    BY <2>1 DEF Compact
  <2> HIDE DEF hourly, records, E, rows
  <2>3. /\ db'.rows = rows /\ db'.tombs = db.tombs \cup E /\ db'.records = records
        /\ db'.imported = db.imported /\ db'.taken = db.taken
    BY <1>1, <2>2 DEF Good, Shape
  <2>4. Recorded(db')
    BY <1>1, <2>3, CompactRecords DEF rows, records
  <2> QED
    BY <2>2, <2>4 DEF RecordsInv
<1>12. CASE \E a \in Archives : ImportData(a)
  <2>1. PICK a \in Archives : ImportData(a)
    BY <1>12
  <2>2. db' = Imported(db, a) /\ work' = db'
    BY <2>1 DEF ImportData, Imported
  <2>3. Recorded(db')
    BY <1>1, <2>2, ImportRecords
  <2> QED
    BY <2>2, <2>3 DEF RecordsInv
<1>13. CASE UNCHANGED vars
  BY <1>1, <1>13 DEF vars, RecordsInv
<1> QED
  BY <1>2, <1>3, <1>4, <1>5, <1>6, <1>7, <1>8, <1>9, <1>10, <1>11, <1>12, <1>13
  DEF TransferNext, Next

-----------------------------------------------------------------------------
(* What is stored stays. *)

(* A receipt goes on naming the event, the usage and the row that it named, *)
(* and a raw row its usage.                                                 *)
Confirms(new, old) ==
  /\ new # NoReceipt /\ new.fp = old.fp /\ new.row = old.row
  /\ new.line.at = old.line.at /\ new.line.tokens = old.line.tokens
  /\ old.line.meta \subseteq new.line.meta

SameRow(new, old) ==
  new # NoRow /\ new.id = old.id /\ new.at = old.at /\ new.tokens = old.tokens

(* A database y holds what x held: its receipts, its raw rows unless they   *)
(* are archived, the fingerprints of its archive, and hourly rows of other  *)
(* installations; its sums have not become less, and no id is free again.   *)
Remembers(y, x) ==
  /\ \A d \in Devices, k \in Keys :
       x.receipts[d][k] # NoReceipt => Confirms(y.receipts[d][k], x.receipts[d][k])
  /\ \A f \in Prints : x.rows[f] # NoRow => f \in y.tombs \/ SameRow(y.rows[f], x.rows[f])
  /\ x.tombs \subseteq y.tombs /\ x.imported \subseteq y.imported
  /\ x.nextId <= y.nextId /\ x.booked <= y.booked

LEMMA Numbers == \A x : Good(x) => x.nextId \in Nat /\ x.booked \in Nat
  BY DEF Good, Typed

LEMMA RemembersItself ==
  ASSUME NEW x, Good(x)
  PROVE  Remembers(x, x)
  BY Numbers DEF Remembers, Confirms, SameRow

LEMMA RemembersOn ==
  ASSUME NEW x, Good(x), NEW y, Good(y), NEW z, Good(z), Remembers(y, x), Remembers(z, y)
  PROVE  Remembers(z, x)
<1>1. \A d \in Devices, k \in Keys :
        x.receipts[d][k] # NoReceipt => Confirms(z.receipts[d][k], x.receipts[d][k])
  <2> SUFFICES ASSUME NEW d \in Devices, NEW k \in Keys, x.receipts[d][k] # NoReceipt
               PROVE  Confirms(z.receipts[d][k], x.receipts[d][k])
    OBVIOUS
  <2>1. Confirms(y.receipts[d][k], x.receipts[d][k])
    BY DEF Remembers
  <2>2. Confirms(z.receipts[d][k], y.receipts[d][k])
    BY <2>1 DEF Remembers, Confirms
  <2> QED
    BY <2>1, <2>2 DEF Confirms
<1>2. \A f \in Prints : x.rows[f] # NoRow => f \in z.tombs \/ SameRow(z.rows[f], x.rows[f])
  <2> SUFFICES ASSUME NEW f \in Prints, x.rows[f] # NoRow, f \notin z.tombs
               PROVE  SameRow(z.rows[f], x.rows[f])
    OBVIOUS
  <2>1. f \notin y.tombs
    BY DEF Remembers
  <2>2. SameRow(y.rows[f], x.rows[f])
    BY <2>1 DEF Remembers
  <2>3. SameRow(z.rows[f], y.rows[f])
    BY <2>2 DEF Remembers, SameRow
  <2> QED
    BY <2>2, <2>3 DEF SameRow
<1>3. x.tombs \subseteq z.tombs /\ x.imported \subseteq z.imported
  BY DEF Remembers
<1>4. x.nextId <= z.nextId /\ x.booked <= z.booked
  <2>1. x.nextId <= y.nextId /\ y.nextId <= z.nextId /\ x.booked <= y.booked /\ y.booked <= z.booked
    BY DEF Remembers
  <2> QED
    BY <2>1, Numbers
<1> QED
  BY <1>1, <1>2, <1>3, <1>4 DEF Remembers

LEMMA InsertRemembers ==
  ASSUME NEW x, Good(x), NEW u, x.rows[u.fp] = NoRow, u.tokens \in Nat
  PROVE  Remembers(Inserted(x, u), x)
<1> DEFINE y == Inserted(x, u)
           r == RowOf(u, x.nextId)
<1> HIDE DEF r
<1>1. y = [x EXCEPT !.rows[u.fp] = r, !.nextId = @ + 1,
                    !.inserts[u.fp] = @ + 1, !.booked = @ + u.tokens]
  BY DEF Inserted, r
<1>2. /\ y.rows = [x.rows EXCEPT ![u.fp] = r]
      /\ y.tombs = x.tombs /\ y.imported = x.imported /\ y.receipts = x.receipts
      /\ y.nextId = x.nextId + 1 /\ y.booked = x.booked + u.tokens
  BY <1>1 DEF Good, Shape
<1> HIDE DEF y
<1>3. \A f \in Prints : x.rows[f] # NoRow => y.rows[f] = x.rows[f]
  BY <1>2 DEF Good, Typed
<1>4. x.nextId <= y.nextId /\ x.booked <= y.booked
  BY <1>2, Numbers
<1>5. Remembers(y, x)
  BY <1>2, <1>3, <1>4 DEF Remembers, Confirms, SameRow
<1> QED
  BY <1>5 DEF y

LEMMA ReceiptRemembers ==
  ASSUME NEW x, Good(x), NEW d \in Devices, NEW l \in Lines, NEW row,
         x.receipts[d][l.key] = NoReceipt
  PROVE  Remembers(Receipted(x, d, l, row), x)
<1> DEFINE y == Receipted(x, d, l, row)
           r == [line |-> l, fp |-> l.fp, row |-> row]
<1> HIDE DEF r
<1>1. y = [x EXCEPT !.receipts[d][l.key] = r]
  BY DEF Receipted, r
<1>2. /\ y.rows = x.rows /\ y.tombs = x.tombs /\ y.imported = x.imported
      /\ y.nextId = x.nextId /\ y.booked = x.booked
      /\ y.receipts = [x.receipts EXCEPT ![d][l.key] = r]
  BY <1>1 DEF Good, Shape
<1> HIDE DEF y
<1>3. \A e \in Devices, k \in Keys :
        x.receipts[e][k] # NoReceipt => y.receipts[e][k] = x.receipts[e][k]
  BY <1>2 DEF Good, Typed
<1>4. Remembers(y, x)
  BY <1>2, <1>3, Numbers DEF Remembers, Confirms, SameRow
<1> QED
  BY <1>4 DEF y

(* A row that only its metadata changes of is the same row.                 *)
LEMMA MetaOnly ==
  ASSUME NEW old \in Row, NEW m \in SUBSET STRING
  PROVE  SameRow([old EXCEPT !.meta = m], old)
<1> DEFINE new == [old EXCEPT !.meta = m]
<1>1. new \in Row
  BY DEF Row
<1>2. new.id = old.id /\ new.at = old.at /\ new.tokens = old.tokens
  BY DEF Row
<1> HIDE DEF new
<1>3. SameRow(new, old)
  BY <1>1, <1>2, StoreConstants DEF SameRow
<1> QED
  BY <1>3 DEF new

LEMMA OneRowOnly ==
  ASSUME NEW x, Good(x), NEW f \in Prints, NEW row, SameRow(row, x.rows[f]),
         NEW y, y.rows = [x.rows EXCEPT ![f] = row]
  PROVE  \A g \in Prints : x.rows[g] # NoRow => SameRow(y.rows[g], x.rows[g])
<1>1. \A g \in Prints : y.rows[g] = IF g = f THEN row ELSE x.rows[g]
  BY DEF Good, Typed
<1> QED
  BY <1>1 DEF SameRow

LEMMA EnrichRemembers ==
  ASSUME NEW x, Good(x), NEW d \in Devices, NEW l \in Lines,
         x.receipts[d][l.key] # NoReceipt,
         l.at = x.receipts[d][l.key].line.at, Enriches(l, x.receipts[d][l.key].line),
         NEW f \in Prints, x.rows[f] # NoRow
  PROVE  Remembers(Enriched(x, f, d, l), x)
<1> DEFINE y == Enriched(x, f, d, l)
           m == l.meta
           row == [x.rows[f] EXCEPT !.meta = m]
           r == [x.receipts[d][l.key] EXCEPT !.line = l]
<1>1. m \in SUBSET STRING /\ l.key \in Keys
  BY LineFacts
<1>2. /\ y.rows = [x.rows EXCEPT ![f] = row]
      /\ y.receipts = [x.receipts EXCEPT ![d][l.key] = r]
      /\ y.tombs = x.tombs /\ y.imported = x.imported
      /\ y.nextId = x.nextId /\ y.booked = x.booked
  BY DEF Good, Shape, Enriched
<1>3. x.receipts[d][l.key] \in ReceiptType
  BY <1>1 DEF Good, Typed
<1>4. r \in ReceiptType
  BY <1>3 DEF ReceiptType
<1>5. r.line = l /\ r.fp = x.receipts[d][l.key].fp /\ r.row = x.receipts[d][l.key].row
  BY <1>3 DEF ReceiptType
<1>6. Confirms(r, x.receipts[d][l.key])
  BY <1>4, <1>5, StoreConstants DEF Confirms, Enriches
<1> HIDE DEF r, y, m
<1>7. \A e \in Devices, k \in Keys :
        y.receipts[e][k] = IF e = d /\ k = l.key THEN r ELSE x.receipts[e][k]
  BY <1>1, <1>2 DEF Good, Typed
<1>8. \A e \in Devices, k \in Keys :
        x.receipts[e][k] # NoReceipt => Confirms(y.receipts[e][k], x.receipts[e][k])
  BY <1>6, <1>7 DEF Confirms
<1>9. \A g \in Prints : x.rows[g] # NoRow => SameRow(y.rows[g], x.rows[g])
  <2>1. x.rows[f] \in Row
    BY DEF Good, Typed
  <2>2. SameRow(row, x.rows[f])
    BY <1>1, <2>1, MetaOnly
  <2> HIDE DEF row
  <2> QED
    BY <1>2, <2>2, OneRowOnly
<1>10. Remembers(y, x)
  BY <1>2, <1>8, <1>9, Numbers DEF Remembers
<1> QED
  BY <1>10 DEF y

LEMMA MergeRemembers ==
  ASSUME NEW x, Good(x), NEW l \in Lines, x.rows[l.fp] # NoRow
  PROVE  Remembers(Merged(x, l), x)
<1> DEFINE y == Merged(x, l)
           m == x.rows[l.fp].meta \cup l.meta
           row == [x.rows[l.fp] EXCEPT !.meta = m]
<1>1. l.fp \in Prints /\ l.meta \in SUBSET STRING
  BY LineFacts
<1>2. x.rows[l.fp] \in Row
  BY <1>1 DEF Good, Typed
<1>3. m \in SUBSET STRING
  BY <1>1, <1>2 DEF Row
<1>4. /\ y.rows = [x.rows EXCEPT ![l.fp] = row]
      /\ y.receipts = x.receipts /\ y.tombs = x.tombs /\ y.imported = x.imported
      /\ y.nextId = x.nextId /\ y.booked = x.booked
  BY DEF Good, Shape, Merged
<1> HIDE DEF y, m
<1>5. \A g \in Prints : x.rows[g] # NoRow => SameRow(y.rows[g], x.rows[g])
  <2>1. SameRow(row, x.rows[l.fp])
    BY <1>2, <1>3, MetaOnly
  <2> HIDE DEF row
  <2> QED
    BY <1>1, <1>4, <2>1, OneRowOnly
<1>6. Remembers(y, x)
  BY <1>4, <1>5, Numbers DEF Remembers, Confirms
<1> QED
  BY <1>6 DEF y

LEMMA CompactRemembers ==
  ASSUME IInv, NEW c \in Cutoffs, Compact(c)
  PROVE  Remembers(db', db)
<1> DEFINE E == Expired(c)
           hourly == [requests |-> db.hourly.requests + Cardinality(E),
                      tokens |-> db.hourly.tokens + Tokens(db, E),
                      times |-> db.hourly.times \cup {db.rows[f].at : f \in E}]
           records == {e \in db.records : \A f \in E : e.row # db.rows[f].id}
           rows == [f \in Prints |-> IF f \in E THEN NoRow ELSE db.rows[f]]
<1>1. db' = [db EXCEPT !.hourly = hourly, !.records = records,
                       !.tombs = db.tombs \cup E, !.rows = rows]
  BY DEF Compact
<1>2. Good(db)
  BY DEF IInv
<1> HIDE DEF hourly, records, E, rows
<1>3. /\ db'.rows = rows /\ db'.tombs = db.tombs \cup E
      /\ db'.receipts = db.receipts /\ db'.imported = db.imported
      /\ db'.nextId = db.nextId /\ db'.booked = db.booked
  BY <1>1, <1>2 DEF Good, Shape
<1>4. \A f \in Prints : f \in E \/ db'.rows[f] = db.rows[f]
  BY <1>3 DEF rows
<1>5. \A f \in Prints : db.rows[f] # NoRow => f \in db'.tombs \/ SameRow(db'.rows[f], db.rows[f])
  BY <1>3, <1>4 DEF SameRow
<1> QED
  BY <1>2, <1>3, <1>5, Numbers DEF Remembers, Confirms

LEMMA ImportRemembers ==
  ASSUME NEW x, Good(x), NEW a \in Archives, NEW y, y = Imported(x, a)
  PROVE  Remembers(y, x)
<1>1. /\ y.receipts = x.receipts /\ y.tombs = x.tombs /\ x.imported \subseteq y.imported
      /\ \A f \in Prints : x.rows[f] # NoRow => y.rows[f] = x.rows[f]
      /\ x.nextId <= y.nextId /\ x.booked <= y.booked
  BY ImportKeeps
<1> QED
  BY <1>1 DEF Remembers, Confirms, SameRow

(* An open transaction edits its own database.                              *)
LEMMA TransactionRemembers ==
  ASSUME IInv,
         \/ StoreNew \/ StoreKnownUsage \/ StoreArchivedUsage
         \/ RejectIdentity \/ StoreReplay \/ StoreEnrichment \/ RejectPayload
  PROVE  db' = db /\ Remembers(work', work)
<1>1. /\ todo # <<>> /\ db' = db
  BY DEF StoreNew, StoreKnownUsage, StoreArchivedUsage, RejectIdentity, StoreReplay,
         StoreEnrichment, RejectPayload, SameIdentity, Answer
<1>2. Event \in Lines /\ Event.key \in Keys /\ Good(work) /\ sender \in Devices
  BY <1>1, EventFacts
<1>3. CASE StoreNew
  <2> DEFINE x == Inserted(work, Event)
  <2>1. /\ Event.fp \notin work.tombs /\ work.rows[Event.fp] = NoRow
        /\ work' = Receipted(x, sender, Event, work.nextId)
        /\ work.receipts[sender][Event.key] = NoReceipt
    BY <1>3 DEF StoreNew, Receipt
  <2>2. /\ Event.fp \in Prints /\ Event.at \in Nat
        /\ Event.tokens \in Nat /\ Event.meta \in SUBSET STRING
    BY <1>2, LineFacts
  <2>3. Good(x) /\ x.receipts = work.receipts
    BY <1>2, <2>1, <2>2, InsertKeeps
  <2>4. Remembers(x, work)
    BY <1>2, <2>1, <2>2, InsertRemembers
  <2> HIDE DEF x
  <2>5. Remembers(work', x)
    BY <1>2, <2>1, <2>3, ReceiptRemembers
  <2>6. Good(work')
    BY <1>3, StoreNewKeeps DEF IInv
  <2>7. Remembers(work', work)
    BY <1>2, <2>3, <2>4, <2>5, <2>6, RemembersOn
  <2> QED
    BY <1>1, <2>7
<1>4. CASE StoreKnownUsage
  BY <1>1, <1>2, <1>4, ReceiptRemembers DEF StoreKnownUsage, Receipt
<1>5. CASE StoreArchivedUsage
  BY <1>1, <1>2, <1>5, ReceiptRemembers DEF StoreArchivedUsage, Receipt
<1>6. CASE StoreEnrichment
  <2> DEFINE f == PrintOf(work, Receipt.row)
  <2>1. /\ Receipt # NoReceipt /\ HasRow(work, Receipt.row)
        /\ Receipt.line.at = Event.at /\ Enriches(Event, Receipt.line)
        /\ work' = Enriched(work, f, sender, Event)
    BY <1>6 DEF StoreEnrichment, SameIdentity, Enriched
  <2>2. f \in Prints /\ work.rows[f] # NoRow
    BY <2>1 DEF HasRow, PrintOf
  <2> HIDE DEF f
  <2>3. Remembers(work', work)
    BY <1>2, <2>1, <2>2, EnrichRemembers DEF Receipt
  <2> QED
    BY <1>1, <2>3
<1>7. CASE RejectIdentity \/ StoreReplay \/ RejectPayload
  BY <1>1, <1>2, <1>7, RemembersItself DEF RejectIdentity, StoreReplay, RejectPayload
<1> QED
  BY <1>3, <1>4, <1>5, <1>6, <1>7

(* Another writer edits the database between two batches.                   *)
LEMMA WriterRemembers ==
  ASSUME IInv,
         \/ \E l \in Lines : LocalInsert(l)
         \/ \E c \in Cutoffs : Compact(c)
         \/ \E a \in Archives : ImportData(a)
  PROVE  work' = db' /\ Remembers(db', db)
<1>1. Good(db)
  BY DEF IInv
<1>2. ASSUME NEW l \in Lines, LocalInsert(l) PROVE work' = db' /\ Remembers(db', db)
  <2>1. l.tokens \in Nat
    BY LineFacts
  <2>2. CASE l.fp \in db.tombs
    BY <1>1, <1>2, <2>2, RemembersItself DEF LocalInsert
  <2>3. CASE l.fp \notin db.tombs /\ db.rows[l.fp] = NoRow
    BY <1>1, <1>2, <2>1, <2>3, InsertRemembers DEF LocalInsert
  <2>4. CASE l.fp \notin db.tombs /\ db.rows[l.fp] # NoRow
    BY <1>1, <1>2, <2>4, MergeRemembers DEF LocalInsert, Merged
  <2> QED
    BY <2>2, <2>3, <2>4
<1>3. ASSUME NEW c \in Cutoffs, Compact(c) PROVE work' = db' /\ Remembers(db', db)
  BY <1>3, CompactRemembers DEF Compact
<1>4. ASSUME NEW a \in Archives, ImportData(a) PROVE work' = db' /\ Remembers(db', db)
  <2>1. db' = Imported(db, a) /\ work' = db'
    BY <1>4 DEF ImportData, Imported
  <2> QED
    BY <1>1, <2>1, ImportRemembers
<1> QED
  BY <1>2, <1>3, <1>4

(* What the open transaction started from is still there, so that nothing   *)
(* is lost when it commits.                                                 *)
LEMMA MemoryStays ==
  ASSUME IInv, Remembers(work, db), [TransferNext]_vars
  PROVE  Remembers(work', db') /\ Remembers(db', db)
<1>1. Good(db) /\ Good(work)
  BY DEF IInv
<1>2. Good(db') /\ Good(work')
  BY NextKeeps DEF IInv
<1>3. ASSUME db' = db, Remembers(work', work) PROVE Remembers(work', db') /\ Remembers(db', db)
  <2>1. Remembers(work', db)
    BY <1>1, <1>2, <1>3, RemembersOn
  <2> QED
    BY <1>1, <1>3, <2>1, RemembersItself
<1>4. ASSUME work' = db', Remembers(db', db) PROVE Remembers(work', db') /\ Remembers(db', db)
  BY <1>2, <1>4, RemembersItself
<1>5. CASE \/ StoreNew \/ StoreKnownUsage \/ StoreArchivedUsage
           \/ RejectIdentity \/ StoreReplay \/ StoreEnrichment \/ RejectPayload
  BY <1>3, <1>5, TransactionRemembers
<1>6. CASE \/ \E l \in Lines : LocalInsert(l)
           \/ \E c \in Cutoffs : Compact(c)
           \/ \E a \in Archives : ImportData(a)
  BY <1>4, <1>6, WriterRemembers
<1>7. CASE UNCHANGED vars \/ \E d \in Devices, b \in Batches : BeginBatch(d, b)
  <2>1. db' = db /\ work' = work
    BY <1>7 DEF vars, BeginBatch
  <2> QED
    BY <1>1, <1>3, <2>1, RemembersItself
<1>8. CASE Commit
  <2>1. db' = work /\ work' = work
    BY <1>8 DEF Commit
  <2> QED
    BY <1>4, <2>1
<1>9. CASE Rollback
  <2>1. db' = db /\ work' = db
    BY <1>9 DEF Rollback
  <2> QED
    BY <1>1, <1>4, <2>1, RemembersItself
<1> QED
  BY <1>5, <1>6, <1>7, <1>8, <1>9 DEF TransferNext, Next

(* What was stored is never lost, overwritten or counted less: no order of  *)
(* batches, failures, local inserts, retention and imports removes a        *)
(* receipt, points it at other usage, drops a usage that is not archived,   *)
(* or frees an id.                                                          *)
StoredForGood == [][Remembers(db', db)]_vars

-----------------------------------------------------------------------------
(* The theorems. *)

(* The invariant that everything rests on: whatever the order of the        *)
(* batches, replays, failures, local inserts, retention and imports, the    *)
(* database and the open transaction are good.                              *)
THEOREM StoreInvariant == TransferSpec => []IInv
<1> QED
  BY InitKeeps, NextKeeps, PTL DEF TransferSpec

(* The store's types hold: receipts name events and fingerprints that may   *)
(* be sent, rows have an id of the table's sequence.                        *)
THEOREM StoreTypeCorrect == TransferSpec => []TypeOK
<1>1. IInv => TypeOK
  BY DEF IInv, Good, TypeOK
<1> QED
  BY <1>1, StoreInvariant, PTL

(* A usage is inserted at most once, by whichever device, log file or       *)
(* archive brings it, and is then a raw row or archived, never both.        *)
THEOREM UsageCountedOnce == TransferSpec => []CountedOnce
<1>1. IInv => CountedOnce
  BY DEF IInv, Good, Counted, CountedOnce
<1> QED
  BY <1>1, StoreInvariant, PTL

(* The dashboard's sums over raw rows, this server's archive and imported   *)
(* hourly rows are what was ever inserted: retention, enrichment, replays   *)
(* and imports move tokens and never drop or double any.                    *)
THEOREM UsageIsConserved == TransferSpec => []UsageConserved
<1>1. IInv => UsageConserved
  BY DEF IInv, Good, Conserved, UsageConserved
<1> QED
  BY <1>1, StoreInvariant, PTL

(* What was answered as stored has a committed receipt, and the usage of    *)
(* every committed receipt was inserted.                                    *)
THEOREM AnswersKept == TransferSpec => []AnsweredIsCounted
<1>1. IInv => AnsweredIsCounted
  BY DEF IInv, Good, Backed, Kept, AnsweredIsCounted
<1> QED
  BY <1>1, StoreInvariant, PTL

(* What was stored stays: a batch that commits replaces the whole database  *)
(* by what the transaction saw, and still takes nothing away; nor does one  *)
(* that fails half way, retention or an import.                             *)
THEOREM StoredStays == TransferSpec => StoredForGood
<1>1. Init => Remembers(work, db)
  <2> SUFFICES ASSUME Init PROVE Remembers(work, db)
    OBVIOUS
  <2> QED
    BY EmptyIsGood, RemembersItself DEF Init
<1>2. IInv /\ Remembers(work, db) /\ [TransferNext]_vars => Remembers(work, db)'
  BY MemoryStays
<1>3. IInv /\ Remembers(work, db) /\ [TransferNext]_vars => [Remembers(db', db)]_vars
  BY MemoryStays
<1> QED
  BY <1>1, <1>2, <1>3, StoreInvariant, PTL DEF TransferSpec, StoredForGood

(* An archive that was imported may be imported again at any time: no usage *)
(* counts once more, although retention has dropped the records that named  *)
(* its rows.  (The archives hold no row that this installation exported,    *)
(* and name a usage by one identity.)                                       *)
THEOREM ReimportIsIdle ==
  ASSUME OneIdentity
  PROVE  TransferSpec => []ReimportAddsNothing
<1>1. IInv /\ RecordsInv => ReimportAddsNothing
  BY HeldAddsNothing DEF IInv, RecordsInv, Recorded, ReimportAddsNothing
<1>2. IInv /\ RecordsInv /\ [TransferNext]_vars => RecordsInv'
  BY RecordsStep
<1> QED
  BY <1>1, <1>2, StoreInvariant, RecordsInit, PTL DEF TransferSpec

(* Portable history is taken once: an archive again adds nothing, and a     *)
(* third installation that is given this server's export and the archive,   *)
(* in either order, counts no usage more often than the server does.        *)
THEOREM HistoryIsTakenOnce ==
  ASSUME OneIdentity, OneHour
  PROVE  TransferSpec => []TransferredOnce
<1>1. TransferSpec => []ReimportAddsNothing
  BY ReimportIsIdle
<1>2. IInv /\ RecordsInv => RelayedOnce
  <2> SUFFICES ASSUME IInv, RecordsInv, NEW a \in db.taken, NEW f \in Prints, f \notin db.tombs,
                      NEW s, NEW t, {s, t} = {a, Export(db, Self)}
               PROVE  LET one == Import(Empty, "third", s)
                          two == Import(one.db, "third", t)
                      IN  TimesCounted(IF two.ok THEN two.db ELSE one.db, f)
                            <= Max({1, TimesCounted(db, f)})
    BY DEF RelayedOnce
  <2> DEFINE one == Import(Empty, "third", s)
             two == Import(one.db, "third", t)
             c == IF two.ok THEN two.db ELSE one.db
  <2>1. c \in {one.db, two.db}
    OBVIOUS
  <2>2. Good(db) /\ Recorded(db)
    BY DEF IInv, RecordsInv
  <2> HIDE DEF c, two
  <2>3. two = Import(one.db, "third", t)
    BY DEF two
  <2> HIDE DEF one
  <2>4. one = Import(Empty, "third", s)
    BY DEF one
  <2>5. TimesCounted(c, f) <= Max({1, TimesCounted(db, f)})
    BY <2>1, <2>2, <2>3, <2>4, RelayAddsNothing
  <2> QED
    BY <2>5 DEF c, two, one
<1>3. IInv /\ RecordsInv /\ [TransferNext]_vars => RecordsInv'
  BY RecordsStep
<1>4. ReimportAddsNothing /\ RelayedOnce => TransferredOnce
  BY DEF TransferredOnce
<1> QED
  BY <1>1, <1>2, <1>3, <1>4, StoreInvariant, RecordsInit, PTL DEF TransferSpec

-----------------------------------------------------------------------------
(* The quota cycles. *)

\* what a tracker stores and remembers, what a provider answers, and the outcome of
\* one snapshot
Books == [active : Cycle \cup {None}, mem : Memory,
          history : [count : Nat, tracked : Nat, end : Nat]]
Snapshots == [at : Nat, used : Nat, resets : Nat \cup {None}, period : Nat]
Results == [st : Books, ok : BOOLEAN]

\* the cycle a snapshot opens
Opened(c, snap) ==
  /\ c \in Cycle
  /\ c.start = snap.at /\ c.resets = snap.resets
  /\ c.delta = 0 /\ c.period = snap.period

\* what the tracker remembers after a statement has failed and after none has
Unmoved(s, t) == t.mem.last = s.mem.last /\ t.mem.reset = s.mem.reset
Moved(s, t, snap) ==
  /\ t.mem.last = snap.used
  /\ t.mem.reset = IF snap.resets = None THEN s.mem.reset ELSE snap.resets

\* the outcomes of opening a cycle: no row, a row with a zero peak, the whole row
Opening(s, r, snap) ==
  \/ ~r.ok /\ r.st.active = None /\ Unmoved(s, r.st)
  \/ ~r.ok /\ Opened(r.st.active, snap) /\ Unmoved(s, r.st)
  \/ r.ok /\ Opened(r.st.active, snap) /\ Moved(s, r.st, snap)

\* nothing but the codex candidate has been touched
Untouched(s, t) ==
  t.active = s.active /\ t.history = s.history /\ Unmoved(s, t)

\* what a snapshot adds to the count of a cycle: nothing, or the growth
Gain(s, snap, d) == d = 0 \/ (s.mem.last # None /\ d = Positive(snap.used - s.mem.last))

\* the cycle is in the history
Ended(s, snap, d, t) ==
  t.history = [count |-> s.history.count + 1, tracked |-> s.history.tracked + s.active.delta + d,
               end |-> CycleEnd(s.active, snap)]

\* the open cycle has been closed, and the next one opened or not
Reopened(s, r, snap) ==
  \E d \in Nat : Gain(s, snap, d) /\ Ended(s, snap, d, r.st) /\ Opening(s, r, snap)

\* the same with an end that stays: no write, or the count and the peak
Stayed(s, r, snap) ==
  \/ ~r.ok /\ r.st = s
  \/ /\ r.ok /\ Moved(s, r.st, snap)
     /\ r.st.active \in Cycle
     /\ r.st.active.start = s.active.start /\ r.st.active.period = s.active.period
     /\ r.st.active.resets = s.active.resets
     /\ \E d \in Nat : Gain(s, snap, d) /\ r.st.active.delta = s.active.delta + d

\* the cycle goes on
Continued(s, r, snap) ==
  /\ r.st.history = s.history
  /\ r.st.active \in Cycle
  /\ r.st.active.start = s.active.start /\ r.st.active.period = s.active.period
  /\ \/ /\ ~r.ok
        /\ r.st.mem.last = s.mem.last /\ r.st.active.delta = s.active.delta
        /\ \/ r.st.active.resets = s.active.resets /\ r.st.mem.reset = s.mem.reset
           \/ /\ kind \in Rolling /\ snap.resets # None
              /\ r.st.active.resets = snap.resets /\ r.st.mem.reset = snap.resets
     \/ /\ r.ok /\ Moved(s, r.st, snap)
        /\ r.st.active.resets = IF kind \in Rolling /\ snap.resets # None THEN snap.resets
                                ELSE s.active.resets
        /\ \E d \in Nat : Gain(s, snap, d) /\ r.st.active.delta = s.active.delta + d
  /\ kind \in Rolling => r.st.mem.pending = None

\* what a tracker takes for a reset
ResetSeen(s, snap) ==
  LET c == s.active
  IN  \/ /\ kind \in {"synthetic", "search"}
         /\ Passed(c, snap) \/ Hour(c.resets) # Hour(snap.resets)
      \/ /\ kind \in {"anthropic", "cursor"}
         /\ Passed(c, snap) \/ Shifted(c.resets, snap, Tolerance) \/ Appeared(c, snap)
      \/ /\ kind = "zai_tokens"
         /\ Passed(c, snap) \/ Shifted(c.resets, snap, 0) \/ Appeared(c, snap)
      \/ kind \in Valued /\ Halved(s, snap)
      \/ /\ kind = "copilot"
         /\ Shifted(s.mem.reset, snap, 0) \/ (PastReset(c, snap) /\ Fell(s, snap))
      \/ /\ kind = "minimax"
         /\ Shifted(s.mem.reset, snap, Tolerance) \/ (Known(s) /\ 10 * snap.used < 6 * s.mem.last)
      \/ /\ kind = "antigravity"
         /\ \/ Shifted(s.mem.reset, snap, Tolerance)
            \/ s.mem.has /\ Fell(s, snap)
            \/ PastReset(c, snap) /\ Fell(s, snap)
      \/ kind = "gemini" /\ (Passed(c, snap) \/ Candidate(s, snap))
      \/ /\ kind = "codex"
         /\ Passed(c, snap) \/ (Candidate(s, snap) /\ ConfirmCodexReset(s, snap))

\* the outcomes of a reset, and of none
Turned(s, r, snap) ==
  /\ r.st.mem.pending = None
  /\ \/ ~r.ok /\ Untouched(s, r.st)
     \/ Reopened(s, r, snap)

\* no reset: the cycle goes on, or a statement failed first
Ongoing(s, r, snap) ==
  \/ ~r.ok /\ Untouched(s, r.st) /\ r.st.mem.pending \in {s.mem.pending, None}
  \/ Continued(s, r, snap) /\ (kind \notin Rolling => r.st.mem.pending = s.mem.pending)

\* codex holds a reset back until the next answer confirms it
Pended(s, r, snap) ==
  /\ kind = "codex" /\ Candidate(s, snap) /\ r.ok /\ Untouched(s, r.st)
  /\ r.st.mem.pending = [resets |-> snap.resets, used |-> snap.used]

\* all that a snapshot does
Processed(s, r, snap) ==
  \/ ~r.ok /\ Untouched(s, r.st) /\ r.st.mem.pending = s.mem.pending
  \/ /\ s.active = None /\ r.st.history = s.history /\ r.st.mem.pending = s.mem.pending
     /\ Opening(s, r, snap)
  \/ s.active # None /\ ResetSeen(s, snap) /\ Turned(s, r, snap)
  \/ /\ s.active # None /\ ~ResetSeen(s, snap) /\ Ongoing(s, r, snap)
     /\ kind = "codex" => ~Candidate(s, snap)
  \/ s.active # None /\ ~ResetSeen(s, snap) /\ Pended(s, r, snap)

-----------------------------------------------------------------------------

LEMMA PositiveIs ==
  ASSUME NEW n \in Int
  PROVE  Positive(n) \in Nat /\ Positive(n) >= n /\ (n <= 0 => Positive(n) = 0)
         /\ (n >= 0 => Positive(n) = n)
BY DEF Positive, Larger

LEMMA NoneIs == None \notin Int /\ None \notin Nat /\ None \notin Cycle
BY CyclesConstants

LEMMA GrownCycle ==
  ASSUME NEW s \in Books, NEW c \in Cycle, NEW snap \in Snapshots, s.mem.last # None
  PROVE  LET g == Grown(s, c, snap)
             d == Positive(snap.used - s.mem.last)
         IN  /\ g \in Cycle /\ d \in Nat
             /\ g.start = c.start /\ g.resets = c.resets /\ g.period = c.period
             /\ g.delta = c.delta + d
<1>1. s.mem.last \in Nat
  BY DEF Books, Memory
<1>2. Positive(snap.used - s.mem.last) \in Nat
  BY <1>1, PositiveIs DEF Snapshots
<1>3. Larger(c.peak, snap.used) \in Nat
  BY DEF Larger, Cycle, Snapshots
<1>4. c.delta + Positive(snap.used - s.mem.last) \in Nat
  BY <1>2 DEF Cycle
<1> QED  BY <1>2, <1>3, <1>4 DEF Grown, Cycle

LEMMA RememberBook ==
  ASSUME NEW s \in Books, NEW snap \in Snapshots
  PROVE  LET t == Remember(s, snap)
         IN  /\ t \in Books /\ t.active = s.active /\ t.history = s.history
             /\ t.mem.has = s.mem.has /\ t.mem.pending = s.mem.pending
             /\ Moved(s, t, snap)
BY DEF Remember, Books, Memory, Snapshots, Moved

LEMMA OpenCycleEffect ==
  ASSUME NEW s \in Books, s.active = None, NEW snap \in Snapshots, NEW fail
  PROVE  LET r == OpenCycle(s, snap, fail)
         IN  /\ r \in Results /\ r.st.history = s.history
             /\ r.st.mem.has = s.mem.has /\ r.st.mem.pending = s.mem.pending
             /\ Opening(s, r, snap)
             /\ fail = "none" => r.ok
<1> DEFINE row == [start |-> snap.at, resets |-> snap.resets, peak |-> 0, delta |-> 0,
                   period |-> snap.period]
           created == CreateCycle(s, snap)
           whole == UpdateCycle(created, [created.active EXCEPT !.peak = snap.used])
           r == OpenCycle(s, snap, fail)
<1>1. row \in Cycle /\ Opened(row, snap)
  BY DEF Cycle, Snapshots, Opened
<1>2. /\ created \in Books /\ created.active = row /\ created.history = s.history
      /\ created.mem = s.mem
  BY <1>1 DEF CreateCycle, Books
<1>3. /\ [row EXCEPT !.peak = snap.used] \in Cycle
      /\ Opened([row EXCEPT !.peak = snap.used], snap)
  BY <1>1 DEF Cycle, Snapshots, Opened
<1>4. /\ whole \in Books /\ whole.active = [row EXCEPT !.peak = snap.used]
      /\ whole.history = s.history /\ whole.mem = s.mem
  BY <1>2, <1>3 DEF UpdateCycle, Books
<1> HIDE DEF row, whole, created
<1>5. CASE fail = "create"
  <2>1. r = [st |-> s, ok |-> FALSE]
    BY <1>5 DEF OpenCycle, Result
  <2>2. r \in Results /\ r.st = s /\ ~r.ok
    BY <2>1 DEF Results
  <2> HIDE DEF r
  <2>3. Opening(s, r, snap)
    BY <2>2 DEF Opening, Unmoved
  <2> QED  BY <1>5, <2>2, <2>3 DEF r
<1>6. CASE fail = "update"
  <2>1. r = [st |-> created, ok |-> FALSE]
    BY <1>6 DEF OpenCycle, Result, created
  <2>2. r \in Results /\ r.st = created /\ ~r.ok
    BY <1>2, <2>1 DEF Results
  <2> HIDE DEF r
  <2>3. Opening(s, r, snap)
    BY <1>1, <1>2, <2>2 DEF Opening, Unmoved
  <2> QED  BY <1>2, <1>6, <2>2, <2>3 DEF r
<1>7. CASE fail # "create" /\ fail # "update"
  <2> DEFINE t == Remember(whole, snap)
  <2>1. r = [st |-> t, ok |-> TRUE]
    BY <1>7 DEF OpenCycle, Result, whole, created
  <2>2. /\ t \in Books /\ t.active = whole.active /\ t.history = whole.history
        /\ t.mem.has = whole.mem.has /\ t.mem.pending = whole.mem.pending
        /\ Moved(whole, t, snap)
    BY <1>4, RememberBook
  <2> HIDE DEF t
  <2>3. r \in Results /\ r.st = t /\ r.ok
    BY <2>1, <2>2 DEF Results
  <2> HIDE DEF r
  <2>4. Opening(s, r, snap)
    BY <1>3, <1>4, <2>2, <2>3 DEF Opening, Moved
  <2> QED  BY <1>4, <2>2, <2>3, <2>4 DEF r
<1> QED  BY <1>5, <1>6, <1>7

LEMMA CycleEndIs ==
  ASSUME NEW c \in Cycle, NEW snap \in Snapshots
  PROVE  /\ CycleEnd(c, snap) \in Nat /\ CycleEnd(c, snap) <= snap.at
         /\ (c.start <= snap.at /\ (c.resets # None => c.start <= c.resets)) =>
              c.start <= CycleEnd(c, snap)
BY NoneIs DEF CycleEnd, Cycle, Snapshots

\* Close with a final count: the row is not closed, or it is and a cycle is opened.
LEMMA CloseEffect ==
  ASSUME NEW s \in Books, s.active # None, NEW snap \in Snapshots, NEW fail,
         NEW final \in Cycle, NEW d \in Nat, Gain(s, snap, d),
         final.delta = s.active.delta + d, final.resets = s.active.resets
  PROVE  LET r == Close(s, final, snap, fail)
         IN  /\ r \in Results /\ r.st.mem.has = s.mem.has /\ r.st.mem.pending = None
             /\ \/ ~r.ok /\ Untouched(s, r.st)
                \/ Reopened(s, r, snap)
             /\ fail = "none" => r.ok
<1> DEFINE unpended == [s EXCEPT !.mem.pending = None]
           closed == CloseCycle(unpended, CycleEnd(final, snap), final)
           r == Close(s, final, snap, fail)
<1>1. /\ unpended \in Books /\ unpended.active = s.active /\ unpended.history = s.history
      /\ unpended.mem.has = s.mem.has /\ unpended.mem.pending = None /\ Unmoved(s, unpended)
  BY DEF Books, Memory, Unmoved
<1>2. CASE fail = "close"
  <2>1. r = [st |-> unpended, ok |-> FALSE]
    BY <1>2 DEF Close, Result
  <2> HIDE DEF unpended
  <2>2. r \in Results /\ r.st = unpended /\ ~r.ok
    BY <1>1, <2>1 DEF Results
  <2> HIDE DEF r
  <2>3. Untouched(s, r.st)
    BY <1>1, <2>2 DEF Untouched, Unmoved
  <2> QED  BY <1>1, <1>2, <2>2, <2>3 DEF r
<1>3. CASE fail # "close"
  <2>1. r = OpenCycle(closed, snap, fail)
    BY <1>3 DEF Close
  <2> HIDE DEF unpended
  <2>2. CycleEnd(final, snap) = CycleEnd(s.active, snap) /\ CycleEnd(final, snap) \in Nat
    BY CycleEndIs DEF CycleEnd
  <2>3. s.history.tracked + final.delta \in Nat /\ s.history.count + 1 \in Nat
    BY DEF Books, Cycle
  <2>4. closed.history = [count |-> s.history.count + 1, tracked |-> s.history.tracked + final.delta,
                          end |-> CycleEnd(final, snap)]
    BY <1>1 DEF CloseCycle, Books
  <2>5. closed \in Books /\ closed.active = None /\ closed.mem = unpended.mem
    BY <1>1, <2>2, <2>3 DEF CloseCycle, Books
  <2>6. s.history.tracked + final.delta = s.history.tracked + s.active.delta + d
    BY DEF Books, Cycle
  <2> HIDE DEF closed
  <2>7. /\ r \in Results /\ r.st.history = closed.history
        /\ r.st.mem.has = closed.mem.has /\ r.st.mem.pending = closed.mem.pending
        /\ Opening(closed, r, snap)
        /\ fail = "none" => r.ok
    BY <2>1, <2>5, OpenCycleEffect
  <2> HIDE DEF r
  <2>8. Ended(s, snap, d, r.st)
    BY <2>2, <2>4, <2>6, <2>7 DEF Ended
  <2>9. Opening(s, r, snap)
    BY <1>1, <2>5, <2>7 DEF Opening, Unmoved, Moved
  <2> QED  BY <1>1, <2>5, <2>7, <2>8, <2>9 DEF Reopened, r
<1> QED  BY <1>2, <1>3

LEMMA UpdateEffect ==
  ASSUME NEW s \in Books, NEW next \in Cycle, NEW written \in BOOLEAN,
         NEW snap \in Snapshots, NEW fail
  PROVE  LET r == Update(s, next, written, snap, fail)
         IN  /\ r \in Results /\ r.st.mem.has = s.mem.has /\ r.st.mem.pending = s.mem.pending
             /\ r.st.history = s.history
             /\ \/ ~r.ok /\ r.st = s
                \/ r.ok /\ r.st.active = next /\ Moved(s, r.st, snap)
             /\ fail = "none" => r.ok
<1> DEFINE updated == UpdateCycle(s, next)
           t == Remember(updated, snap)
           r == Update(s, next, written, snap, fail)
<1>1. /\ updated \in Books /\ updated.active = next /\ updated.history = s.history
      /\ updated.mem = s.mem
  BY DEF UpdateCycle, Books
<1> HIDE DEF updated
<1>2. /\ t \in Books /\ t.active = next /\ t.history = s.history
      /\ t.mem.has = s.mem.has /\ t.mem.pending = s.mem.pending
      /\ Moved(updated, t, snap)
  BY <1>1, RememberBook
<1>3. Moved(s, t, snap)
  BY <1>1, <1>2 DEF Moved
<1> HIDE DEF t
<1>4. CASE written /\ fail = "update"
  <2>1. r = [st |-> s, ok |-> FALSE]
    BY <1>4 DEF Update, Result
  <2>2. r \in Results /\ r.st = s /\ ~r.ok
    BY <2>1 DEF Results
  <2> HIDE DEF r
  <2> QED  BY <1>4, <2>2 DEF r
<1>5. CASE ~(written /\ fail = "update")
  <2>1. r = [st |-> t, ok |-> TRUE]
    BY <1>5 DEF Update, Result, t, updated
  <2>2. r \in Results /\ r.st = t /\ r.ok
    BY <1>2, <2>1 DEF Results
  <2> HIDE DEF r
  <2> QED  BY <1>2, <1>3, <2>2 DEF r
<1> QED  BY <1>4, <1>5

LEMMA PeakCycle ==
  ASSUME NEW c \in Cycle, NEW snap \in Snapshots
  PROVE  LET h == [c EXCEPT !.peak = Larger(@, snap.used)]
         IN  /\ h \in Cycle /\ h.start = c.start /\ h.resets = c.resets
             /\ h.period = c.period /\ h.delta = c.delta
BY DEF Larger, Cycle, Snapshots

\* An update that gives the cycle a gain or only a peak.
LEMMA UpdateStays ==
  ASSUME NEW s \in Books, s.active # None, NEW next \in Cycle, NEW written \in BOOLEAN,
         NEW snap \in Snapshots, NEW fail, NEW d \in Nat, Gain(s, snap, d),
         next.start = s.active.start, next.period = s.active.period,
         next.resets = s.active.resets, next.delta = s.active.delta + d
  PROVE  LET r == Update(s, next, written, snap, fail)
         IN  /\ r \in Results /\ r.st.mem.has = s.mem.has /\ r.st.mem.pending = s.mem.pending
             /\ r.st.history = s.history
             /\ Stayed(s, r, snap)
             /\ fail = "none" => r.ok
<1> DEFINE r == Update(s, next, written, snap, fail)
<1>1. /\ r \in Results /\ r.st.mem.has = s.mem.has /\ r.st.mem.pending = s.mem.pending
      /\ r.st.history = s.history
      /\ \/ ~r.ok /\ r.st = s
         \/ r.ok /\ r.st.active = next /\ Moved(s, r.st, snap)
      /\ fail = "none" => r.ok
  BY UpdateEffect
<1> HIDE DEF r
<1>2. Stayed(s, r, snap)
  BY <1>1 DEF Stayed
<1> QED  BY <1>1, <1>2 DEF r

LEMMA StayEffect ==
  ASSUME NEW s \in Books, s.active # None, NEW snap \in Snapshots, NEW fail
  PROVE  LET r == Stay(s, snap, fail)
         IN  /\ r \in Results /\ r.st.mem.has = s.mem.has /\ r.st.mem.pending = s.mem.pending
             /\ r.st.history = s.history
             /\ Stayed(s, r, snap)
             /\ fail = "none" => r.ok
<1> DEFINE c == s.active
           grown == Grown(s, c, snap)
           higher == [c EXCEPT !.peak = Larger(@, snap.used)]
           d == Positive(snap.used - s.mem.last)
           changed == higher # c
<1>1. c \in Cycle
  BY DEF Books
<1>2. CASE Known(s)
  <2>1. /\ grown \in Cycle /\ d \in Nat
        /\ grown.start = c.start /\ grown.resets = c.resets /\ grown.period = c.period
        /\ grown.delta = c.delta + d
    BY <1>1, <1>2, GrownCycle DEF Known
  <2>2. Gain(s, snap, d)
    BY <1>2 DEF Gain, Known
  <2>3. Stay(s, snap, fail) = Update(s, grown, TRUE, snap, fail)
    BY <1>2 DEF Stay
  <2> DEFINE always == TRUE
             r == Update(s, grown, always, snap, fail)
  <2>4. always \in BOOLEAN
    OBVIOUS
  <2>5. Stay(s, snap, fail) = r
    BY <2>3
  <2> HIDE DEF grown, d, always
  <2>6. /\ r \in Results /\ r.st.mem.has = s.mem.has /\ r.st.mem.pending = s.mem.pending
        /\ r.st.history = s.history
        /\ Stayed(s, r, snap)
        /\ fail = "none" => r.ok
    BY <2>1, <2>2, <2>4, UpdateStays
  <2> HIDE DEF r
  <2> QED  BY <2>5, <2>6
<1>3. CASE ~Known(s)
  <2>1. /\ higher \in Cycle /\ higher.start = c.start /\ higher.resets = c.resets
        /\ higher.period = c.period /\ higher.delta = c.delta + 0
    BY <1>1, PeakCycle DEF Cycle
  <2>2. Gain(s, snap, 0)
    BY DEF Gain
  <2>3. Stay(s, snap, fail) = Update(s, higher, changed, snap, fail)
    BY <1>3 DEF Stay
  <2>4. changed \in BOOLEAN
    OBVIOUS
  <2> DEFINE r == Update(s, higher, changed, snap, fail)
  <2> HIDE DEF higher, changed
  <2>5. /\ r \in Results /\ r.st.mem.has = s.mem.has /\ r.st.mem.pending = s.mem.pending
        /\ r.st.history = s.history
        /\ Stayed(s, r, snap)
        /\ fail = "none" => r.ok
    BY <2>1, <2>2, <2>4, 0 \in Nat, UpdateStays
  <2> HIDE DEF r
  <2> QED  BY <2>3, <2>5 DEF r
<1> QED  BY <1>2, <1>3

\* When the cycle goes on, a rolling end is written to it first.
LEMMA StayRollingEffect ==
  ASSUME NEW s \in Books, s.active # None, NEW snap \in Snapshots, NEW fail, kind \in Rolling
  PROVE  LET r == StayRolling(s, snap, fail)
         IN  /\ r \in Results /\ r.st.mem.has = s.mem.has /\ r.st.mem.pending = None
             /\ (Untouched(s, r.st) /\ ~r.ok) \/ Continued(s, r, snap)
             /\ fail = "none" => r.ok
<1> DEFINE moved == IF snap.resets = None THEN s
                    ELSE [s EXCEPT !.active.resets = snap.resets, !.mem.reset = snap.resets]
           kept == [moved EXCEPT !.mem.pending = None]
           r == StayRolling(s, snap, fail)
           unpended == [s EXCEPT !.mem.pending = None]
<1>1. /\ moved \in Books /\ moved.history = s.history /\ moved.active \in Cycle
      /\ moved.active.start = s.active.start /\ moved.active.period = s.active.period
      /\ moved.active.delta = s.active.delta
      /\ moved.active.resets = IF snap.resets # None THEN snap.resets ELSE s.active.resets
      /\ moved.mem.reset = IF snap.resets # None THEN snap.resets ELSE s.mem.reset
      /\ moved.mem.last = s.mem.last /\ moved.mem.has = s.mem.has
  <2>1. CASE snap.resets = None
    BY <2>1 DEF Books
  <2>2. CASE snap.resets # None
    <3>1. s.active \in Cycle /\ s.mem \in Memory /\ snap.resets \in Nat
      BY <2>2 DEF Books, Snapshots
    <3>2. [s.active EXCEPT !.resets = snap.resets] \in Cycle
      BY <3>1 DEF Cycle
    <3>3. [s.mem EXCEPT !.reset = snap.resets] \in Memory
      BY <3>1 DEF Memory
    <3>4. /\ moved.active = [s.active EXCEPT !.resets = snap.resets]
          /\ moved.mem = [s.mem EXCEPT !.reset = snap.resets]
          /\ moved.history = s.history /\ moved \in Books
      BY <2>2, <3>2, <3>3 DEF Books
    <3> HIDE DEF moved
    <3> QED  BY <2>2, <3>1, <3>2, <3>3, <3>4 DEF Cycle, Memory
  <2> QED  BY <2>1, <2>2
<1> HIDE DEF moved
<1>2. /\ kept \in Books /\ kept.history = s.history /\ kept.active = moved.active
      /\ kept.mem.reset = moved.mem.reset /\ kept.mem.pending = None
      /\ kept.mem.last = s.mem.last /\ kept.mem.has = s.mem.has
  BY <1>1 DEF Books, Memory
<1> HIDE DEF kept
<1>3. kept.active # None
  BY <1>1, <1>2, NoneIs
<1>4. ASSUME NEW q, q \in Results, q.st.mem.has = kept.mem.has, q.st.mem.pending = kept.mem.pending,
             q.st.history = kept.history, Stayed(kept, q, snap)
      PROVE  /\ q.st.mem.has = s.mem.has /\ q.st.mem.pending = None
             /\ Continued(s, q, snap)
  <2>1. CASE ~q.ok /\ q.st = kept
    BY <1>1, <1>2, <2>1, <1>4 DEF Continued
  <2>2. CASE /\ q.ok /\ Moved(kept, q.st, snap)
             /\ q.st.active \in Cycle
             /\ q.st.active.start = kept.active.start /\ q.st.active.period = kept.active.period
             /\ q.st.active.resets = kept.active.resets
             /\ \E d \in Nat : Gain(kept, snap, d) /\ q.st.active.delta = kept.active.delta + d
    <3>1. Moved(s, q.st, snap)
      BY <1>1, <1>2, <2>2 DEF Moved
    <3>2. \E d \in Nat : Gain(s, snap, d) /\ q.st.active.delta = s.active.delta + d
      BY <1>1, <1>2, <2>2 DEF Gain
    <3> QED  BY <1>1, <1>2, <1>4, <2>2, <3>1, <3>2 DEF Continued
  <2> QED  BY <2>1, <2>2, <1>4 DEF Stayed
<1>5. CASE fail = "resets"
  <2>1. r = [st |-> unpended, ok |-> FALSE]
    BY <1>5 DEF StayRolling, Result
  <2>2. /\ unpended \in Books /\ unpended.active = s.active /\ unpended.history = s.history
        /\ unpended.mem.has = s.mem.has /\ unpended.mem.pending = None /\ Unmoved(s, unpended)
    BY DEF Books, Memory, Unmoved
  <2> HIDE DEF unpended
  <2>3. r \in Results /\ r.st = unpended /\ ~r.ok
    BY <2>1, <2>2 DEF Results
  <2> HIDE DEF r
  <2>4. Untouched(s, r.st)
    BY <2>2, <2>3 DEF Untouched, Unmoved
  <2> QED  BY <1>5, <2>2, <2>3, <2>4 DEF r
<1>6. CASE fail # "resets" /\ s.mem.has /\ ~Known(s)
  <2> DEFINE never == FALSE
             c == kept.active
             q == Update(kept, c, never, snap, fail)
  <2>1. r = q
    BY <1>6 DEF StayRolling, kept, moved
  <2>2. Gain(kept, snap, 0) /\ c.delta = c.delta + 0 /\ c \in Cycle
    BY <1>1, <1>2 DEF Gain, Cycle
  <2>3. never \in BOOLEAN
    OBVIOUS
  <2> HIDE DEF never
  <2>4. /\ q \in Results /\ q.st.mem.has = kept.mem.has /\ q.st.mem.pending = kept.mem.pending
        /\ q.st.history = kept.history
        /\ Stayed(kept, q, snap)
        /\ fail = "none" => q.ok
    BY <1>2, <1>3, <2>2, <2>3, 0 \in Nat, UpdateStays
  <2> HIDE DEF q, r
  <2>5. /\ q.st.mem.has = s.mem.has /\ q.st.mem.pending = None
        /\ Continued(s, q, snap)
    BY <1>4, <2>4
  <2> QED  BY <2>1, <2>4, <2>5 DEF r
<1>7. CASE fail # "resets" /\ ~(s.mem.has /\ ~Known(s))
  <2> DEFINE q == Stay(kept, snap, fail)
  <2>1. r = q
    BY <1>7 DEF StayRolling, kept, moved
  <2>2. /\ q \in Results /\ q.st.mem.has = kept.mem.has /\ q.st.mem.pending = kept.mem.pending
        /\ q.st.history = kept.history
        /\ Stayed(kept, q, snap)
        /\ fail = "none" => q.ok
    BY <1>2, <1>3, StayEffect
  <2> HIDE DEF q, r
  <2>3. /\ q.st.mem.has = s.mem.has /\ q.st.mem.pending = None
        /\ Continued(s, q, snap)
    BY <1>4, <2>2
  <2> QED  BY <2>1, <2>2, <2>3 DEF r
<1> QED  BY <1>5, <1>6, <1>7

\* Closing with the cycle as it stands, and with the last gain.
LEMMA ClosePlain ==
  ASSUME NEW s \in Books, s.active # None, NEW snap \in Snapshots, NEW fail
  PROVE  LET r == Close(s, s.active, snap, fail)
         IN  /\ r \in Results /\ r.st.mem.has = s.mem.has
             /\ Turned(s, r, snap) /\ (fail = "none" => r.ok)
<1> DEFINE final == s.active
           r == Close(s, final, snap, fail)
<1>1. final \in Cycle
  BY DEF Books
<1>2. Gain(s, snap, 0) /\ final.delta = s.active.delta + 0 /\ final.resets = s.active.resets
  BY <1>1 DEF Gain, Cycle
<1>3. /\ r \in Results /\ r.st.mem.has = s.mem.has /\ r.st.mem.pending = None
      /\ \/ ~r.ok /\ Untouched(s, r.st)
         \/ Reopened(s, r, snap)
      /\ fail = "none" => r.ok
  BY <1>1, <1>2, 0 \in Nat, CloseEffect
<1> HIDE DEF r
<1> QED  BY <1>3 DEF r, Turned

LEMMA CloseWithGain ==
  ASSUME NEW s \in Books, s.active # None, NEW snap \in Snapshots, NEW fail, Known(s),
         NEW final \in Cycle, final.resets = s.active.resets,
         final.delta = Grown(s, s.active, snap).delta
  PROVE  LET r == Close(s, final, snap, fail)
         IN  /\ r \in Results /\ r.st.mem.has = s.mem.has
             /\ Turned(s, r, snap) /\ (fail = "none" => r.ok)
<1> DEFINE r == Close(s, final, snap, fail)
           d == Positive(snap.used - s.mem.last)
<1>1. d \in Nat /\ final.delta = s.active.delta + d
  <2>1. s.active \in Cycle
    BY DEF Books
  <2> QED  BY <2>1, GrownCycle DEF Known
<1>2. Gain(s, snap, d)
  BY DEF Gain, Known
<1> HIDE DEF d
<1>3. /\ r \in Results /\ r.st.mem.has = s.mem.has /\ r.st.mem.pending = None
      /\ \/ ~r.ok /\ Untouched(s, r.st)
         \/ Reopened(s, r, snap)
      /\ fail = "none" => r.ok
  BY <1>1, <1>2, CloseEffect
<1> HIDE DEF r
<1> QED  BY <1>3 DEF r, Turned

LEMMA CloseGrownEffect ==
  ASSUME NEW s \in Books, s.active # None, NEW snap \in Snapshots, NEW fail
  PROVE  LET r == CloseGrown(s, snap, fail)
         IN  /\ r \in Results /\ r.st.mem.has = s.mem.has
             /\ Turned(s, r, snap) /\ (fail = "none" => r.ok)
<1> DEFINE grown == Grown(s, s.active, snap)
<1>1. CASE Known(s)
  <2>1. CloseGrown(s, snap, fail) = Close(s, grown, snap, fail)
    BY <1>1 DEF CloseGrown
  <2>2. s.active \in Cycle
    BY DEF Books
  <2>3. grown \in Cycle /\ grown.resets = s.active.resets
    BY <1>1, <2>2, GrownCycle DEF Known
  <2>4. grown.delta = Grown(s, s.active, snap).delta
    OBVIOUS
  <2> HIDE DEF grown
  <2> QED  BY <1>1, <2>1, <2>3, <2>4, CloseWithGain
<1>2. CASE ~Known(s)
  <2>1. CloseGrown(s, snap, fail) = Close(s, s.active, snap, fail)
    BY <1>2 DEF CloseGrown
  <2> QED  BY <2>1, ClosePlain
<1> QED  BY <1>1, <1>2

LEMMA CloseSynthetic ==
  ASSUME NEW s \in Books, s.active # None, NEW snap \in Snapshots, NEW fail
  PROVE  LET c == s.active
             r == Close(s, IF Known(s) THEN [c EXCEPT !.delta = Grown(s, c, snap).delta] ELSE c, snap, fail)
         IN  /\ r \in Results /\ r.st.mem.has = s.mem.has
             /\ Turned(s, r, snap) /\ (fail = "none" => r.ok)
<1> DEFINE c == s.active
           gain == Grown(s, c, snap).delta
           final == [c EXCEPT !.delta = gain]
<1>1. c \in Cycle
  BY DEF Books
<1>2. CASE Known(s)
  <2>1. gain \in Nat
    BY <1>1, <1>2, GrownCycle DEF Known, Cycle
  <2>2. final \in Cycle /\ final.resets = c.resets /\ final.delta = gain
    BY <1>1, <2>1 DEF Cycle
  <2> HIDE DEF final
  <2>3. LET r == Close(s, final, snap, fail)
        IN  /\ r \in Results /\ r.st.mem.has = s.mem.has
            /\ Turned(s, r, snap) /\ (fail = "none" => r.ok)
    BY <1>2, <2>2, CloseWithGain
  <2> QED  BY <1>2, <2>3 DEF final
<1>3. CASE ~Known(s)
  BY <1>3, ClosePlain
<1> QED  BY <1>2, <1>3

LEMMA StayOngoing ==
  ASSUME NEW s \in Books, s.active # None, NEW snap \in Snapshots, kind \notin Rolling,
         NEW r \in Results, r.st.mem.pending = s.mem.pending, r.st.history = s.history,
         Stayed(s, r, snap)
  PROVE  Ongoing(s, r, snap)
<1>1. CASE ~r.ok /\ r.st = s
  BY <1>1 DEF Ongoing, Untouched, Unmoved
<1>2. CASE r.ok
  BY <1>2 DEF Ongoing, Stayed, Continued
<1> QED  BY <1>1, <1>2 DEF Stayed

LEMMA MiniMaxStays ==
  ASSUME NEW s \in Books, s.active # None, NEW snap \in Snapshots, NEW fail, kind \notin Rolling
  PROVE  LET c == s.active
             higher == [c EXCEPT !.peak = Larger(@, snap.used)]
             r == Update(s, IF Known(s) THEN Grown(s, c, snap) ELSE higher, TRUE, snap, fail)
         IN  /\ r \in Results /\ r.st.mem.has = s.mem.has
             /\ Ongoing(s, r, snap) /\ (fail = "none" => r.ok)
<1> DEFINE c == s.active
           higher == [c EXCEPT !.peak = Larger(@, snap.used)]
           grown == Grown(s, c, snap)
           next == IF Known(s) THEN grown ELSE higher
           always == TRUE
           r == Update(s, next, always, snap, fail)
<1>1. c \in Cycle /\ always \in BOOLEAN
  BY DEF Books
<1>2. \E d \in Nat : /\ next \in Cycle /\ Gain(s, snap, d)
                    /\ next.start = c.start /\ next.period = c.period
                    /\ next.resets = c.resets /\ next.delta = c.delta + d
  <2>1. CASE Known(s)
    <3> DEFINE d == Positive(snap.used - s.mem.last)
    <3>1. /\ grown \in Cycle /\ d \in Nat
          /\ grown.start = c.start /\ grown.resets = c.resets /\ grown.period = c.period
          /\ grown.delta = c.delta + d
      BY <1>1, <2>1, GrownCycle DEF Known
    <3>2. Gain(s, snap, d)
      BY <2>1 DEF Gain, Known
    <3> HIDE DEF d, grown
    <3> QED  BY <2>1, <3>1, <3>2
  <2>2. CASE ~Known(s)
    <3>1. /\ higher \in Cycle /\ higher.start = c.start /\ higher.resets = c.resets
          /\ higher.period = c.period /\ higher.delta = c.delta
      BY <1>1, PeakCycle
    <3>2. Gain(s, snap, 0) /\ c.delta + 0 = c.delta
      BY <1>1 DEF Gain, Cycle
    <3> HIDE DEF higher
    <3> QED  BY <2>2, <3>1, <3>2, 0 \in Nat
  <2> QED  BY <2>1, <2>2
<1> HIDE DEF next, always
<1>3. /\ r \in Results /\ r.st.mem.has = s.mem.has /\ r.st.mem.pending = s.mem.pending
      /\ r.st.history = s.history
      /\ Stayed(s, r, snap)
      /\ fail = "none" => r.ok
  BY <1>1, <1>2, UpdateStays
<1> HIDE DEF r
<1>4. Ongoing(s, r, snap)
  BY <1>3, StayOngoing
<1> QED  BY <1>3, <1>4 DEF r, next, always

\* what a tracker does while a cycle is active
LEMMA TrackerEffect ==
  ASSUME NEW s \in Books, s.active # None, NEW snap \in Snapshots, NEW fail, fail # "query",
         kind \in Kinds
  PROVE  LET r == ProcessQuota(s, snap, fail)
         IN  /\ r \in Results /\ r.st.mem.has = s.mem.has
             /\ Processed(s, r, snap)
             /\ fail = "none" => r.ok
<1> DEFINE c == s.active
           r == ProcessQuota(s, snap, fail)
           stays == Stay(s, snap, fail)
           grown == CloseGrown(s, snap, fail)
           plain == Close(s, s.active, snap, fail)
<1>1. /\ grown \in Results /\ grown.st.mem.has = s.mem.has
      /\ Turned(s, grown, snap) /\ (fail = "none" => grown.ok)
  BY CloseGrownEffect
<1>2. /\ plain \in Results /\ plain.st.mem.has = s.mem.has
      /\ Turned(s, plain, snap) /\ (fail = "none" => plain.ok)
  BY ClosePlain
<1>3. /\ stays \in Results /\ stays.st.mem.has = s.mem.has
      /\ kind \notin Rolling => Ongoing(s, stays, snap)
      /\ fail = "none" => stays.ok
  <2>1. /\ stays \in Results /\ stays.st.mem.has = s.mem.has /\ stays.st.mem.pending = s.mem.pending
        /\ stays.st.history = s.history
        /\ Stayed(s, stays, snap)
        /\ fail = "none" => stays.ok
    BY StayEffect
  <2> HIDE DEF stays
  <2> QED  BY <2>1, StayOngoing
<1> HIDE DEF stays, grown, plain
<1>4. kind \in Stored \cup Remembering \cup Rolling \cup Hourly \cup Valued
  BY CyclesConstants
<1>5. CASE kind \in {"synthetic", "search"}
  <2> DEFINE final == IF Known(s) THEN [c EXCEPT !.delta = Grown(s, c, snap).delta] ELSE c
             turns == Close(s, final, snap, fail)
  <2>1. r = Synthetic(s, snap, fail)
    BY <1>5 DEF ProcessQuota
  <2>2. r = IF ResetSeen(s, snap) THEN turns ELSE stays
    BY <1>5, <2>1 DEF Synthetic, ResetSeen, stays, Valued
  <2>3. /\ turns \in Results /\ turns.st.mem.has = s.mem.has
        /\ Turned(s, turns, snap) /\ (fail = "none" => turns.ok)
    BY CloseSynthetic
  <2> HIDE DEF r, turns
  <2> QED  BY <1>3, <1>5, <2>2, <2>3 DEF Processed, Rolling, r
<1>6. CASE kind = "anthropic"
  <2>1. r = Anthropic(s, snap, fail)
    BY <1>6 DEF ProcessQuota
  <2>2. r = IF ResetSeen(s, snap) THEN grown ELSE stays
    BY <1>6, <2>1 DEF Anthropic, ResetSeen, stays, grown, Valued
  <2> HIDE DEF r
  <2> QED  BY <1>1, <1>2, <1>3, <1>6, <2>2 DEF Processed, Rolling, r
<1>7. CASE kind = "cursor"
  <2>1. r = Cursor(s, snap, fail)
    BY <1>7 DEF ProcessQuota
  <2>2. r = IF ResetSeen(s, snap) THEN grown ELSE stays
    BY <1>7, <2>1 DEF Cursor, ResetSeen, stays, grown, Valued
  <2> HIDE DEF r
  <2> QED  BY <1>1, <1>2, <1>3, <1>7, <2>2 DEF Processed, Rolling, r
<1>8. CASE kind = "zai_tokens"
  <2>1. r = ZaiTokens(s, snap, fail)
    BY <1>8 DEF ProcessQuota
  <2>2. r = IF ResetSeen(s, snap) THEN grown ELSE stays
    BY <1>8, <2>1 DEF ZaiTokens, ResetSeen, stays, grown, Valued
  <2> HIDE DEF r
  <2> QED  BY <1>1, <1>2, <1>3, <1>8, <2>2 DEF Processed, Rolling, r
<1>9. CASE kind = "zai_time"
  <2>1. r = ZaiTime(s, snap, fail)
    BY <1>9 DEF ProcessQuota
  <2>2. r = IF ResetSeen(s, snap) THEN plain ELSE stays
    BY <1>9, <2>1 DEF ZaiTime, ResetSeen, stays, plain, Valued
  <2> HIDE DEF r
  <2> QED  BY <1>1, <1>2, <1>3, <1>9, <2>2 DEF Processed, Rolling, r
<1>10. CASE kind = "openrouter"
  <2>1. r = OpenRouter(s, snap, fail)
    BY <1>10 DEF ProcessQuota
  <2>2. r = IF ResetSeen(s, snap) THEN plain ELSE stays
    BY <1>10, <2>1 DEF OpenRouter, ResetSeen, stays, plain, Valued
  <2> HIDE DEF r
  <2> QED  BY <1>1, <1>2, <1>3, <1>10, <2>2 DEF Processed, Rolling, r
<1>11. CASE kind = "copilot"
  <2>1. r = Copilot(s, snap, fail)
    BY <1>11 DEF ProcessQuota
  <2>2. r = IF ResetSeen(s, snap) THEN plain ELSE stays
    BY <1>11, <2>1 DEF Copilot, ResetSeen, stays, plain, Valued
  <2> HIDE DEF r
  <2> QED  BY <1>1, <1>2, <1>3, <1>11, <2>2 DEF Processed, Rolling, r
<1>12. CASE kind = "minimax"
  <2> DEFINE higher == [c EXCEPT !.peak = Larger(@, snap.used)]
             updates == Update(s, IF Known(s) THEN Grown(s, c, snap) ELSE higher, TRUE, snap, fail)
  <2>1. r = MiniMax(s, snap, fail)
    BY <1>12 DEF ProcessQuota
  <2>2. r = IF ResetSeen(s, snap) THEN plain ELSE updates
    BY <1>12, <2>1 DEF MiniMax, ResetSeen, plain, Valued
  <2>3. /\ updates \in Results /\ updates.st.mem.has = s.mem.has
        /\ Ongoing(s, updates, snap) /\ (fail = "none" => updates.ok)
    BY <1>12, MiniMaxStays DEF Rolling
  <2> HIDE DEF r, updates
  <2> QED  BY <1>2, <1>12, <2>2, <2>3 DEF Processed, Rolling, r
<1>13. CASE kind = "antigravity"
  <2>1. r = Antigravity(s, snap, fail)
    BY <1>13 DEF ProcessQuota
  <2>2. r = IF ResetSeen(s, snap) THEN plain ELSE stays
    BY <1>13, <2>1 DEF Antigravity, ResetSeen, stays, plain, Valued
  <2> HIDE DEF r
  <2> QED  BY <1>1, <1>2, <1>3, <1>13, <2>2 DEF Processed, Rolling, r
<1>14. CASE kind \in Rolling
  <2> DEFINE rolls == StayRolling(s, snap, fail)
  <2>1. /\ rolls \in Results /\ rolls.st.mem.has = s.mem.has
        /\ Ongoing(s, rolls, snap)
        /\ fail = "none" => rolls.ok
    <3>1. /\ rolls \in Results /\ rolls.st.mem.has = s.mem.has /\ rolls.st.mem.pending = None
          /\ (Untouched(s, rolls.st) /\ ~rolls.ok) \/ Continued(s, rolls, snap)
          /\ fail = "none" => rolls.ok
      BY <1>14, StayRollingEffect
    <3> HIDE DEF rolls
    <3> QED  BY <1>14, <3>1 DEF Ongoing
  <2>2. CASE kind = "gemini"
    <3>1. r = Gemini(s, snap, fail)
      BY <2>2 DEF ProcessQuota
    <3>2. r = IF ResetSeen(s, snap) THEN grown ELSE rolls
      BY <2>2, <3>1 DEF Gemini, ResetSeen, grown, Valued
    <3> HIDE DEF r, rolls
    <3> QED  BY <1>1, <2>1, <2>2, <3>2 DEF Processed, r
  <2>3. CASE kind = "codex"
    <3> DEFINE pends == [s EXCEPT !.mem.pending = [resets |-> snap.resets, used |-> snap.used]]
    <3>1. r = Codex(s, snap, fail)
      BY <2>3 DEF ProcessQuota
    <3>2. ResetSeen(s, snap) <=> Passed(c, snap) \/ (Candidate(s, snap) /\ ConfirmCodexReset(s, snap))
      BY <2>3 DEF ResetSeen, Valued
    <3>3. CASE ResetSeen(s, snap)
      <4>1. r = grown
        BY <3>1, <3>2, <3>3 DEF Codex, grown
      <4> HIDE DEF r
      <4> QED  BY <1>1, <3>3, <4>1 DEF Processed, r
    <3>4. CASE ~ResetSeen(s, snap) /\ ~Candidate(s, snap)
      <4>1. r = rolls
        BY <3>1, <3>2, <3>4 DEF Codex
      <4> HIDE DEF r, rolls
      <4> QED  BY <2>1, <3>4, <4>1 DEF Processed, r
    <3>5. CASE ~ResetSeen(s, snap) /\ Candidate(s, snap)
      <4>1. r = [st |-> pends, ok |-> TRUE]
        BY <3>1, <3>2, <3>5 DEF Codex, Result
      <4>2. snap.resets \in Nat /\ snap.used \in Nat
        BY <3>5 DEF Candidate, Shifted, Snapshots
      <4>3. /\ pends \in Books /\ pends.active = s.active /\ pends.history = s.history
            /\ pends.mem.has = s.mem.has /\ Unmoved(s, pends)
            /\ pends.mem.pending = [resets |-> snap.resets, used |-> snap.used]
        BY <4>2 DEF Books, Memory, Unmoved
      <4> HIDE DEF pends
      <4>4. r \in Results /\ r.st = pends /\ r.ok
        BY <4>1, <4>3 DEF Results
      <4> HIDE DEF r
      <4>5. Pended(s, r, snap)
        BY <2>3, <3>5, <4>3, <4>4 DEF Pended, Untouched, Unmoved
      <4> QED  BY <3>5, <4>3, <4>4, <4>5 DEF Processed, r
    <3> QED  BY <3>3, <3>4, <3>5
  <2> QED  BY <1>14, <2>2, <2>3 DEF Rolling
<1> QED  BY <1>4, <1>5, <1>6, <1>7, <1>8, <1>9, <1>10, <1>11, <1>12, <1>13, <1>14
        DEF Stored, Remembering, Hourly, Valued

LEMMA ProcessEffect ==
  ASSUME NEW s \in Books, NEW snap \in Snapshots, NEW fail, kind \in Kinds
  PROVE  LET r == ProcessQuota(s, snap, fail)
         IN  /\ r \in Results /\ r.st.mem.has = s.mem.has
             /\ Processed(s, r, snap)
             /\ fail = "none" => r.ok
<1> DEFINE r == ProcessQuota(s, snap, fail)
<1>1. CASE fail = "query"
  <2>1. r = [st |-> s, ok |-> FALSE]
    BY <1>1 DEF ProcessQuota, Result
  <2>2. r \in Results /\ r.st = s /\ ~r.ok
    BY <2>1 DEF Results
  <2> HIDE DEF r
  <2>3. Processed(s, r, snap)
    BY <2>2 DEF Processed, Untouched, Unmoved
  <2> QED  BY <1>1, <2>2, <2>3 DEF r
<1>2. CASE fail # "query" /\ s.active = None
  <2>1. r = OpenCycle(s, snap, fail)
    BY <1>2 DEF ProcessQuota
  <2>2. /\ r \in Results /\ r.st.history = s.history
        /\ r.st.mem.has = s.mem.has /\ r.st.mem.pending = s.mem.pending
        /\ Opening(s, r, snap)
        /\ fail = "none" => r.ok
    BY <1>2, <2>1, OpenCycleEffect
  <2> HIDE DEF r
  <2>3. Processed(s, r, snap)
    BY <1>2, <2>2 DEF Processed
  <2> QED  BY <2>2, <2>3 DEF r
<1>3. CASE fail # "query" /\ s.active # None
  BY <1>3, TrackerEffect
<1> QED  BY <1>1, <1>2, <1>3

-----------------------------------------------------------------------------
(* The inductive invariant. *)

\* the announced end of the running period lies ahead, by a window at most
PeriodRuns ==
  /\ provider.end # None => now < provider.end /\ provider.end <= now + Window
  /\ kind \notin Idling => provider.end # None
  /\ due => outcome = "none"

\* the open cycle was opened in the running period
Current == st.active.period = provider.period

\* a cycle shows the end of the period it was opened in; a running period ends
\* well after the end that a cycle of an older one shows
Shown ==
  st.active # None =>
    /\ st.active.start <= now
    /\ st.active.period <= provider.period
    /\ ~Current => st.active.start <= provider.since
    /\ st.active.resets # None => st.active.start <= st.active.resets
    /\ kind \in Hourly => st.active.resets = st.active.start + Window
    /\ kind \in Valued => st.active.resets = None
    /\ kind \in Rolling => st.active.resets # None
    /\ (Current /\ kind \in Rolling) => st.active.resets >= provider.end
    /\ (Current /\ kind \in Stored \cup Remembering) =>
         \/ st.active.resets = provider.end
         \/ kind \in Jittery /\ provider.end # None /\ st.active.resets = provider.end + 1
    /\ (~Current /\ kind \in Stored /\ st.active.resets # None) =>
         /\ provider.end # None => provider.end > st.active.resets + Tolerance
         /\ provider.end = None => st.active.resets <= provider.since + 1
         /\ kind = "synthetic" => st.active.resets + Window <= provider.end

\* the remembered values are those of the open cycle unless a write was lost
Remembered ==
  /\ (kind \notin Rolling /\ st.mem.last = None) => st.mem.reset = None
  /\ (st.active # None /\ Current /\ ~half) =>
       /\ st.mem.last # None => st.mem.last <= provider.used
       /\ (kind \in Remembering /\ st.mem.reset # None) => st.mem.reset = provider.end

\* only a glitch shows codex an end more than a window ahead
Glitches ==
  kind = "codex" =>
    /\ st.active = None => st.mem.pending = None
    /\ (~glitched /\ st.mem.pending # None) => st.mem.pending.resets <= now + Window
    /\ \/ /\ st.active # None => st.active.resets <= now + Window
          /\ st.mem.reset # None => st.mem.reset <= now + Window
       \/ glitched /\ st.mem.last \in {0, None}

\* the history ends before the open cycle starts
Order ==
  /\ st.history.end <= now
  /\ st.active # None => st.history.end <= st.active.start

\* the use that the cycles may count: all of it, and some again after a glitch
Countable == consumed + recounted

\* what the next snapshot will add may be counted too
UseCounted ==
  ~half =>
    /\ AllTracked(st) <= Countable
    /\ (st.active # None /\ st.mem.last # None) =>
         AllTracked(st) + Positive(provider.used - st.mem.last) <= Countable
    /\ (kind = "codex" /\ st.active # None /\ st.active.resets < provider.end) =>
         AllTracked(st) + provider.used <= Countable

\* the inductive invariant of the trackers
CyclesInv ==
  /\ CyclesTypeOK /\ PeriodRuns /\ Shown /\ Remembered /\ Glitches /\ Order /\ UseCounted
  /\ ResetIsSeen /\ SummaryMissesNothing

-----------------------------------------------------------------------------
(* The steps that take a snapshot. *)

\* the ends a snapshot can show
EndShown(e) ==
  /\ (kind \in Valued \/ (kind \notin Hourly /\ provider.end = None)) => e = None
  /\ (kind \notin Valued /\ provider.end # None) => e \in Nat /\ e >= provider.end
  /\ kind \in Hourly => e = now + Window
  /\ (kind \in Stored \cup Remembering /\ provider.end # None) =>
       e = provider.end \/ (kind \in Jittery /\ e = provider.end + 1)
  /\ (kind \in Rolling /\ provider.end # None) => e <= now + Window

\* the step that takes a snapshot, as the invariant's parts need it
Sampling(snap, q) ==
  /\ snap \in Snapshots /\ snap.at = now /\ snap.period = provider.period
  /\ q \in Results /\ q.st = st' /\ (q.ok <=> outcome' = "ok")
  /\ Processed(st, q, snap)
  /\ kind' = kind /\ now' = now /\ provider' = provider /\ consumed' = consumed
  /\ reading' = reading
  /\ recounted' \in Nat /\ recounted' >= recounted
  /\ due /\ due' = FALSE /\ outcome' \in {"ok", "error"}
  /\ half' \in BOOLEAN
  /\ half => half'
  /\ (/\ ~q.ok /\ st'.active # None /\ st'.mem.last # None
      /\ st.active = None \/ st'.history # st.history) => half'
  /\ faults' \in 0 .. MaxFaults
  /\ \/ /\ snap.used = provider.used /\ EndShown(snap.resets)
        /\ glitched' = glitched \/ (glitched' = FALSE /\ q.ok)
     \/ /\ kind = "codex" /\ ~glitched
        /\ glitched' = TRUE /\ q.ok
        /\ snap.used = 0 /\ snap.resets = now + 2 * Window
        /\ Comparable \/ recounted' = recounted + provider.used

LEMMA BooksOf == CyclesTypeOK => st \in Books
BY DEF CyclesTypeOK, Books

LEMMA ProcessStep ==
  ASSUME CyclesTypeOK, NEW snap \in Snapshots, NEW fail, Process(snap, fail)
  PROVE  \E q \in Results :
           /\ q.st = st' /\ (q.ok <=> outcome' = "ok") /\ Processed(st, q, snap)
           /\ due /\ due' = FALSE /\ outcome' \in {"ok", "error"}
           /\ half' \in BOOLEAN
           /\ half => half'
           /\ (/\ ~q.ok /\ st'.active # None /\ st'.mem.last # None
               /\ st.active = None \/ st'.history # st.history) => half'
           /\ fail = "none" => q.ok
<1> DEFINE r == ProcessQuota(st, snap, fail)
           has == [r.st EXCEPT !.mem.has = TRUE]
           ok == outcome' = "ok"
           q == [st |-> st', ok |-> ok]
<1>1. /\ r \in Results /\ r.st.mem.has = st.mem.has
      /\ Processed(st, r, snap)
      /\ fail = "none" => r.ok
  BY BooksOf, ProcessEffect DEF CyclesTypeOK
<1>2. /\ st' = IF r.ok /\ fail # "later" THEN has ELSE r.st
      /\ outcome' = IF r.ok THEN "ok" ELSE "error"
      /\ half' = (half \/ HalfOpened(r))
      /\ due /\ due' = FALSE
  BY DEF Process
<1>3. r.st \in Books /\ r.ok \in BOOLEAN
  <2> HIDE DEF r
  <2> QED  BY <1>1 DEF Results
<1>4. /\ has \in Books /\ has.active = r.st.active /\ has.history = r.st.history
      /\ has.mem.last = r.st.mem.last /\ has.mem.reset = r.st.mem.reset
      /\ has.mem.pending = r.st.mem.pending
  <2> HIDE DEF r
  <2> QED  BY <1>3 DEF Books, Memory
<1> HIDE DEF r, has
<1>5. /\ st' \in Books /\ st'.active = r.st.active /\ st'.history = r.st.history
      /\ st'.mem.last = r.st.mem.last /\ st'.mem.reset = r.st.mem.reset
      /\ st'.mem.pending = r.st.mem.pending
  BY <1>2, <1>3, <1>4
<1>6. ok = r.ok /\ ok \in BOOLEAN
  BY <1>2, <1>3
<1> HIDE DEF ok
<1>7. q \in Results /\ q.st = st' /\ q.ok = r.ok
  BY <1>5, <1>6 DEF Results
<1> HIDE DEF q
<1>8. Processed(st, q, snap)
  <2>1. Untouched(st, r.st) => Untouched(st, q.st)
    BY <1>5, <1>7 DEF Untouched, Unmoved
  <2>2. Opening(st, r, snap) => Opening(st, q, snap)
    BY <1>5, <1>7 DEF Opening, Unmoved, Moved
  <2>3. Reopened(st, r, snap) => Reopened(st, q, snap)
    BY <1>5, <1>7, <2>2 DEF Reopened, Ended
  <2>4. Continued(st, r, snap) => Continued(st, q, snap)
    BY <1>5, <1>7 DEF Continued, Moved
  <2> QED  BY <1>1, <1>5, <1>7, <2>1, <2>2, <2>3, <2>4
           DEF Processed, Turned, Ongoing, Pended
<1>9. /\ half' \in BOOLEAN
      /\ half => half'
      /\ (/\ ~q.ok /\ st'.active # None /\ st'.mem.last # None
          /\ st.active = None \/ st'.history # st.history) => half'
  BY <1>2, <1>5, <1>7 DEF HalfOpened, CyclesTypeOK
<1> QED  BY <1>1, <1>2, <1>6, <1>7, <1>8, <1>9 DEF ok

LEMMA AnnouncedIs ==
  ASSUME CyclesTypeOK, PeriodRuns, NEW e \in Announced
  PROVE  EndShown(e) /\ e \in Nat \cup {None}
<1>1. now \in Nat /\ Window \in Nat /\ provider.end \in Nat \cup {None}
  BY CyclesConstants DEF CyclesTypeOK
<1>2. CASE kind \in Valued \/ (kind \notin Hourly /\ provider.end = None)
  <2>1. e = None
    <3>1. kind \notin Hourly /\ (kind \in Valued \/ provider.end = None)
      BY <1>2 DEF Hourly, Valued
    <3>2. kind \in Valued => kind \notin Jittery /\ kind # "gemini" /\ kind # "codex"
      BY DEF Valued, Jittery
    <3> QED  BY <3>1, <3>2 DEF Announced
  <2> QED  BY <1>2, <2>1 DEF EndShown, Valued, Stored, Remembering, Rolling, Hourly
<1>3. CASE kind \in Hourly
  <2>1. e = now + Window
    <3>1. kind \notin Jittery /\ kind # "gemini" /\ kind # "codex"
      BY <1>3 DEF Hourly, Jittery
    <3> QED  BY <1>3, <3>1 DEF Announced
  <2>2. provider.end # None => provider.end \in Nat /\ provider.end <= now + Window
    BY <1>1 DEF PeriodRuns
  <2> QED  BY <1>1, <1>3, <2>1, <2>2 DEF EndShown, Valued, Stored, Remembering, Rolling, Hourly
<1>4. CASE kind \notin Valued /\ kind \notin Hourly /\ provider.end # None
  <2>1. provider.end \in Nat /\ now < provider.end /\ provider.end <= now + Window
    BY <1>1, <1>4 DEF PeriodRuns
  <2>2. CASE kind \in Jittery
    <3>1. e \in {provider.end, provider.end + 1}
      BY <1>4, <2>2 DEF Announced, Jittery, Valued
    <3> QED  BY <1>1, <1>4, <2>1, <2>2, <3>1 DEF EndShown, Jittery, Rolling
  <2>3. CASE kind = "gemini"
    <3>1. e = now + Window
      BY <1>4, <2>3 DEF Announced, Jittery, Valued
    <3> QED  BY <1>1, <1>4, <2>1, <2>3, <3>1 DEF EndShown, Jittery, Rolling, Stored, Remembering
  <2>4. CASE kind = "codex"
    <3>1. e \in {provider.end, now + Window}
      BY <1>4, <2>4 DEF Announced, Jittery, Valued
    <3> QED  BY <1>1, <1>4, <2>1, <2>4, <3>1 DEF EndShown, Jittery, Rolling, Stored, Remembering
  <2>5. CASE kind \notin Jittery /\ kind # "gemini" /\ kind # "codex"
    <3>1. e = provider.end
      BY <1>4, <2>5 DEF Announced
    <3> QED  BY <1>1, <1>4, <2>1, <2>5, <3>1 DEF EndShown, Rolling
  <2> QED  BY <2>2, <2>3, <2>4, <2>5
<1> QED  BY <1>2, <1>3, <1>4

LEMMA SnapshotType ==
  ASSUME CyclesTypeOK, NEW used \in Nat, NEW resets \in Nat \cup {None}
  PROVE  LET snap == Snapshot(used, resets)
         IN  /\ snap \in Snapshots /\ snap.at = now /\ snap.period = provider.period
             /\ snap.used = used /\ snap.resets = resets
<1>1. now \in Nat /\ provider.period \in Nat
  BY CyclesConstants DEF CyclesTypeOK
<1> QED  BY <1>1 DEF Snapshot, Snapshots

LEMMA PollSampling ==
  ASSUME CyclesTypeOK, PeriodRuns, Poll \/ PollFails
  PROVE  \E snap, q : Sampling(snap, q)
<1>1. PICK resets \in Announced, fail \in Steps \cup {"later", "none"} :
        /\ Process(Snapshot(provider.used, resets), fail)
        /\ \/ fail = "none" /\ glitched' = FALSE /\ faults' = faults
           \/ faults < MaxFaults /\ faults' = faults + 1 /\ glitched' = glitched
        /\ UNCHANGED <<kind, now, provider, consumed, recounted, reading>>
  BY DEF Poll, PollFails
<1> DEFINE snap == Snapshot(provider.used, resets)
<1>2. provider.used \in Nat /\ EndShown(resets) /\ resets \in Nat \cup {None}
  BY AnnouncedIs, CyclesConstants DEF CyclesTypeOK
<1>3. /\ snap \in Snapshots /\ snap.at = now /\ snap.period = provider.period
      /\ snap.used = provider.used /\ snap.resets = resets
  BY <1>2, SnapshotType
<1>4. Process(snap, fail)
  BY <1>1
<1> HIDE DEF snap
<1>5. PICK q \in Results :
           /\ q.st = st' /\ (q.ok <=> outcome' = "ok") /\ Processed(st, q, snap)
           /\ due /\ due' = FALSE /\ outcome' \in {"ok", "error"}
           /\ half' \in BOOLEAN
           /\ half => half'
           /\ (/\ ~q.ok /\ st'.active # None /\ st'.mem.last # None
               /\ st.active = None \/ st'.history # st.history) => half'
           /\ fail = "none" => q.ok
  BY <1>3, <1>4, ProcessStep
<1>6. faults' \in 0 .. MaxFaults /\ recounted' \in Nat /\ recounted' >= recounted
  BY <1>1, CyclesConstants DEF CyclesTypeOK
<1>7. Sampling(snap, q)
  BY <1>1, <1>2, <1>3, <1>5, <1>6 DEF Sampling
<1> QED  BY <1>7

LEMMA GlitchSampling ==
  ASSUME CyclesTypeOK, Glitch
  PROVE  \E snap, q : Sampling(snap, q)
<1> DEFINE e == now + 2 * Window
           snap == Snapshot(0, e)
<1>1. e \in Nat
  BY CyclesConstants DEF CyclesTypeOK
<1>2. Process(snap, "none")
  BY DEF Glitch
<1> HIDE DEF e
<1>3. /\ snap \in Snapshots /\ snap.at = now /\ snap.period = provider.period
      /\ snap.used = 0 /\ snap.resets = e
  BY <1>1, SnapshotType
<1> HIDE DEF snap
<1>4. PICK q \in Results :
           /\ q.st = st' /\ (q.ok <=> outcome' = "ok") /\ Processed(st, q, snap)
           /\ due /\ due' = FALSE /\ outcome' \in {"ok", "error"}
           /\ half' \in BOOLEAN
           /\ half => half'
           /\ (/\ ~q.ok /\ st'.active # None /\ st'.mem.last # None
               /\ st.active = None \/ st'.history # st.history) => half'
           /\ q.ok
  BY <1>2, <1>3, ProcessStep
<1>5. faults' \in 0 .. MaxFaults
  BY DEF Glitch, CyclesTypeOK
<1>6. /\ recounted' \in Nat /\ recounted' >= recounted
      /\ Comparable \/ recounted' = recounted + provider.used
  <2>1. recounted \in Nat /\ provider.used \in Nat
    BY CyclesConstants DEF CyclesTypeOK
  <2>2. recounted' = IF Comparable THEN recounted ELSE recounted + provider.used
    BY DEF Glitch
  <2> QED  BY <2>1, <2>2
<1>7. Sampling(snap, q)
  BY <1>3, <1>4, <1>5, <1>6 DEF Sampling, Glitch, e
<1> QED  BY <1>7

\* The outcomes of a snapshot, one a disjunct, in terms of the books it leaves.
LEMMA SampleCases ==
  ASSUME NEW snap, NEW q, Sampling(snap, q)
  PROVE  \/ /\ ~q.ok /\ Untouched(st, st') /\ st'.mem.pending \in {st.mem.pending, None}
         \/ /\ st.active = None /\ st'.history = st.history /\ st'.mem.pending = st.mem.pending
            /\ Opening(st, q, snap)
         \/ /\ st.active # None /\ ResetSeen(st, snap) /\ st'.mem.pending = None
            /\ Reopened(st, q, snap)
         \/ /\ st.active # None /\ ~ResetSeen(st, snap) /\ Continued(st, q, snap)
            /\ kind = "codex" => ~Candidate(st, snap)
         \/ st.active # None /\ ~ResetSeen(st, snap) /\ Pended(st, q, snap)
BY DEF Sampling, Processed, Turned, Ongoing

LEMMA SampledType ==
  ASSUME CyclesTypeOK, NEW snap, NEW q, Sampling(snap, q)
  PROVE  CyclesTypeOK'
<1>1. st' \in Books
  BY DEF Sampling, Results
<1>2. glitched' \in BOOLEAN
  BY DEF Sampling, CyclesTypeOK
<1> QED  BY <1>1, <1>2 DEF Sampling, CyclesTypeOK, Books

LEMMA SampledShown ==
  ASSUME CyclesTypeOK, PeriodRuns, Shown, NEW snap, NEW q, Sampling(snap, q)
  PROVE  Shown'
<1>1. /\ now \in Nat /\ provider.end \in Nat \cup {None} /\ provider.period \in Nat
      /\ Window \in Nat /\ Window > 0 /\ kind \in Kinds
      /\ kind \in Stored \cup Remembering \cup Rolling \cup Hourly \cup Valued
  BY CyclesConstants DEF CyclesTypeOK
<1>2. provider.end # None => provider.end \in Nat /\ now < provider.end /\ provider.end <= now + Window
  BY <1>1 DEF PeriodRuns
<1>3. /\ kind' = kind /\ now' = now /\ provider' = provider /\ q.st = st'
      /\ snap.at = now /\ snap.period = provider.period
  BY DEF Sampling
<1>4. /\ snap.resets # None =>
           /\ snap.resets \in Nat /\ snap.resets >= now
           /\ kind \notin Hourly => provider.end # None /\ snap.resets >= provider.end
      /\ kind \in Hourly => snap.resets = now + Window
      /\ kind \in Valued => snap.resets = None
      /\ kind \in Rolling => snap.resets # None
      /\ kind \in Stored \cup Remembering =>
           \/ snap.resets = provider.end
           \/ kind \in Jittery /\ provider.end # None /\ snap.resets = provider.end + 1
  <2>1. CASE snap.used = provider.used /\ EndShown(snap.resets)
    <3>1. kind \in Rolling => provider.end # None /\ kind \notin Valued
      BY DEF PeriodRuns, Rolling, Idling, Valued
    <3>2. kind \in Stored \cup Remembering => kind \notin Valued
      BY DEF Stored, Remembering, Valued
    <3>3. kind \in Hourly => kind \notin Stored \cup Remembering \cup Rolling \cup Valued
      BY DEF Stored, Remembering, Rolling, Valued, Hourly
    <3>4. CASE kind \in Hourly
      BY <1>1, <2>1, <3>3, <3>4, NoneIs DEF EndShown
    <3>5. CASE kind \notin Hourly
      BY <1>1, <1>2, <2>1, <3>1, <3>2, <3>5, NoneIs DEF EndShown
    <3> QED  BY <3>4, <3>5
  <2>2. CASE kind = "codex" /\ snap.resets = now + 2 * Window
    <3>1. provider.end # None
      BY <2>2 DEF PeriodRuns, Idling
    <3>2. snap.resets \in Nat /\ snap.resets >= provider.end /\ snap.resets >= now
      BY <1>1, <1>2, <2>2, <3>1
    <3> QED  BY <2>2, <3>1, <3>2, NoneIs DEF Rolling, Valued, Stored, Remembering, Hourly
  <2> QED  BY <2>1, <2>2 DEF Sampling
<1>5. ASSUME Opened(st'.active, snap)
      PROVE  Shown'
  <2>1. kind \in Stored \cup Remembering \cup Rolling => kind \notin Hourly
    BY DEF Stored, Remembering, Rolling, Hourly
  <2> QED  BY <1>1, <1>2, <1>3, <1>4, <1>5, <2>1 DEF Opened, Shown, Current
<1>6. CASE st'.active = st.active
  BY <1>3, <1>6 DEF Shown, Current
<1>7. CASE Opening(st, q, snap)
  <2>1. st'.active = None \/ Opened(st'.active, snap)
    BY <1>3, <1>7 DEF Opening
  <2>2. CASE st'.active = None
    BY <2>2 DEF Shown
  <2> QED  BY <1>5, <2>1, <2>2
<1>8. CASE st.active # None /\ Continued(st, q, snap)
  <2>1. /\ st'.active.start = st.active.start /\ st'.active.period = st.active.period
        /\ \/ st'.active.resets = st.active.resets
           \/ kind \in Rolling /\ snap.resets # None /\ st'.active.resets = snap.resets
    BY <1>3, <1>8 DEF Continued
  <2>2. CASE st'.active.resets = st.active.resets
    BY <1>3, <1>8, <2>1, <2>2 DEF Shown, Current
  <2>3. CASE kind \in Rolling /\ snap.resets # None /\ st'.active.resets = snap.resets
    <3>1. kind \notin Stored \cup Remembering \cup Hourly \cup Valued
      BY <2>3 DEF Rolling, Stored, Remembering, Hourly, Valued
    <3>2. st.active.start \in Nat /\ st.active.start <= now
      BY <1>8 DEF Shown, CyclesTypeOK, Cycle
    <3> QED  BY <1>1, <1>2, <1>3, <1>4, <1>8, <2>1, <2>3, <3>1, <3>2 DEF Shown, Current
  <2> QED  BY <2>1, <2>2, <2>3
<1> QED  BY <1>3, <1>6, <1>7, <1>8, SampleCases DEF Untouched, Reopened, Pended

LEMMA SampledRemembered ==
  ASSUME CyclesTypeOK, PeriodRuns, Remembered, NEW snap, NEW q, Sampling(snap, q)
  PROVE  Remembered'
<1>1. /\ kind' = kind /\ now' = now /\ provider' = provider /\ q.st = st'
      /\ snap.at = now /\ snap.period = provider.period
      /\ half => half'
      /\ half' \in BOOLEAN /\ half \in BOOLEAN
      /\ snap.used \in Nat /\ provider.used \in Nat
  BY CyclesConstants DEF Sampling, CyclesTypeOK, Snapshots
<1>2. snap.used <= provider.used /\ snap.used # None
  BY <1>1, NoneIs DEF Sampling
<1>3. kind \in Remembering => snap.resets # None /\ snap.resets = provider.end
  BY DEF Sampling, EndShown, Remembering, Jittery, PeriodRuns, Idling, Valued
<1>4. ASSUME Moved(st, st', snap)
      PROVE  Remembered'
  BY <1>1, <1>2, <1>3, <1>4 DEF Remembered, Moved
<1>5. ASSUME Unmoved(st, st'), half' \/ st.mem.last = None
      PROVE  Remembered'
  <2>1. kind \in Remembering => kind \notin Rolling
    BY DEF Remembering, Rolling
  <2> QED  BY <1>1, <1>5, <2>1 DEF Remembered, Unmoved
<1>6. CASE Untouched(st, st')
  BY <1>1, <1>6 DEF Remembered, Unmoved, Untouched, Current
<1>7. CASE Opening(st, q, snap) /\ (st.active = None \/ st'.history # st.history)
  <2>1. CASE ~q.ok /\ st'.active = None /\ Unmoved(st, st')
    BY <1>1, <2>1 DEF Remembered, Unmoved
  <2>2. CASE ~q.ok /\ Opened(st'.active, snap) /\ Unmoved(st, st')
    <3>1. st'.active # None
      BY <2>2, NoneIs DEF Opened
    <3>2. st.mem.last # None => half'
      BY <1>7, <2>2, <3>1 DEF Sampling, Unmoved
    <3> QED  BY <1>5, <2>2, <3>2
  <2> QED  BY <1>1, <1>4, <1>7, <2>1, <2>2 DEF Opening
<1>8. CASE Continued(st, q, snap) /\ st.active # None
  <2>1. CASE q.ok
    BY <1>1, <1>4, <1>8, <2>1 DEF Continued
  <2>2. CASE ~q.ok
    BY <1>1, <1>8, <2>2 DEF Continued, Remembered, Current, Rolling, Remembering
  <2> QED  BY <2>1, <2>2
<1>9. ASSUME NEW d \in Nat, Ended(st, snap, d, st')
      PROVE  st'.history # st.history
  <2>1. st.history.count \in Nat
    BY DEF CyclesTypeOK
  <2>2. st'.history.count = st.history.count + 1
    BY <1>9 DEF Ended
  <2> QED  BY <2>1, <2>2
<1> QED  BY <1>1, <1>6, <1>7, <1>8, <1>9, SampleCases DEF Reopened, Pended

\* The reset ends a cycle in the past and the next starts now.
LEMMA SampledOrder ==
  ASSUME CyclesTypeOK, Shown, Order, NEW snap, NEW q, Sampling(snap, q)
  PROVE  Order'
<1>1. /\ now' = now /\ q.st = st' /\ snap.at = now /\ snap \in Snapshots /\ now \in Nat
      /\ st.history.end \in Nat
  BY CyclesConstants DEF Sampling, CyclesTypeOK
<1>2. CASE Untouched(st, st')
  BY <1>1, <1>2 DEF Order, Untouched
<1>3. CASE st.active = None /\ st'.history = st.history /\ Opening(st, q, snap)
  BY <1>1, <1>3 DEF Order, Opening, Opened
<1>4. CASE st.active # None /\ Reopened(st, q, snap)
  <2>1. PICK d \in Nat : Ended(st, snap, d, st') /\ Opening(st, q, snap)
    BY <1>1, <1>4 DEF Reopened
  <2>2. st.active \in Cycle
    BY <1>4 DEF CyclesTypeOK
  <2>3. CycleEnd(st.active, snap) \in Nat /\ CycleEnd(st.active, snap) <= now
    BY <1>1, <2>2, CycleEndIs
  <2>4. st'.history.end = CycleEnd(st.active, snap)
    BY <2>1 DEF Ended
  <2> QED  BY <1>1, <2>1, <2>3, <2>4 DEF Order, Opening, Opened
<1>5. CASE Continued(st, q, snap) /\ st.active # None
  BY <1>1, <1>5 DEF Order, Continued
<1> QED  BY <1>1, <1>2, <1>3, <1>4, <1>5, SampleCases DEF Pended

LEMMA SampledSummary ==
  ASSUME CyclesTypeOK, SummaryMissesNothing, NEW snap, NEW q, Sampling(snap, q)
  PROVE  SummaryMissesNothing'
<1>1. q.st = st' /\ reading' = reading /\ st.history.tracked \in Nat
  BY DEF Sampling, CyclesTypeOK
<1>2. st'.history.tracked \in Nat /\ st'.history.tracked >= st.history.tracked
  <2>1. CASE Untouched(st, st') \/ st'.history = st.history
    BY <1>1, <2>1 DEF Untouched
  <2>2. CASE st.active # None /\ Reopened(st, q, snap)
    <3>1. PICK d \in Nat : Ended(st, snap, d, st')
      BY <1>1, <2>2 DEF Reopened
    <3>2. st.active.delta \in Nat
      BY <2>2 DEF CyclesTypeOK, Cycle
    <3>3. st'.history.tracked = st.history.tracked + st.active.delta + d
      BY <3>1 DEF Ended
    <3> QED  BY <1>1, <3>2, <3>3
  <2> QED  BY <1>1, <2>1, <2>2, SampleCases DEF Pended, Continued
<1>3. ASSUME reading # None PROVE reading.got \in Nat /\ reading.floor \in Nat
  BY <1>3 DEF CyclesTypeOK
<1> QED  BY <1>1, <1>2, <1>3 DEF SummaryMissesNothing, TotalTracked, Queried, SummaryOrder

LEMMA AbsIs ==
  ASSUME NEW n \in Int
  PROVE  Abs(n) \in Nat /\ (n >= 0 => Abs(n) = n) /\ (n <= 0 => Abs(n) = -n)
BY DEF Abs

\* A multiple of the window apart in time: another period of synthetic.
LEMMA OtherPeriod ==
  ASSUME NEW x \in Nat, NEW y \in Nat, NEW w \in Nat, w > 0, x + w <= y
  PROVE  x \div w # y \div w
BY Z3

\* A snapshot that closes no cycle of another period meets none that has ended.
LEMMA SampledSeen ==
  ASSUME CyclesTypeOK, PeriodRuns, Shown, NEW snap, NEW q, Sampling(snap, q)
  PROVE  ResetIsSeen'
<1> SUFFICES ASSUME outcome' = "ok", kind \in Stored \cup Hourly
             PROVE  \/ st'.active.period = provider.period
                    \/ (kind \in Stored /\ now <= provider.since + Grace + 1)
                    \/ (kind \in Hourly /\ now < provider.since + Window)
                    \/ st'.active.resets = None
  BY DEF ResetIsSeen, Sampling
<1>1. /\ q.ok /\ q.st = st' /\ snap.at = now /\ snap.period = provider.period
      /\ now \in Nat /\ provider.since \in Nat /\ provider.end \in Nat \cup {None}
      /\ Window \in Nat /\ Grace \in Nat /\ Tolerance \in Nat
      /\ kind # "codex" /\ kind \notin Rolling /\ kind \notin Valued
  BY CyclesConstants DEF Sampling, CyclesTypeOK, Stored, Hourly, Rolling, Valued
<1>2. CASE Opening(st, q, snap)
  BY <1>1, <1>2 DEF Opening, Opened
\* the cycle was opened in this hour of the clock, and so was the period that followed
<1>3. CASE kind \in Hourly /\ st.active # None /\ ~ResetSeen(st, snap) /\ Continued(st, q, snap)
  <2>1. st'.active.period = st.active.period
    BY <1>1, <1>3 DEF Continued
  <2>2. SUFFICES ASSUME st.active.period # provider.period
                 PROVE  now < provider.since + Window
    BY <1>3, <2>1
  <2>3. st.active.start \in Nat /\ st.active.resets = st.active.start + Window
        /\ st.active.start <= provider.since
    BY <1>3, <2>2 DEF Shown, Current, CyclesTypeOK, Cycle
  <2>4. snap.resets = now + Window
    BY <1>1, <1>3 DEF Sampling, EndShown
  <2>5. Hour(st.active.resets) = Hour(snap.resets)
    BY <1>3 DEF ResetSeen, Hourly
  <2>6. ~(st.active.resets + Window <= snap.resets)
    <3>1. Window > 0 /\ st.active.resets \in Nat /\ snap.resets \in Nat
      BY <1>1, <2>3, <2>4, CyclesConstants
    <3> QED  BY <1>1, <2>5, <3>1, OtherPeriod DEF Hour
  <2> QED  BY <1>1, <2>3, <2>4, <2>6
<1>4. CASE kind \in Stored /\ st.active # None /\ ~ResetSeen(st, snap) /\ Continued(st, q, snap)
  <2>1. st'.active.period = st.active.period /\ st'.active.resets = st.active.resets
    BY <1>1, <1>4 DEF Continued
  <2>2. SUFFICES ASSUME st.active.period # provider.period, st.active.resets # None
                 PROVE  now <= provider.since + Grace + 1
    BY <1>4, <2>1
  <2>3. st.active.resets \in Nat
    BY <1>4, <2>2 DEF CyclesTypeOK, Cycle
  <2>4. /\ provider.end # None => provider.end > st.active.resets + Tolerance
        /\ provider.end = None => st.active.resets <= provider.since + 1
        /\ kind = "synthetic" => st.active.resets + Window <= provider.end
    BY <1>4, <2>2 DEF Shown, Current
  <2>5. ~Passed(st.active, snap)
    BY <1>1, <1>4 DEF ResetSeen, Stored
  <2>6. CASE provider.end = None
    BY <1>1, <2>2, <2>3, <2>4, <2>5, <2>6 DEF Passed
  <2>7. CASE provider.end # None
    <3>1. snap.resets = provider.end \/ snap.resets = provider.end + 1
      BY <1>1, <1>4, <2>7 DEF Sampling, EndShown
    <3>2. snap.resets \in Nat /\ snap.resets > st.active.resets + Tolerance /\ snap.resets # None
      BY <1>1, <2>3, <2>4, <2>7, <3>1, NoneIs
    <3>3. CASE kind = "synthetic"
      <4>1. snap.resets = provider.end /\ st.active.resets + Window <= snap.resets
        BY <1>1, <2>4, <2>7, <3>3 DEF Sampling, EndShown, Jittery, Stored
      <4>2. Window > 0
        BY CyclesConstants, <1>1
      <4>3. Hour(st.active.resets) # Hour(snap.resets)
        BY <1>1, <2>3, <3>2, <4>1, <4>2, OtherPeriod DEF Hour
      <4> QED  BY <1>4, <3>3, <4>3 DEF ResetSeen
    <3>4. CASE kind # "synthetic"
      <4>1. Abs(snap.resets - st.active.resets) > Tolerance /\ Abs(snap.resets - st.active.resets) > 0
        BY <1>1, <2>3, <3>2, AbsIs
      <4> QED  BY <1>4, <2>2, <3>2, <3>4, <4>1 DEF ResetSeen, Shifted, Stored
    <3> QED  BY <3>3, <3>4
  <2> QED  BY <2>6, <2>7
<1> QED  BY <1>1, <1>2, <1>3, <1>4, SampleCases DEF Reopened, Pended

LEMMA SampledPeriod ==
  ASSUME PeriodRuns, NEW snap, NEW q, Sampling(snap, q)
  PROVE  PeriodRuns'
BY DEF PeriodRuns, Sampling

\* An announced end further than a window ahead comes from a glitch, after which
\* codex remembers no use at all.
LEMMA SampledGlitches ==
  ASSUME CyclesTypeOK, PeriodRuns, Shown, Glitches, NEW snap, NEW q, Sampling(snap, q)
  PROVE  Glitches'
<1> SUFFICES ASSUME kind = "codex"
             PROVE  Glitches'
  BY DEF Glitches, Sampling
<1>1. /\ kind' = kind /\ now' = now /\ q.st = st' /\ now \in Nat /\ Window \in Nat
      /\ provider.end # None /\ kind \in Rolling /\ kind \notin Valued
      /\ glitched \in BOOLEAN /\ glitched' \in BOOLEAN
  <2>1. glitched \in BOOLEAN /\ glitched' \in BOOLEAN
    BY DEF Sampling, CyclesTypeOK
  <2>2. provider.end # None /\ kind \in Rolling /\ kind \notin Valued
    BY DEF PeriodRuns, Idling, Rolling, Valued
  <2>3. now \in Nat /\ Window \in Nat
    BY CyclesConstants DEF CyclesTypeOK
  <2> QED  BY <2>1, <2>2, <2>3 DEF Sampling
<1>2. st.active # None => st.active.resets # None
  BY <1>1 DEF Shown
\* the snapshot is that of the provider, or the glitch
<1>3. CASE /\ snap.used = provider.used /\ EndShown(snap.resets)
           /\ glitched' = glitched \/ (glitched' = FALSE /\ q.ok)
  <2>1. /\ snap.resets \in Nat /\ snap.resets # None /\ snap.resets <= now + Window
        /\ snap.used \in Nat
    BY <1>1, <1>3, NoneIs, CyclesConstants DEF EndShown, CyclesTypeOK
  <2>2. CASE ~q.ok /\ Untouched(st, st') /\ st'.mem.pending \in {st.mem.pending, None}
    BY <1>1, <1>3, <2>2 DEF Glitches, Untouched, Unmoved
  <2>3. ASSUME Opened(st'.active, snap), Moved(st, st', snap), st'.mem.pending = None
        PROVE  Glitches'
    BY <1>1, <2>1, <2>3, NoneIs DEF Glitches, Opened, Moved
  <2>4. ASSUME Opening(st, q, snap), st'.mem.pending = None
        PROVE  Glitches'
    <3>1. CASE ~q.ok /\ Unmoved(st, st') /\ (st'.active = None \/ Opened(st'.active, snap))
      BY <1>1, <1>3, <2>1, <2>4, <3>1 DEF Glitches, Unmoved, Opened
    <3> QED  BY <1>1, <2>3, <2>4, <3>1 DEF Opening
  <2>5. CASE st.active = None /\ st'.mem.pending = st.mem.pending /\ Opening(st, q, snap)
    BY <2>4, <2>5 DEF Glitches
  <2>6. CASE st'.mem.pending = None /\ Reopened(st, q, snap)
    BY <2>4, <2>6 DEF Reopened
  <2>7. CASE st.active # None /\ Continued(st, q, snap)
    <3>1. st'.active # None /\ st'.mem.pending = None
      BY <1>1, <2>7, NoneIs DEF Continued
    <3>2. CASE q.ok
      BY <1>1, <2>1, <2>7, <3>1, <3>2 DEF Glitches, Continued, Moved
    <3>3. CASE ~q.ok
      BY <1>1, <1>3, <2>1, <2>7, <3>1, <3>3 DEF Glitches, Continued
    <3> QED  BY <3>2, <3>3
  <2>8. CASE st.active # None /\ Pended(st, q, snap)
    <3>1. /\ Untouched(st, st') /\ st.mem.last # None /\ snap.used < st.mem.last
          /\ st'.mem.pending = [resets |-> snap.resets, used |-> snap.used]
      BY <1>1, <2>8 DEF Pended, Candidate, Fell
    <3>2. st.mem.last # 0
      BY <2>1, <3>1
    <3>3. st'.mem.pending.resets = snap.resets
      BY <3>1
    <3> QED  BY <1>1, <2>1, <2>8, <3>1, <3>2, <3>3 DEF Glitches, Untouched, Unmoved
  <2> QED  BY <2>2, <2>5, <2>6, <2>7, <2>8, SampleCases
<1>4. CASE ~glitched /\ glitched' = TRUE /\ q.ok /\ snap.used = 0
  <2>1. CASE Moved(st, st', snap) /\ st'.active # None
    BY <1>1, <1>4, <2>1 DEF Glitches, Moved
  <2>2. CASE Opening(st, q, snap)
    BY <1>1, <1>4, <2>1, <2>2, NoneIs DEF Opening, Opened
  <2>3. CASE Continued(st, q, snap)
    BY <1>1, <1>4, <2>1, <2>3, NoneIs DEF Continued
  <2>4. CASE st.active # None /\ Pended(st, q, snap)
    BY <1>1, <1>4, <2>4 DEF Glitches, Pended, Untouched, Unmoved
  <2>5. CASE Reopened(st, q, snap)
    BY <2>2, <2>5 DEF Reopened
  <2> QED  BY <1>4, <2>2, <2>3, <2>4, <2>5, SampleCases
<1> QED  BY <1>3, <1>4 DEF Sampling

\* One glitch confirms no candidate that the provider's own answers have left.
LEMMA GlitchUnconfirmed ==
  ASSUME CyclesTypeOK, Glitches, NEW snap, kind = "codex", ~glitched,
         snap.resets = now + 2 * Window
  PROVE  ~ConfirmCodexReset(st, snap)
<1>1. now \in Nat /\ Window \in Nat /\ PendingTolerance \in Nat /\ PendingTolerance < Window
  BY CyclesConstants DEF CyclesTypeOK
<1> SUFFICES ASSUME st.mem.pending # None
             PROVE  Abs(st.mem.pending.resets - snap.resets) > PendingTolerance
  <2>1. st.mem.pending # None => Abs(st.mem.pending.resets - snap.resets) \in Int
    BY <1>1, AbsIs DEF CyclesTypeOK, Memory
  <2> QED  BY <1>1, <2>1 DEF ConfirmCodexReset
<1>2. st.mem.pending.resets \in Nat
  BY DEF CyclesTypeOK, Memory
<1>3. st.mem.pending.resets <= now + Window
  BY DEF Glitches
<1>4. st.mem.pending.resets - snap.resets <= -Window /\ st.mem.pending.resets - snap.resets \in Int
  BY <1>1, <1>2, <1>3
<1> QED  BY <1>1, <1>4, AbsIs

\* The running period's own cycle gives a tracker no reason to see a reset.
LEMMA NoResetSeen ==
  ASSUME CyclesTypeOK, PeriodRuns, Shown, Remembered, Glitches, NEW snap, NEW q,
         Sampling(snap, q), st.active # None, Current, ~half \/ kind \in Stored,
         kind \notin Hourly
  PROVE  ~ResetSeen(st, snap)
<1> DEFINE c == st.active
<1>1. /\ now \in Nat /\ Window \in Nat /\ Grace \in Nat /\ Tolerance \in Nat \ {0}
      /\ provider.end \in Nat \cup {None} /\ provider.used \in Nat
      /\ c.resets \in Nat \cup {None} /\ snap.at = now /\ snap.used \in Nat
      /\ PendingTolerance \in Nat /\ PendingTolerance < Window
      /\ st.mem.last \in Nat \cup {None} /\ st.mem.reset \in Nat \cup {None}
  BY CyclesConstants DEF CyclesTypeOK, Cycle, Sampling, Snapshots, Memory
<1>2. c.resets # None => c.resets \in Nat /\ provider.end # None /\ c.resets >= provider.end /\ now < c.resets
  <2> SUFFICES ASSUME c.resets # None
               PROVE  c.resets \in Nat /\ provider.end # None /\ c.resets >= provider.end /\ now < c.resets
    OBVIOUS
  <2>1. kind \in Stored \cup Remembering \cup Rolling
    BY CyclesConstants DEF Shown, CyclesTypeOK
  <2>2. provider.end # None /\ c.resets >= provider.end
    <3>1. CASE kind \in Rolling
      BY <1>1, <3>1 DEF Shown, PeriodRuns, Rolling, Idling
    <3>2. CASE kind \in Stored \cup Remembering
      BY <1>1, <3>2 DEF Shown
    <3> QED  BY <2>1, <3>1, <3>2
  <2> QED  BY <1>1, <2>2 DEF PeriodRuns
<1>3. ~Passed(c, snap) /\ ~PastReset(c, snap)
  BY <1>1, <1>2 DEF Passed, PastReset
<1>4. CASE kind \in Stored
  <2>1. snap.resets \in {c.resets} \/ (/\ provider.end # None /\ kind \in Jittery
                                       /\ c.resets \in {provider.end, provider.end + 1}
                                       /\ snap.resets \in {provider.end, provider.end + 1})
    BY <1>4 DEF Shown, Sampling, EndShown, Stored, Jittery
  <2>2. ~Appeared(c, snap)
    BY <1>1, <2>1, NoneIs DEF Appeared
  <2>3. ~Shifted(c.resets, snap, Tolerance) /\ (kind = "zai_tokens" => ~Shifted(c.resets, snap, 0))
    <3> SUFFICES ASSUME c.resets # None, snap.resets # None
                 PROVE  Abs(snap.resets - c.resets) <= IF kind = "zai_tokens" THEN 0 ELSE Tolerance
      BY <1>1, <2>1, AbsIs, NoneIs DEF Shifted
    <3>1. c.resets \in Nat /\ provider.end \in Nat
      BY <1>1, <1>2
    <3>2. CASE snap.resets = c.resets
      BY <1>1, <3>1, <3>2, AbsIs
    <3>3. CASE /\ kind \in Jittery
               /\ c.resets \in {provider.end, provider.end + 1}
               /\ snap.resets \in {provider.end, provider.end + 1}
      <4>1. snap.resets - c.resets \in {-1, 0, 1}
        BY <3>1, <3>3
      <4>2. Abs(snap.resets - c.resets) \in {0, 1}
        BY <4>1, AbsIs
      <4> QED  BY <1>1, <3>3, <4>2 DEF Jittery
    <3> QED  BY <2>1, <3>2, <3>3
  <2>4. kind = "synthetic" => c.resets = snap.resets
    BY <2>1 DEF Jittery
  <2> QED  BY <1>3, <1>4, <2>2, <2>3, <2>4 DEF ResetSeen, Stored, Hourly, Valued
<1>5. CASE kind \notin Stored
  <2>1. ~half /\ (st.mem.last # None => st.mem.last <= provider.used)
    BY <1>5 DEF Remembered
  <2>2. CASE snap.used = provider.used /\ EndShown(snap.resets)
    <3>1. ~Fell(st, snap)
      BY <1>1, <2>1, <2>2 DEF Fell
    <3>2. ~Halved(st, snap) /\ ~(Known(st) /\ 10 * snap.used < 6 * st.mem.last)
      <4>1. ASSUME st.mem.last # None
            PROVE  st.mem.last \in Nat /\ st.mem.last <= snap.used
        BY <1>1, <2>1, <2>2, <4>1
      <4> QED  BY <1>1, <4>1 DEF Halved, Known
    <3>3. ~Candidate(st, snap)
      BY <3>1 DEF Candidate
    <3>4. kind \in Remembering => ~Shifted(st.mem.reset, snap, Tolerance) /\ ~Shifted(st.mem.reset, snap, 0)
      <4> SUFFICES ASSUME kind \in Remembering, st.mem.reset # None, snap.resets # None
                   PROVE  Abs(snap.resets - st.mem.reset) <= Tolerance /\ Abs(snap.resets - st.mem.reset) <= 0
        BY <1>1, AbsIs, NoneIs DEF Shifted, Sampling, Snapshots
      <4>1. st.mem.reset = provider.end /\ provider.end \in Nat
        BY <1>1, <2>1 DEF Remembered
      <4>2. snap.resets = provider.end
        BY <1>1, <2>2, <4>1, NoneIs DEF EndShown, Jittery, Remembering
      <4> QED  BY <1>1, <4>1, <4>2, AbsIs
    <3> QED  BY <1>3, <1>5, <3>1, <3>2, <3>3, <3>4 DEF ResetSeen, Stored, Remembering, Hourly
  <2>3. CASE kind = "codex" /\ ~glitched /\ snap.resets = now + 2 * Window
    <3>1. ~ConfirmCodexReset(st, snap)
      BY <2>3, GlitchUnconfirmed
    <3> QED  BY <1>3, <2>3, <3>1 DEF ResetSeen, Valued
  <2> QED  BY <2>2, <2>3 DEF Sampling
<1> QED  BY <1>4, <1>5

LEMMA TrackedIs ==
  ASSUME NEW s, s \in Books
  PROVE  /\ AllTracked(s) \in Nat
         /\ AllTracked(s) = IF s.active # None THEN s.history.tracked + s.active.delta
                            ELSE s.history.tracked
<1>1. s.history.tracked \in Nat /\ (s.active # None => s.active.delta \in Nat)
  BY DEF Books, Cycle
<1> QED  BY <1>1 DEF AllTracked, Queried

\* A snapshot adds the use since the one before it, to one cycle only.
LEMMA SampledCounted ==
  ASSUME CyclesTypeOK, PeriodRuns, Shown, Glitches, UseCounted, NEW snap, NEW q, Sampling(snap, q)
  PROVE  UseCounted'
<1> SUFFICES ASSUME ~half'
             PROVE  UseCounted'
  BY DEF UseCounted
<1> DEFINE T == AllTracked(st)
           U == AllTracked(st')
<1>1. /\ kind' = kind /\ now' = now /\ provider' = provider /\ q.st = st'
      /\ st \in Books /\ st' \in Books /\ ~half
      /\ now \in Nat /\ Window \in Nat /\ provider.used \in Nat
      /\ Countable' \in Nat
      /\ snap.used \in Nat /\ snap.at = now /\ snap.used <= provider.used
      /\ st.mem.last \in Nat \cup {None}
  <2>1. st \in Books
    BY BooksOf
  <2>2. provider.used \in Nat /\ now \in Nat /\ Window \in Nat
    BY CyclesConstants DEF CyclesTypeOK
  <2>3. snap.used \in Nat /\ st' \in Books
    BY DEF Sampling, Snapshots, Results
  <2>4. snap.used <= provider.used
    BY <2>2 DEF Sampling
  <2>5. consumed' + recounted' \in Nat
    BY DEF Sampling, CyclesTypeOK
  <2>6. Countable' \in Nat
    BY <2>5 DEF Countable
  <2> QED  BY <2>1, <2>2, <2>3, <2>4, <2>6 DEF Sampling, CyclesTypeOK, Memory
<1>2. /\ T \in Nat /\ U \in Nat
      /\ T = IF st.active # None THEN st.history.tracked + st.active.delta ELSE st.history.tracked
      /\ U = IF st'.active # None THEN st'.history.tracked + st'.active.delta ELSE st'.history.tracked
  BY <1>1, TrackedIs
<1>3. /\ T <= Countable'
      /\ (st.active # None /\ st.mem.last # None) =>
           T + Positive(provider.used - st.mem.last) <= Countable'
      /\ (kind = "codex" /\ st.active # None /\ st.active.resets < provider.end) =>
           T + provider.used <= Countable'
  <2>1. Countable \in Nat /\ Countable <= Countable'
    <3>1. /\ consumed \in Nat /\ recounted \in Nat /\ recounted' \in Nat
          /\ consumed' = consumed /\ recounted <= recounted'
      BY DEF CyclesTypeOK, Sampling
    <3>2. \A a, b, c \in Nat : b <= c => a + b \in Nat /\ a + b <= a + c
      OBVIOUS
    <3>3. Countable' = consumed + recounted'
      BY <3>1 DEF Countable
    <3> QED  BY <3>1, <3>2, <3>3 DEF Countable
  <2>2. ASSUME NEW n \in Nat, T + n <= Countable
        PROVE  T + n <= Countable'
    BY <1>1, <1>2, <2>1, <2>2
  <2>3. T <= Countable /\ T <= Countable'
    BY <1>1, <1>2, <2>1 DEF UseCounted
  <2>4. st.mem.last # None => Positive(provider.used - st.mem.last) \in Nat
    BY <1>1, PositiveIs
  <2> QED  BY <1>1, <2>2, <2>3, <2>4 DEF UseCounted
\* a glitch with no value to compare it with may have the period's use counted again
<1>R. (snap.used # provider.used /\ ~Comparable) => T + provider.used <= Countable'
  <2> SUFFICES ASSUME snap.used # provider.used, ~Comparable
               PROVE  T + provider.used <= Countable'
    OBVIOUS
  <2>1. recounted' = recounted + provider.used /\ consumed' = consumed
    BY DEF Sampling
  <2>2. T <= Countable
    BY <1>1 DEF UseCounted
  <2>3. consumed \in Nat /\ recounted \in Nat
    BY DEF CyclesTypeOK
  <2> QED  BY <1>1, <1>2, <2>1, <2>2, <2>3 DEF Countable
<1>4. st'.history.tracked \in Nat /\ st.history.tracked \in Nat
  BY <1>1 DEF Books
\* the sum of what has been counted, with the gain, is within the use
<1>5. ASSUME NEW d \in Nat, Gain(st, snap, d), st.active # None
      PROVE  T + d <= Countable'
  <2>1. CASE d = 0
    BY <1>2, <1>3, <2>1
  <2>2. CASE st.mem.last # None /\ d = Positive(snap.used - st.mem.last)
    <3>1. st.mem.last \in Nat
      BY <1>1, <2>2
    <3>2. d <= Positive(provider.used - st.mem.last) /\ Positive(provider.used - st.mem.last) \in Nat
      BY <1>1, <2>2, <3>1 DEF Positive, Larger
    <3> QED  BY <1>1, <1>2, <1>3, <1>5, <2>2, <3>2
  <2> QED  BY <1>5, <2>1, <2>2 DEF Gain
\* a codex snapshot shows an end that is not behind that of the running period
<1>6. kind = "codex" => snap.resets \in Nat /\ provider.end \in Nat /\ ~(snap.resets < provider.end)
  <2> SUFFICES ASSUME kind = "codex"
               PROVE  snap.resets \in Nat /\ provider.end \in Nat /\ ~(snap.resets < provider.end)
    OBVIOUS
  <2>1. provider.end # None /\ kind \notin Valued
    BY DEF PeriodRuns, Idling, Valued
  <2>2. provider.end \in Nat /\ now < provider.end /\ provider.end <= now + Window
    BY <2>1 DEF PeriodRuns, CyclesTypeOK
  <2>3. CASE EndShown(snap.resets)
    BY <2>1, <2>2, <2>3 DEF EndShown
  <2>4. CASE snap.resets = now + 2 * Window
    BY <1>1, <2>2, <2>4
  <2> QED  BY <2>2, <2>3, <2>4 DEF Sampling
\* after a glitch that was taken in, the use of the period is still to be counted
<1>7. ASSUME snap.used # provider.used, st.active # None, q.ok,
             \/ ResetSeen(st, snap)
             \/ ~Candidate(st, snap)
      PROVE  T + provider.used <= Countable'
  <2> SUFFICES ASSUME Comparable
               PROVE  T + provider.used <= Countable'
    BY <1>R, <1>7
  <2>1. /\ kind = "codex" /\ Known(st) /\ ~glitched /\ snap.used = 0
        /\ snap.resets = now + 2 * Window
    BY <1>7 DEF Sampling, Comparable
  <2>2. st.active.resets \in Nat /\ provider.end \in Nat /\ now < provider.end
    BY <1>6, <1>7, <2>1, NoneIs DEF Shown, Rolling, CyclesTypeOK, Cycle, PeriodRuns
  <2>3. CASE ResetSeen(st, snap)
    <3>1. Passed(st.active, snap)
      BY <2>1, <2>3, GlitchUnconfirmed DEF ResetSeen, Valued
    <3>2. st.active.resets < provider.end
      BY <1>1, <2>2, <3>1, CyclesConstants DEF Passed
    <3> QED  BY <1>3, <1>7, <2>1, <3>2
  <2>4. CASE ~Candidate(st, snap)
    <3>1. st.active.resets # None /\ st.mem.last \in Nat
      BY <1>1, <2>1, <2>2, NoneIs DEF Known
    <3>2. Shifted(RollingReference(st), snap, Threshold)
      <4> DEFINE ref == RollingReference(st)
      <4>1. ref \in Nat /\ ref <= now + Window
        <5>1. st.active.resets <= now + Window /\ (st.mem.reset # None => st.mem.reset <= now + Window)
          BY <1>7, <2>1 DEF Glitches
        <5>2. st.mem.reset \in Nat \cup {None}
          BY DEF CyclesTypeOK, Memory
        <5> QED  BY <2>2, <5>1, <5>2 DEF RollingReference
      <4> HIDE DEF ref
      <4>2. snap.resets - ref \in Int /\ snap.resets - ref >= Window
        BY <1>1, <2>1, <4>1
      <4>3. Abs(snap.resets - ref) > Threshold
        BY <1>1, <4>2, AbsIs, CyclesConstants
      <4>4. snap.resets # None /\ ref # None
        BY <1>6, <2>1, <4>1, NoneIs
      <4> QED  BY <4>3, <4>4 DEF Shifted, ref
    <3>3. ~Fell(st, snap)
      BY <2>1, <2>4, <3>1, <3>2 DEF Candidate
    <3>4. st.mem.last = 0
      BY <2>1, <3>1, <3>3, NoneIs DEF Fell
    <3>5. Positive(provider.used - st.mem.last) = provider.used
      BY <1>1, <3>4, PositiveIs
    <3> QED  BY <1>3, <1>7, <3>1, <3>5, NoneIs
  <2> QED  BY <1>7, <2>3, <2>4
\* an open cycle
<1>8. ASSUME st'.active.resets = snap.resets \/ kind # "codex", U <= Countable',
             Moved(st, st', snap),
             U + Positive(provider.used - snap.used) <= Countable'
      PROVE  UseCounted'
  BY <1>1, <1>6, <1>8 DEF UseCounted, Moved
<1>9. Positive(provider.used - provider.used) = 0 /\ Positive(provider.used - 0) = provider.used
  BY <1>1, PositiveIs
<1>10. CASE Untouched(st, st')
  BY <1>1, <1>3, <1>10 DEF UseCounted, Untouched, Unmoved, AllTracked, Queried
<1>11. CASE st.active = None /\ st'.history = st.history /\ Opening(st, q, snap)
  <2>1. U = T
    BY <1>1, <1>2, <1>4, <1>11 DEF Opening, Opened
  <2>2. CASE ~q.ok /\ (st'.active = None \/ st'.mem.last = None)
    <3>1. st'.active # None => st'.active.resets = snap.resets
      BY <1>1, <1>11, <2>2 DEF Opening, Opened
    <3> QED  BY <1>1, <1>3, <1>6, <2>1, <2>2, <3>1 DEF UseCounted
  <2>3. CASE q.ok
    <3>1. U + Positive(provider.used - snap.used) <= Countable'
      <4>1. CASE snap.used = provider.used
        BY <1>1, <1>2, <1>3, <1>9, <2>1, <4>1
      <4>2. CASE snap.used # provider.used
        <5>1. snap.used = 0
          BY <4>2 DEF Sampling
        <5>2. T + provider.used <= Countable'
          BY <1>R, <1>11, <4>2 DEF Comparable
        <5> QED  BY <1>9, <2>1, <5>1, <5>2
      <4> QED  BY <4>1, <4>2
    <3>2. Opened(st'.active, snap) /\ Moved(st, st', snap)
      BY <1>1, <1>11, <2>3 DEF Opening
    <3> QED  BY <1>3, <1>8, <2>1, <3>1, <3>2 DEF Opened
  <2> QED  BY <1>11, <2>2, <2>3 DEF Sampling
<1>12. CASE st.active # None /\ ResetSeen(st, snap) /\ Reopened(st, q, snap)
  <2>1. PICK d \in Nat : Gain(st, snap, d) /\ Ended(st, snap, d, st') /\ Opening(st, q, snap)
    BY <1>1, <1>12 DEF Reopened
  <2>2. st'.history.tracked = st.history.tracked + st.active.delta + d /\ st'.history # st.history
    <3>1. st.history.count \in Nat /\ st'.history.count = st.history.count + 1
      BY <1>1, <2>1 DEF Books, Ended
    <3> QED  BY <2>1, <3>1 DEF Ended
  <2>3. U = T + d
    BY <1>1, <1>2, <1>4, <1>12, <2>1, <2>2 DEF Opening, Opened
  <2>4. U <= Countable'
    BY <1>5, <1>12, <2>1, <2>3
  <2>5. CASE ~q.ok /\ (st'.active = None \/ st'.mem.last = None)
    <3>1. st'.active # None => st'.active.resets = snap.resets
      BY <1>1, <2>1, <2>5 DEF Opening, Opened
    <3> QED  BY <1>1, <1>6, <2>4, <2>5, <3>1 DEF UseCounted
  <2>6. CASE q.ok
    <3>1. U + Positive(provider.used - snap.used) <= Countable'
      <4>1. CASE snap.used = provider.used
        BY <1>2, <1>9, <2>4, <4>1
      <4>2. CASE snap.used # provider.used
        <5>1. snap.used = 0
          BY <4>2 DEF Sampling
        <5>2. d = 0
          BY <1>1, <2>1, <5>1, PositiveIs, NoneIs DEF Gain
        <5> QED  BY <1>1, <1>2, <1>7, <1>9, <1>12, <2>3, <2>6, <4>2, <5>1, <5>2
      <4> QED  BY <4>1, <4>2
    <3> QED  BY <1>1, <1>8, <2>1, <2>4, <2>6, <3>1 DEF Opening, Opened
  <2> QED  BY <2>1, <2>2, <2>5, <2>6 DEF Sampling
<1>13. CASE /\ st.active # None /\ ~ResetSeen(st, snap) /\ Continued(st, q, snap)
            /\ kind = "codex" => ~Candidate(st, snap)
  <2>1. st'.active # None /\ st.active.delta \in Nat
    BY <1>1, <1>13, NoneIs DEF Continued, Books, Cycle
  <2>2. CASE ~q.ok
    <3>1. U = T /\ st'.mem.last = st.mem.last
      BY <1>1, <1>2, <1>13, <2>1, <2>2 DEF Continued
    <3>2. st'.active.resets = st.active.resets \/ st'.active.resets = snap.resets
      BY <1>1, <1>13, <2>2 DEF Continued
    <3> QED  BY <1>1, <1>3, <1>6, <1>13, <3>1, <3>2 DEF UseCounted
  <2>3. CASE q.ok
    <3>1. PICK d \in Nat : Gain(st, snap, d) /\ st'.active.delta = st.active.delta + d
      BY <1>1, <1>13, <2>3 DEF Continued
    <3>2. U = T + d
      BY <1>1, <1>2, <1>4, <1>13, <2>1, <3>1 DEF Continued
    <3>3. U <= Countable'
      BY <1>5, <1>13, <3>1, <3>2
    <3>4. st'.active.resets = snap.resets \/ kind # "codex"
      <4>1. kind = "codex" => kind \in Rolling /\ snap.resets # None
        BY <1>6, NoneIs DEF Rolling
      <4> QED  BY <1>1, <1>13, <2>3, <4>1 DEF Continued
    <3>5. U + Positive(provider.used - snap.used) <= Countable'
      <4>1. CASE snap.used = provider.used
        BY <1>2, <1>9, <3>3, <4>1
      <4>2. CASE snap.used # provider.used
        <5>1. snap.used = 0 /\ kind = "codex"
          BY <4>2 DEF Sampling
        <5>2. d = 0
          BY <1>1, <3>1, <5>1, PositiveIs, NoneIs DEF Gain
        <5> QED  BY <1>1, <1>2, <1>7, <1>9, <1>13, <2>3, <3>2, <4>2, <5>1, <5>2
      <4> QED  BY <4>1, <4>2
    <3> QED  BY <1>1, <1>8, <1>13, <2>3, <3>3, <3>4, <3>5 DEF Continued
  <2> QED  BY <2>2, <2>3
<1> QED  BY <1>1, <1>10, <1>11, <1>12, <1>13, SampleCases DEF Pended

-----------------------------------------------------------------------------
(* The other steps. *)

\* Time passes: the period runs on with more use, or another one has begun.
LEMMA TickProvider ==
  ASSUME CyclesTypeOK, PeriodRuns, NEW used \in Nat,
         provider' = Using(Elapsed(provider, now + 1), now + 1, used)
  PROVE  \/ /\ provider'.period = provider.period /\ provider'.end = provider.end
            /\ provider'.since = provider.since /\ provider'.used = provider.used + used
            /\ provider.end # now + 1
         \/ /\ provider'.period \in Nat /\ provider'.period > provider.period
            /\ provider'.since = now + 1 /\ provider'.used = used
            /\ provider.end = None \/ provider.end = now + 1
            /\ \/ provider'.end = now + 1 + Window
               \/ provider'.end = None /\ provider.end = now + 1 /\ kind \in Idling
<1> DEFINE p == Elapsed(provider, now + 1)
           ended == Begun(provider, now + 1, IF kind \in Idling THEN None ELSE provider.end + Window)
<1>1. /\ now \in Nat /\ Window \in Nat /\ provider.period \in Nat /\ provider.used \in Nat
      /\ provider.end \in Nat \cup {None}
      /\ provider = [used |-> provider.used, end |-> provider.end, period |-> provider.period,
                     since |-> provider.since]
  BY CyclesConstants DEF CyclesTypeOK
<1>2. CASE provider.end = now + 1
  <2>1. p = [used |-> 0, end |-> IF kind \in Idling THEN None ELSE now + 1 + Window,
             period |-> provider.period + 1, since |-> now + 1]
    BY <1>1, <1>2 DEF Elapsed, Begun
  <2> HIDE DEF p
  <2>2. provider' = Using(p, now + 1, used)
    BY DEF p
  <2>3. CASE used > 0 /\ p.end = None
    <3>1. provider' = [used |-> used, end |-> now + 1 + Window, period |-> provider.period + 2,
                       since |-> now + 1]
      BY <1>1, <2>1, <2>2, <2>3 DEF Using, Begun
    <3> QED  BY <1>1, <1>2, <3>1
  <2>4. CASE ~(used > 0 /\ p.end = None)
    <3>1. provider' = [used |-> used, end |-> p.end, period |-> provider.period + 1,
                       since |-> now + 1]
      BY <1>1, <2>1, <2>2, <2>4 DEF Using, Begun
    <3> QED  BY <1>1, <1>2, <2>1, <3>1
  <2> QED  BY <2>3, <2>4
<1>3. CASE provider.end # now + 1
  <2>1. p = provider
    BY <1>3 DEF Elapsed
  <2>2. provider' = Using(provider, now + 1, used)
    BY <2>1
  <2>3. CASE used > 0 /\ provider.end = None
    <3>1. provider' = [used |-> used, end |-> now + 1 + Window, period |-> provider.period + 1,
                       since |-> now + 1]
      BY <1>1, <2>2, <2>3 DEF Using, Begun
    <3> QED  BY <1>1, <2>3, <3>1
  <2>4. CASE ~(used > 0 /\ provider.end = None)
    <3>1. provider' = [provider EXCEPT !.used = @ + used]
      BY <2>2, <2>4 DEF Using
    <3> QED  BY <1>1, <1>3, <3>1
  <2> QED  BY <2>3, <2>4
<1> QED  BY <1>2, <1>3

LEMMA TickKeeps ==
  ASSUME CyclesInv, Tick
  PROVE  CyclesInv'
<1>1. PICK used \in 0 .. MaxUse :
        /\ now < MaxTime[kind] /\ reading = None
        /\ now' = now + 1 /\ due' = TRUE
        /\ provider' = Using(Elapsed(provider, now + 1), now + 1, used)
        /\ provider'.used <= MaxUse
        /\ consumed' = consumed + used
        /\ outcome' = "none"
        /\ UNCHANGED <<kind, st, faults, half, glitched, recounted, reading>>
  BY DEF Tick
<1>2. /\ CyclesTypeOK /\ PeriodRuns /\ Shown /\ Remembered /\ Glitches /\ Order /\ UseCounted
      /\ ResetIsSeen /\ SummaryMissesNothing
  BY DEF CyclesInv
<1>3. /\ now \in Nat /\ MaxTime[kind] \in Nat /\ Window \in Nat /\ Tolerance \in Nat
      /\ Window > Tolerance + 1 /\ MaxUse \in Nat /\ used \in Nat /\ consumed \in Nat
      /\ recounted \in Nat
      /\ provider.end \in Nat \cup {None} /\ provider.period \in Nat /\ provider.used \in Nat
      /\ provider.since \in 0 .. now /\ st \in Books
  BY <1>2, CyclesConstants, BooksOf DEF CyclesTypeOK
<1> DEFINE RunsOn == /\ provider'.period = provider.period /\ provider'.end = provider.end
                     /\ provider'.since = provider.since /\ provider'.used = provider.used + used
                     /\ provider.end # now + 1
           Begins == /\ provider'.period \in Nat /\ provider'.period > provider.period
                     /\ provider'.since = now + 1 /\ provider'.used = used
                     /\ provider.end = None \/ provider.end = now + 1
                     /\ \/ provider'.end = now + 1 + Window
                        \/ provider'.end = None /\ provider.end = now + 1 /\ kind \in Idling
<1>4. RunsOn \/ Begins
  BY <1>1, <1>2, <1>3, TickProvider
<1>5. provider' \in [used : 0 .. MaxUse, end : Nat \cup {None}, period : Nat, since : 0 .. now']
  <2>1. DOMAIN provider' = {"used", "end", "period", "since"}
        /\ provider' = [used |-> provider'.used, end |-> provider'.end, period |-> provider'.period,
                        since |-> provider'.since]
    <3> DEFINE p == Elapsed(provider, now + 1)
    <3>1. p = [used |-> p.used, end |-> p.end, period |-> p.period, since |-> p.since]
      BY <1>2 DEF Elapsed, Begun, CyclesTypeOK
    <3> HIDE DEF p
    <3>2. provider' = Using(p, now + 1, used)
      BY <1>1 DEF p
    <3> QED  BY <3>1, <3>2 DEF Using, Begun
  <2>2. provider'.used \in 0 .. MaxUse /\ provider'.since \in 0 .. now'
    BY <1>1, <1>3, <1>4
  <2>3. provider'.end \in Nat \cup {None} /\ provider'.period \in Nat
    BY <1>3, <1>4
  <2> QED  BY <2>1, <2>2, <2>3
<1> HIDE DEF RunsOn, Begins
<1>6. CyclesTypeOK'
  <2>1. now' \in 0 .. MaxTime[kind] /\ consumed' \in Nat
    BY <1>1, <1>3
  <2> QED  BY <1>1, <1>2, <1>5, <2>1 DEF CyclesTypeOK
<1>7. PeriodRuns'
  <2>1. CASE RunsOn
    BY <1>1, <1>2, <1>3, <2>1 DEF PeriodRuns, RunsOn
  <2>2. CASE Begins
    BY <1>1, <1>3, <2>2, NoneIs DEF PeriodRuns, Begins
  <2> QED  BY <1>4, <2>1, <2>2
<1>8. Shown'
  <2>1. CASE RunsOn
    <3>1. st.active # None => st.active.start <= now + 1
      BY <1>2, <1>3 DEF Shown, Books, Cycle
    <3>2. st.active # None => (Current' <=> Current)
      BY <1>1, <2>1 DEF Current, RunsOn
    <3> QED  BY <1>1, <1>2, <2>1, <3>1, <3>2 DEF Shown, RunsOn
  <2>2. CASE Begins
    <3> SUFFICES ASSUME st.active # None
                 PROVE  Shown'
      BY <1>1 DEF Shown
    <3>1. /\ st.active.resets \in Nat \cup {None} /\ st.active.period \in Nat
          /\ st.active.start \in Nat
      BY <1>3 DEF Books, Cycle
    <3>2. provider'.period # st.active.period /\ st.active.period <= provider'.period
      BY <1>2, <1>3, <2>2, <3>1 DEF Shown, Begins
    <3>3. ASSUME kind \in Stored, st.active.resets # None
          PROVE  /\ provider'.end # None => provider'.end > st.active.resets + Tolerance
                 /\ provider'.end = None => st.active.resets <= provider'.since + 1
                 /\ kind = "synthetic" => st.active.resets + Window <= provider'.end
      <4>1. st.active.resets \in Nat
        BY <3>1, <3>3
      <4>2. st.active.resets <= now + 2
        <5>1. CASE Current
          <6>1. provider.end # None /\ st.active.resets <= provider.end + 1
            BY <1>2, <1>3, <3>3, <5>1 DEF Shown
          <6> QED  BY <1>3, <2>2, <4>1, <6>1 DEF Begins
        <5>2. CASE ~Current
          <6>1. /\ provider.end # None => provider.end > st.active.resets + Tolerance
                /\ provider.end = None => st.active.resets <= provider.since + 1
            BY <1>2, <3>3, <5>2 DEF Shown
          <6> QED  BY <1>3, <2>2, <4>1, <6>1 DEF Begins
        <5> QED  BY <5>1, <5>2
      <4>3. kind = "synthetic" => /\ provider'.end = now + 1 + Window
                                  /\ st.active.resets <= now + 1
        <5> SUFFICES ASSUME kind = "synthetic"
                     PROVE  provider'.end = now + 1 + Window /\ st.active.resets <= now + 1
          OBVIOUS
        <5>1. provider.end = now + 1 /\ provider'.end = now + 1 + Window
          BY <1>2, <2>2 DEF PeriodRuns, Idling, Begins
        <5>2. CASE Current
          BY <1>2, <1>3, <3>3, <5>1, <5>2 DEF Shown, Jittery
        <5>3. CASE ~Current
          <6>1. st.active.resets + Window <= provider.end
            BY <1>2, <3>3, <5>3 DEF Shown
          <6> QED  BY <1>3, <4>1, <5>1, <6>1
        <5> QED  BY <5>2, <5>3
      <4>4. provider'.end # None => provider'.end = now + 1 + Window
        BY <2>2 DEF Begins
      <4> QED  BY <1>3, <2>2, <4>1, <4>2, <4>3, <4>4 DEF Begins
    <3>4. /\ st.active.start <= now /\ st.active.start <= provider'.since
          /\ st.active.resets # None => st.active.start <= st.active.resets
          /\ kind \in Valued => st.active.resets = None
          /\ kind \in Rolling => st.active.resets # None
          /\ kind \in Hourly => st.active.resets = st.active.start + Window
      <4>1. st.active.start <= now /\ provider'.since = now + 1
        BY <1>2, <2>2 DEF Shown, Begins
      <4>2. st.active.start <= provider'.since
        BY <1>3, <3>1, <4>1
      <4> QED  BY <1>2, <4>1, <4>2 DEF Shown
    <3> QED  BY <1>1, <1>3, <3>1, <3>2, <3>3, <3>4 DEF Shown, Current
  <2> QED  BY <1>4, <2>1, <2>2
<1>9. Remembered'
  <2>1. CASE RunsOn
    <3>1. st.mem.last \in Nat \cup {None}
      BY <1>3 DEF Books, Memory
    <3> QED  BY <1>1, <1>2, <1>3, <2>1, <3>1 DEF Remembered, Current, RunsOn
  <2>2. CASE Begins
    <3>1. st.active # None => provider'.period # st.active.period
      <4>1. st.active # None => st.active.period \in Nat
        BY <1>3 DEF Books, Cycle
      <4> QED  BY <1>2, <1>3, <2>2, <4>1 DEF Shown, Begins
    <3> QED  BY <1>1, <1>2, <3>1 DEF Remembered, Current
  <2> QED  BY <1>4, <2>1, <2>2
<1>10. Glitches'
  <2>1. st.mem.pending # None => st.mem.pending.resets \in Nat
    BY <1>3 DEF Books, Memory
  <2>2. st.mem.reset \in Nat \cup {None} /\ (st.active # None => st.active.resets \in Nat \cup {None})
    BY <1>3 DEF Books, Memory, Cycle
  <2>3. kind = "codex" /\ st.active # None => st.active.resets # None
    BY <1>2 DEF Shown, Rolling
  <2> QED  BY <1>1, <1>2, <1>3, <2>1, <2>2, <2>3 DEF Glitches
<1>11. Order'
  <2>1. st.history.end \in Nat
    BY <1>3 DEF Books
  <2> QED  BY <1>1, <1>2, <1>3, <2>1 DEF Order
<1>12. UseCounted'
  <2> DEFINE T == AllTracked(st)
  <2>Z. Countable' = Countable + used /\ Countable \in Nat
    BY <1>1, <1>3 DEF Countable
  <2> SUFFICES ASSUME ~half
               PROVE  UseCounted'
    BY <1>1 DEF UseCounted
  <2>1. T \in Nat /\ T <= Countable /\ T + used <= Countable'
    <3>1. T \in Nat
      BY <1>3, TrackedIs
    <3> QED  BY <1>2, <1>3, <2>Z, <3>1 DEF UseCounted
  <2>2. ASSUME st.active # None, st.mem.last # None
        PROVE  T + Positive(provider'.used - st.mem.last) <= Countable'
    <3>1. st.mem.last \in Nat
      BY <1>3, <2>2 DEF Books, Memory
    <3>2. CASE RunsOn
      <4>1. T + Positive(provider.used - st.mem.last) <= Countable
        BY <1>2, <2>2 DEF UseCounted
      <4>2. Positive(provider'.used - st.mem.last) <= Positive(provider.used - st.mem.last) + used
        BY <1>3, <3>1, <3>2 DEF RunsOn, Positive, Larger
      <4>3. Positive(provider'.used - st.mem.last) \in Nat /\ Positive(provider.used - st.mem.last) \in Nat
        BY <1>3, <3>1, <3>2, PositiveIs DEF RunsOn
      <4> QED  BY <1>3, <2>Z, <2>1, <4>1, <4>2, <4>3
    <3>3. CASE Begins
      <4>1. Positive(provider'.used - st.mem.last) <= used /\ Positive(provider'.used - st.mem.last) \in Nat
        BY <1>3, <3>1, <3>3 DEF Begins, Positive, Larger
      <4> QED  BY <1>3, <2>Z, <2>1, <4>1
    <3> QED  BY <1>4, <3>2, <3>3
  <2>3. ASSUME kind = "codex", st.active # None, st.active.resets < provider'.end
        PROVE  T + provider'.used <= Countable'
    <3>1. CASE RunsOn
      <4>1. T + provider.used <= Countable
        BY <1>2, <2>3, <3>1 DEF UseCounted, RunsOn
      <4> QED  BY <1>3, <2>Z, <2>1, <3>1, <4>1 DEF RunsOn
    <3>2. CASE Begins
      BY <2>1, <3>2 DEF Begins
    <3> QED  BY <1>4, <3>1, <3>2
  <2>4. T <= Countable'
    BY <1>3, <2>Z, <2>1
  <2> QED  BY <1>1, <2>2, <2>3, <2>4 DEF UseCounted
<1>13. ResetIsSeen' /\ SummaryMissesNothing'
  BY <1>1, <1>2 DEF ResetIsSeen, SummaryMissesNothing
<1> QED  BY <1>6, <1>7, <1>8, <1>9, <1>10, <1>11, <1>12, <1>13 DEF CyclesInv

LEMMA EarlyResetKeeps ==
  ASSUME CyclesInv, EarlyReset
  PROVE  CyclesInv'
<1>1. /\ CyclesTypeOK /\ PeriodRuns /\ Shown /\ Remembered /\ Glitches /\ Order /\ UseCounted
      /\ ResetIsSeen /\ SummaryMissesNothing
  BY DEF CyclesInv
<1>2. /\ now \in Nat /\ Window \in Nat /\ Tolerance \in Nat /\ Window > Tolerance + 1
      /\ provider.end \in Nat /\ provider.period \in Nat /\ provider.used \in Nat
      /\ provider.since \in 0 .. now /\ st \in Books /\ MaxUse \in Nat
      /\ now < provider.end /\ provider.end <= now + Window
  BY <1>1, CyclesConstants, BooksOf DEF CyclesTypeOK, EarlyReset, PeriodRuns
<1>3. /\ provider' = [used |-> 0, end |-> now + Window, period |-> provider.period + 1, since |-> now]
      /\ kind # "synthetic" /\ due /\ now > provider.end - Window + Tolerance + 1
      /\ UNCHANGED <<kind, now, due, consumed, st, outcome, faults, half, glitched, recounted, reading>>
  BY DEF EarlyReset, Begun
<1>4. /\ provider'.used = 0 /\ provider'.end = now + Window /\ provider'.since = now
      /\ provider'.period = provider.period + 1
      /\ provider' \in [used : 0 .. MaxUse, end : Nat \cup {None}, period : Nat, since : 0 .. now]
  BY <1>2, <1>3
<1>5. st.active # None => provider'.period # st.active.period /\ st.active.period <= provider'.period
  <2>1. st.active # None => st.active.period \in Nat
    BY <1>2 DEF Books, Cycle
  <2> QED  BY <1>1, <1>2, <1>4, <2>1 DEF Shown
<1>6. CyclesTypeOK'
  BY <1>1, <1>3, <1>4 DEF CyclesTypeOK
<1>7. PeriodRuns'
  BY <1>1, <1>2, <1>3, <1>4, CyclesConstants DEF PeriodRuns
<1>8. Shown'
  <2> SUFFICES ASSUME st.active # None
               PROVE  Shown'
    BY <1>3 DEF Shown
  <2>1. ASSUME kind \in Stored, st.active.resets # None
        PROVE  provider'.end > st.active.resets + Tolerance
    <3>1. st.active.resets \in Nat
      BY <1>2, <2>1 DEF Books, Cycle
    <3>2. CASE Current
      <4>1. st.active.resets <= provider.end + 1
        BY <1>1, <1>2, <2>1, <3>2 DEF Shown
      <4> QED  BY <1>2, <1>3, <1>4, <3>1, <4>1
    <3>3. CASE ~Current
      <4>1. provider.end > st.active.resets + Tolerance
        BY <1>1, <1>2, <2>1, <3>3, NoneIs DEF Shown
      <4> QED  BY <1>2, <1>4, <3>1, <4>1
    <3> QED  BY <3>2, <3>3
  <2>2. provider'.end # None
    BY <1>2, <1>4, NoneIs
  <2>3. /\ st.active.start <= now /\ st.active.start <= provider'.since
        /\ st.active.resets # None => st.active.start <= st.active.resets
        /\ kind \in Valued => st.active.resets = None
        /\ kind \in Rolling => st.active.resets # None
        /\ kind \in Hourly => st.active.resets = st.active.start + Window
    BY <1>1, <1>4 DEF Shown
  <2> QED  BY <1>3, <1>5, <2>1, <2>2, <2>3 DEF Shown, Current
<1>9. Remembered'
  BY <1>1, <1>3, <1>5 DEF Remembered, Current
<1>10. Glitches' /\ Order'
  BY <1>1, <1>3 DEF Glitches, Order
<1>11. UseCounted'
  <2> DEFINE T == AllTracked(st)
  <2>1. T \in Nat
    BY <1>2, TrackedIs
  <2>2. st.mem.last # None => Positive(provider'.used - st.mem.last) = 0
    <3>1. st.mem.last \in Nat \cup {None}
      BY <1>2 DEF Books, Memory
    <3> QED  BY <1>4, <3>1, PositiveIs
  <2>3. T + 0 = T
    BY <2>1
  <2> SUFFICES ASSUME ~half
               PROVE  UseCounted'
    BY <1>3 DEF UseCounted
  <2>4. T <= Countable
    BY <1>1 DEF UseCounted
  <2>5. T <= Countable'
    BY <1>3, <2>4 DEF Countable
  <2>6. ASSUME st.active # None, st.mem.last # None
        PROVE  T + Positive(provider'.used - st.mem.last) <= Countable'
    <3> HIDE DEF T
    <3> QED  BY <2>2, <2>3, <2>5, <2>6
  <2>7. T + provider'.used <= Countable'
    <3> HIDE DEF T
    <3> QED  BY <1>4, <2>3, <2>5
  <2> QED  BY <1>3, <2>5, <2>6, <2>7 DEF UseCounted
<1>12. ResetIsSeen' /\ SummaryMissesNothing'
  <2>1. outcome' # "ok"
    BY <1>1, <1>3 DEF PeriodRuns
  <2> QED  BY <1>1, <1>3, <2>1 DEF ResetIsSeen, SummaryMissesNothing, TotalTracked
<1> QED  BY <1>6, <1>7, <1>8, <1>9, <1>10, <1>11, <1>12 DEF CyclesInv

\* Nothing but the memory is lost or gains a flag.
LEMMA MemoryStep ==
  ASSUME CyclesInv, PollWithout \/ Restart
  PROVE  CyclesInv'
<1>1. /\ CyclesTypeOK /\ PeriodRuns /\ Shown /\ Remembered /\ Glitches /\ Order /\ UseCounted
      /\ ResetIsSeen /\ SummaryMissesNothing /\ st \in Books
  BY BooksOf DEF CyclesInv
<1> DEFINE told == [st EXCEPT !.mem.has = TRUE]
           lost == [st EXCEPT !.mem = Forgotten]
<1>2. /\ told \in Books /\ told.active = st.active /\ told.history = st.history
      /\ told.mem.last = st.mem.last /\ told.mem.reset = st.mem.reset
      /\ told.mem.pending = st.mem.pending
  BY <1>1 DEF Books, Memory
<1>3. /\ lost \in Books /\ lost.active = st.active /\ lost.history = st.history
      /\ lost.mem.last = None /\ lost.mem.reset = None /\ lost.mem.pending = None
  BY <1>1 DEF Books, Memory, Forgotten
<1>4. /\ kind' = kind /\ now' = now /\ provider' = provider /\ consumed' = consumed
      /\ outcome' = outcome /\ faults' = faults /\ half' = half /\ glitched' = glitched
      /\ recounted' = recounted
      /\ due /\ due' \in {FALSE, due} /\ reading' \in {reading, None}
      /\ st' = told \/ st' = lost
  BY DEF PollWithout, Restart
<1> HIDE DEF told, lost
<1>5. /\ st' \in Books /\ st'.active = st.active /\ st'.history = st.history
      /\ \/ /\ st'.mem.last = st.mem.last /\ st'.mem.reset = st.mem.reset
            /\ st'.mem.pending = st.mem.pending
         \/ st'.mem.last = None /\ st'.mem.reset = None /\ st'.mem.pending = None
  BY <1>2, <1>3, <1>4
<1>6. CyclesTypeOK'
  BY <1>1, <1>4, <1>5 DEF CyclesTypeOK, Books
<1>7. PeriodRuns' /\ Shown' /\ Order'
  BY <1>1, <1>4, <1>5 DEF PeriodRuns, Shown, Current, Order
<1>8. Remembered' /\ Glitches'
  BY <1>1, <1>4, <1>5 DEF Remembered, Current, Glitches
<1>9. UseCounted'
  BY <1>1, <1>4, <1>5 DEF UseCounted, Countable, AllTracked, Queried
<1>10. ResetIsSeen' /\ SummaryMissesNothing'
  BY <1>1, <1>4, <1>5 DEF ResetIsSeen, SummaryMissesNothing, TotalTracked, Queried, SummaryOrder
<1> QED  BY <1>6, <1>7, <1>8, <1>9, <1>10 DEF CyclesInv

LEMMA SummaryStep ==
  ASSUME CyclesInv, SummaryBegins \/ SummaryEnds \/ EndOfTime \/ UNCHANGED cyclesVars
  PROVE  CyclesInv'
<1>1. /\ CyclesTypeOK /\ PeriodRuns /\ Shown /\ Remembered /\ Glitches /\ Order /\ UseCounted
      /\ ResetIsSeen /\ SummaryMissesNothing /\ st \in Books
  BY BooksOf DEF CyclesInv
<1>2. UNCHANGED <<kind, now, due, provider, consumed, st, outcome, faults, half, glitched,
                recounted>>
  BY DEF SummaryBegins, SummaryEnds, EndOfTime, cyclesVars
<1>3. /\ reading' \in [got : Nat, floor : Nat] \cup {None}
      /\ SummaryMissesNothing'
  <2>1. CASE SummaryBegins
    <3>1. /\ reading' = [got |-> Queried("active", st), floor |-> AllTracked(st)]
          /\ TotalTracked' = reading'.got + Queried("history", st)
      BY <1>2, <2>1 DEF SummaryBegins, SummaryOrder, TotalTracked
    <3>2. Queried("active", st) \in Nat /\ Queried("history", st) \in Nat /\ AllTracked(st) \in Nat
      <4>1. st.history.tracked \in Nat /\ (st.active # None => st.active.delta \in Nat)
        BY <1>1 DEF Books, Cycle
      <4> QED  BY <1>1, <4>1, TrackedIs DEF Queried
    <3>3. reading'.got = Queried("active", st) /\ reading'.floor = AllTracked(st)
      BY <3>1
    <3>4. reading' \in [got : Nat, floor : Nat]
      BY <3>1, <3>2
    <3>5. TotalTracked' = reading'.floor
      BY <3>1, <3>3 DEF AllTracked
    <3>6. TotalTracked' >= reading'.floor
      BY <3>2, <3>3, <3>5
    <3> QED  BY <3>4, <3>6 DEF SummaryMissesNothing
  <2>2. CASE SummaryEnds
    BY <2>2 DEF SummaryEnds, SummaryMissesNothing
  <2>3. CASE UNCHANGED reading
    BY <1>1, <1>2, <2>3 DEF CyclesTypeOK, SummaryMissesNothing, TotalTracked
  <2> QED  BY <2>1, <2>2, <2>3 DEF EndOfTime, cyclesVars
<1>4. CyclesTypeOK'
  BY <1>1, <1>2, <1>3 DEF CyclesTypeOK
<1>5. PeriodRuns' /\ Shown' /\ Remembered' /\ Glitches' /\ Order'
  BY <1>1, <1>2 DEF PeriodRuns, Shown, Current, Remembered, Glitches, Order
<1>6. UseCounted' /\ ResetIsSeen'
  BY <1>1, <1>2 DEF UseCounted, Countable, ResetIsSeen
<1> QED  BY <1>3, <1>4, <1>5, <1>6 DEF CyclesInv

LEMMA SampleKeeps ==
  ASSUME CyclesInv, Poll \/ PollFails \/ Glitch
  PROVE  CyclesInv'
<1>1. /\ CyclesTypeOK /\ PeriodRuns /\ Shown /\ Remembered /\ Glitches /\ Order /\ UseCounted
      /\ ResetIsSeen /\ SummaryMissesNothing
  BY DEF CyclesInv
<1>2. PICK snap, q : Sampling(snap, q)
  BY <1>1, PollSampling, GlitchSampling
<1> QED  BY <1>1, <1>2, SampledType, SampledPeriod, SampledShown, SampledRemembered, SampledGlitches,
            SampledOrder, SampledCounted, SampledSeen, SampledSummary DEF CyclesInv

LEMMA CyclesInvInitially == CyclesInit => CyclesInv
<1> SUFFICES ASSUME CyclesInit
             PROVE  CyclesInv
  OBVIOUS
<1>1. /\ Window \in Nat /\ Window > 0 /\ MaxTime[kind] \in Nat /\ MaxUse \in Nat /\ MaxFaults \in Nat
      /\ kind \in Kinds
  BY CyclesConstants DEF CyclesInit
<1>2. st = [active |-> None, mem |-> Forgotten, history |-> [count |-> 0, tracked |-> 0, end |-> 0]]
  BY DEF CyclesInit
<1>3. Forgotten \in Memory
  BY DEF Forgotten, Memory
<1>4. /\ st \in Books /\ st.active = None /\ st.history.end = 0 /\ st.history.tracked = 0
      /\ st.mem.last = None /\ st.mem.reset = None /\ st.mem.pending = None
  BY <1>2, <1>3 DEF Books, Forgotten
<1>5. /\ now = 0 /\ provider.end \in 1 .. Window /\ provider.end # None /\ consumed = 0
      /\ outcome = "none" /\ reading = None
      /\ provider \in [used : 0 .. MaxUse, end : Nat \cup {None}, period : Nat, since : 0 .. now]
      /\ recounted = 0
  <2>1. PICK end \in FirstEnds : provider = [used |-> 0, end |-> end, period |-> 0, since |-> 0]
    BY DEF CyclesInit
  <2>2. end \in 1 .. Window /\ end \in Nat
    BY <1>1, <2>1 DEF FirstEnds
  <2> QED  BY <1>1, <2>1, <2>2, NoneIs DEF CyclesInit
<1>6. CyclesTypeOK
  <2>1. faults \in 0 .. MaxFaults /\ now \in 0 .. MaxTime[kind]
    BY <1>1 DEF CyclesInit
  <2> QED  BY <1>4, <1>5, <2>1 DEF CyclesInit, CyclesTypeOK, Books
<1>7. PeriodRuns /\ Shown /\ Remembered /\ Glitches /\ Order
  BY <1>1, <1>4, <1>5 DEF PeriodRuns, Shown, Remembered, Glitches, Order
<1>8. UseCounted /\ ResetIsSeen /\ SummaryMissesNothing
  BY <1>4, <1>5, TrackedIs DEF UseCounted, Countable, ResetIsSeen, SummaryMissesNothing
<1> QED  BY <1>6, <1>7, <1>8 DEF CyclesInv

\* The inductive invariant: the announced ends, the open cycle, what the tracker
\* remembers and what was used agree after every snapshot of every tracker, whatever
\* statement of processQuota fails, and between the queries of UsageSummary.
THEOREM CyclesInvHolds == CyclesSpec => []CyclesInv
<1>1. CyclesInit => CyclesInv
  BY CyclesInvInitially
<1>2. CyclesInv /\ [CyclesNext]_cyclesVars => CyclesInv'
  BY TickKeeps, EarlyResetKeeps, MemoryStep, SummaryStep, SampleKeeps DEF CyclesNext
<1> QED  BY <1>1, <1>2, PTL DEF CyclesSpec

-----------------------------------------------------------------------------
(* What the invariant is for. *)

\* A step closes a cycle only with a snapshot that shows a reset.
LEMMA ClosingStep ==
  ASSUME CyclesInv, CyclesNext, Closing
  PROVE  \E snap, q : /\ Sampling(snap, q) /\ st.active # None /\ ResetSeen(st, snap)
                      /\ Reopened(st, q, snap)
<1>1. CyclesTypeOK /\ PeriodRuns /\ st.history.count \in Nat
  BY DEF CyclesInv, CyclesTypeOK
<1>2. st'.history # st.history /\ st'.history.count # st.history.count
  BY <1>1 DEF Closing
<1>3. ASSUME Poll \/ PollFails \/ Glitch
      PROVE  \E snap, q : /\ Sampling(snap, q) /\ st.active # None /\ ResetSeen(st, snap)
                          /\ Reopened(st, q, snap)
  <2>1. PICK snap, q : Sampling(snap, q)
    BY <1>1, <1>3, PollSampling, GlitchSampling
  <2>2. q.st = st'
    BY <2>1 DEF Sampling
  <2> QED  BY <1>2, <2>1, <2>2, SampleCases DEF Untouched, Continued, Pended
<1>4. ASSUME PollWithout \/ Restart
      PROVE  st'.history = st.history
  BY <1>1, <1>4 DEF PollWithout, Restart, CyclesTypeOK
<1> QED  BY <1>2, <1>3, <1>4
         DEF CyclesNext, Tick, EarlyReset, EndOfTime, SummaryBegins, SummaryEnds, cyclesVars

\* The variables of the trackers, of the provider and of a summary stay in their sets.
THEOREM CyclesTypeCorrect == CyclesSpec => []CyclesTypeOK
<1>1. CyclesInv => CyclesTypeOK
  BY DEF CyclesInv
<1> QED  BY <1>1, CyclesInvHolds, PTL

\* Closed cycles follow one another in time: CloseCycle never writes an end before the
\* start of its cycle, and the cycle that is created next starts no earlier.
THEOREM CyclesFollow == CyclesSpec => CyclesInOrder
<1>1. ASSUME CyclesInv, [CyclesNext]_cyclesVars
      PROVE  [ Closing =>
                 /\ st.history.end <= st.active.start
                 /\ st.active.start <= st'.history.end
                 /\ st'.active # None => st'.history.end <= st'.active.start ]_cyclesVars
  <2> SUFFICES ASSUME CyclesNext, Closing
               PROVE  /\ st.history.end <= st.active.start
                      /\ st.active.start <= st'.history.end
                      /\ st'.active # None => st'.history.end <= st'.active.start
    BY <1>1
  <2>1. PICK snap, q : Sampling(snap, q) /\ st.active # None /\ Reopened(st, q, snap)
    BY <1>1, ClosingStep
  <2>2. PICK d \in Nat : Ended(st, snap, d, st')
    BY <2>1 DEF Reopened, Sampling
  <2>3. snap \in Snapshots /\ snap.at = now /\ st.active \in Cycle
    BY <1>1, <2>1 DEF Sampling, CyclesInv, CyclesTypeOK
  <2>4. st.active.start <= now /\ (st.active.resets # None => st.active.start <= st.active.resets)
    BY <1>1, <2>1 DEF CyclesInv, Shown
  <2>5. st.active.start <= CycleEnd(st.active, snap)
    BY <2>3, <2>4, CycleEndIs
  <2>6. st'.history.end = CycleEnd(st.active, snap)
    BY <2>2 DEF Ended
  <2>7. CyclesInv'
    BY <1>1, SampleKeeps, TickKeeps, EarlyResetKeeps, MemoryStep, SummaryStep DEF CyclesNext
  <2> QED  BY <1>1, <2>1, <2>5, <2>6, <2>7 DEF CyclesInv, Order
<1> QED  BY <1>1, CyclesInvHolds, PTL DEF CyclesInOrder, CyclesSpec

\* Two equal steps of an hour further are in the same hour.
LEMMA HourOn ==
  ASSUME NEW x \in Nat, NEW w \in Nat, w > 0
  PROVE  (x + w) \div w = x \div w + 1
BY Z3

\* The moving end of the search quota is in another hour only if the clock is.
LEMMA SearchReset ==
  ASSUME CyclesTypeOK, Shown, NEW snap, NEW q, Sampling(snap, q), st.active # None,
         kind \in Hourly, ResetSeen(st, snap)
  PROVE  Hour(st.active.start) # Hour(now)
<1>1. /\ st.active.start \in Nat /\ now \in Nat /\ Window \in Nat /\ Window > 0 /\ Grace \in Nat
      /\ snap.at = now
  BY CyclesConstants DEF CyclesTypeOK, Cycle, Sampling
<1>2. st.active.resets = st.active.start + Window /\ snap.resets = now + Window
  BY DEF Shown, Sampling, EndShown, Hourly
<1>3. CASE Passed(st.active, snap)
  <2>1. st.active.start + Window <= now
    BY <1>1, <1>2, <1>3 DEF Passed
  <2> QED  BY <1>1, <2>1, OtherPeriod DEF Hour
<1>4. CASE Hour(st.active.resets) # Hour(snap.resets)
  <2>1. /\ (st.active.start + Window) \div Window = st.active.start \div Window + 1
        /\ (now + Window) \div Window = now \div Window + 1
    BY <1>1, HourOn
  <2>2. (st.active.start + Window) \div Window # (now + Window) \div Window
    BY <1>2, <1>4 DEF Hour
  <2>3. st.active.start \div Window # now \div Window
    BY <2>1, <2>2, Zenon
  <2> QED  BY <2>3 DEF Hour
<1> QED  BY <1>3, <1>4 DEF ResetSeen, Hourly, Valued

\* No cycle is closed in the period it was opened in: processQuota takes neither
\* jitter, the end that codex or gemini moves on, a codex glitch nor a restart for a
\* reset, unless a write that was lost has left the tracker with the values of another
\* cycle; the moving end of Synthetic's search quota it takes for one only in another
\* hour of the clock.
THEOREM ResetsAreReal == CyclesSpec => NoFalseReset
<1>1. ASSUME CyclesInv, [CyclesNext]_cyclesVars
      PROVE  [ Closing =>
                 \/ st.active.period # provider.period
                 \/ (half /\ kind \notin Stored \cup Hourly)
                 \/ (kind \in Hourly /\ Hour(st.active.start) # Hour(now)) ]_cyclesVars
  <2> SUFFICES ASSUME CyclesNext, Closing
               PROVE  \/ st.active.period # provider.period
                      \/ (half /\ kind \notin Stored \cup Hourly)
                      \/ (kind \in Hourly /\ Hour(st.active.start) # Hour(now))
    BY <1>1
  <2>1. PICK snap, q : Sampling(snap, q) /\ st.active # None /\ ResetSeen(st, snap)
    BY <1>1, ClosingStep
  <2>2. CASE kind \in Hourly
    BY <1>1, <2>1, <2>2, SearchReset DEF CyclesInv
  <2>3. CASE kind \notin Hourly
    BY <1>1, <2>1, <2>3, NoResetSeen DEF CyclesInv, Current
  <2> QED  BY <2>2, <2>3
<1> QED  BY <1>1, CyclesInvHolds, PTL DEF NoFalseReset, CyclesSpec

\* A tracker that compares a snapshot with the cycle in its table sees every reset: a
\* snapshot that was processed leaves an open cycle of an older period only when that
\* period ended a moment ago (the search quota's: less than an hour) or its cycle showed
\* no end.
THEOREM NoResetUnseen == CyclesSpec => []ResetIsSeen
<1>1. CyclesInv => ResetIsSeen
  BY DEF CyclesInv
<1> QED  BY <1>1, CyclesInvHolds, PTL

\* The cycles never claim more use than there was and, for each codex glitch that met a
\* tracker with no value to compare it with, the use of its period once more: the growth
\* between two snapshots is added to one cycle, and once, whatever the tracker has missed
\* or forgotten, unless the write that would have moved its memory to a new cycle was lost.
THEOREM UseIsCountedOnce == CyclesSpec => []TrackedWasUsed
<1>1. CyclesInv => TrackedWasUsed
  BY DEF CyclesInv, UseCounted, Countable, TrackedWasUsed
<1> QED  BY <1>1, CyclesInvHolds, PTL

\* A summary misses nothing that was tracked before its first query: UsageSummary reads
\* the open cycle before the history, so that a cycle closed in between is in one.
THEOREM SummaryIsWhole == CyclesSpec => []SummaryMissesNothing
<1>1. CyclesInv => SummaryMissesNothing
  BY DEF CyclesInv
<1> QED  BY <1>1, CyclesInvHolds, PTL
=============================================================================
