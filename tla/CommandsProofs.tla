--------------------------- MODULE CommandsProofs ---------------------------
(***************************************************************************)
(* The command table for every well-named table and any variables.  The    *)
(* inductive invariant says what commands_init and main() have put in the  *)
(* environment so far, and that the object of command k is the k-th made.  *)
(***************************************************************************)
EXTENDS Commands, SequenceTheorems, TLAPS

----------------------------------------------------------------------------
(* What EnvMap's lookup and put do to the value of a word.                 *)

\* The value the bindings q give to w; 0 stands for none.
ValueIn(q, w) ==
  IF \E e \in 1 .. Len(q) : q[e].symbol = w
  THEN q[CHOOSE e \in 1 .. Len(q) : q[e].symbol = w].value ELSE 0

Distinct(q) == \A e, f \in 1 .. Len(q) : q[e].symbol = q[f].symbol => e = f

Bindings(S) == [symbol : S, value : Nat \ {0}]

LEMMA ValueOf ==
  ASSUME NEW q, Distinct(q), NEW e \in 1 .. Len(q)
  PROVE  ValueIn(q, q[e].symbol) = q[e].value
<1>1. \A f \in 1 .. Len(q) : q[f].symbol = q[e].symbol => f = e
  BY DEF Distinct
<1>2. QED
  BY <1>1 DEF ValueIn

LEMMA ValueNone ==
  ASSUME NEW q, NEW w, \A e \in 1 .. Len(q) : q[e].symbol # w
  PROVE  ValueIn(q, w) = 0
BY DEF ValueIn

\* The place and the value of a word.
LEMMA PlaceValue ==
  ASSUME NEW S, entries \in Seq(Bindings(S)), Distinct(entries), NEW w
  PROVE  /\ Environment!Place(w) = 0 => ValueIn(entries, w) = 0
                                        /\ \A e \in 1 .. Len(entries) : entries[e].symbol # w
         /\ Environment!Place(w) # 0 =>
              /\ Environment!Place(w) \in 1 .. Len(entries)
              /\ entries[Environment!Place(w)].symbol = w
              /\ entries[Environment!Place(w)].value = ValueIn(entries, w)
              /\ ValueIn(entries, w) \in Nat \ {0}
<1>1. CASE \A e \in 1 .. Len(entries) : entries[e].symbol # w
  <2>1. Environment!Place(w) = 0
    BY <1>1 DEF Environment!Place
  <2>2. QED
    BY <1>1, <2>1, ValueNone
<1>2. ASSUME NEW e \in 1 .. Len(entries), entries[e].symbol = w
      PROVE  /\ Environment!Place(w) = e /\ e # 0
             /\ ValueIn(entries, w) = entries[e].value /\ entries[e].value \in Nat \ {0}
  <2>1. \A f \in 1 .. Len(entries) : entries[f].symbol = w => f = e
    BY <1>2 DEF Distinct
  <2>2. Environment!Place(w) = e
    BY <1>2, <2>1 DEF Environment!Place
  <2>3. ValueIn(entries, w) = entries[e].value
    BY <1>2, ValueOf
  <2>4. entries[e] \in Bindings(S)
    BY ElementOfSeq
  <2>5. QED
    BY <2>2, <2>3, <2>4 DEF Bindings
<1>3. QED
  BY <1>1, <1>2

\* A put changes the value of its symbol and of no other word.
LEMMA PutValue ==
  ASSUME NEW S, entries \in Seq(Bindings(S)), Distinct(entries),
         NEW s \in S, NEW v \in Nat \ {0}, Environment!Put(s, v)
  PROVE  /\ entries' \in Seq(Bindings(S)) /\ Distinct(entries')
         /\ ValueIn(entries', s) = v
         /\ \A w : w # s => ValueIn(entries', w) = ValueIn(entries, w)
<1> DEFINE P == Environment!Pair(s, v)
<1>1. P \in Bindings(S) /\ P.symbol = s /\ P.value = v
  BY DEF Environment!Pair, Bindings
<1>2. entries' = IF Environment!Place(s) = 0 THEN Append(entries, P)
                 ELSE [entries EXCEPT ![Environment!Place(s)] = P]
  BY DEF Environment!Put
<1> HIDE DEF P
<1>3. PICK n \in Nat : n = Len(entries)
  OBVIOUS
<1>4. ASSUME NEW w, w # s, entries' \in Seq(Bindings(S)), Distinct(entries'),
             \A e \in 1 .. n : entries[e].symbol = w => e \in 1 .. Len(entries') /\ entries'[e] = entries[e],
             \A e \in 1 .. Len(entries') : entries'[e].symbol = w => e \in 1 .. n /\ entries'[e] = entries[e]
      PROVE  ValueIn(entries', w) = ValueIn(entries, w)
  <2>1. CASE \A e \in 1 .. n : entries[e].symbol # w
    <3>1. \A e \in 1 .. Len(entries') : entries'[e].symbol # w
      BY <1>4, <2>1
    <3>2. QED
      BY <1>3, <2>1, <3>1, ValueNone
  <2>2. ASSUME NEW e \in 1 .. n, entries[e].symbol = w PROVE ValueIn(entries', w) = ValueIn(entries, w)
    <3>1. e \in 1 .. Len(entries') /\ entries'[e] = entries[e]
      BY <1>4, <2>2
    <3>2. ValueIn(entries, w) = entries[e].value
      BY <1>3, <2>2, ValueOf
    <3>3. ValueIn(entries', w) = entries'[e].value
      BY <1>4, <2>2, <3>1, ValueOf
    <3>4. QED
      BY <3>1, <3>2, <3>3
  <2>3. QED
    BY <2>1, <2>2
<1>5. CASE Environment!Place(s) = 0
  <2>1. /\ entries' \in Seq(Bindings(S)) /\ Len(entries') = n + 1 /\ entries'[n + 1] = P
        /\ \A e \in 1 .. n : entries'[e] = entries[e]
    BY <1>1, <1>2, <1>3, <1>5, AppendProperties
  <2>2. \A e \in 1 .. n : entries[e].symbol # s
    BY <1>3, <1>5, PlaceValue
  <2>3. Distinct(entries')
    BY <1>1, <1>3, <2>1, <2>2 DEF Distinct
  <2>4. n + 1 \in 1 .. Len(entries') /\ entries'[n + 1].symbol = s /\ entries'[n + 1].value = v
    BY <1>1, <2>1
  <2>5. ValueIn(entries', s) = v
    BY <2>3, <2>4, ValueOf
  <2>6. ASSUME NEW w, w # s PROVE ValueIn(entries', w) = ValueIn(entries, w)
    <3>1. \A e \in 1 .. Len(entries') : entries'[e].symbol = w => e \in 1 .. n /\ entries'[e] = entries[e]
      BY <1>1, <2>1, <2>6
    <3>2. \A e \in 1 .. n : e \in 1 .. Len(entries') /\ entries'[e] = entries[e]
      BY <2>1
    <3>3. QED
      BY <1>4, <2>1, <2>3, <2>6, <3>1, <3>2
  <2>7. QED
    BY <2>1, <2>3, <2>5, <2>6
<1>6. CASE Environment!Place(s) # 0
  <2>1. PICK p \in 1 .. n : p = Environment!Place(s) /\ entries[p].symbol = s
    BY <1>3, <1>6, PlaceValue
  <2>2. /\ entries' \in Seq(Bindings(S)) /\ Len(entries') = n /\ entries'[p] = P
        /\ \A e \in 1 .. n : e # p => entries'[e] = entries[e]
    BY <1>1, <1>2, <1>3, <1>6, <2>1, ExceptSeq
  <2>3. \A e \in 1 .. n : entries'[e].symbol = entries[e].symbol
    BY <1>1, <2>1, <2>2
  <2>4. Distinct(entries')
    BY <1>3, <2>2, <2>3 DEF Distinct
  <2>5. ValueIn(entries', s) = v
    BY <1>1, <2>2, <2>4, ValueOf
  <2>6. ASSUME NEW w, w # s PROVE ValueIn(entries', w) = ValueIn(entries, w)
    <3>1. \A e \in 1 .. n : entries[e].symbol = w => e # p
      BY <2>1, <2>6
    <3>2. \A e \in 1 .. Len(entries') : entries'[e].symbol = w => e \in 1 .. n /\ entries'[e] = entries[e]
      BY <2>2, <2>3, <3>1
    <3>3. \A e \in 1 .. n : entries[e].symbol = w => e \in 1 .. Len(entries') /\ entries'[e] = entries[e]
      BY <2>2, <3>1
    <3>4. QED
      BY <1>4, <2>2, <2>4, <2>6, <3>2, <3>3
  <2>7. QED
    BY <2>2, <2>4, <2>5, <2>6
<1>7. QED
  BY <1>5, <1>6

----------------------------------------------------------------------------
(* The invariant.                                                          *)

n == Len(table)
m == Len(Variables)

WordsOfTables == UNION {{Word(t, l) : l \in Labels(t)} : t \in Tables}
WordsOfVariables == {Variables[j] : j \in 1 .. m}
Names == WordsOfTables \cup WordsOfVariables

Initialising == pc \in {"NEW", "NAME", "ALIAS"}
Deleting == pc \in {"DEINIT", "DELETE"}

\* The labels and the variables that have been put in the environment.
Put(l) == \/ ~Initialising
          \/ l[1] < i
          \/ l[1] = i /\ pc = "ALIAS" /\ l[2] = "name"
PutVar(j) == ~Initialising /\ (pc = "VARIABLES" => j < i)

Loops ==
  /\ table \in Tables
  /\ pc \in {"NEW", "NAME", "ALIAS", "VARIABLES", "READY", "DEINIT", "DELETE", "ENDED"}
  /\ i \in Nat \ {0}
  /\ pc \in {"NEW", "DEINIT"} => i <= n + 1
  /\ pc \in {"NAME", "ALIAS", "DELETE"} => i <= n
  /\ pc = "VARIABLES" => i <= m + 1

\* How often the object of a command has been deleted.
Deletes(k) == IF (Deleting /\ k < i) \/ pc = "ENDED" THEN 1 ELSE 0

\* The objects of the commands, in their order, and those of the variables.
Objects ==
  /\ heap \in Seq([type : {"COMMAND", "INTEGER"}, command : Nat, deletes : Nat])
  /\ Len(heap) = CASE pc = "NEW"              -> i - 1
                   [] pc \in {"NAME", "ALIAS"} -> i
                   [] pc = "VARIABLES"         -> n + i - 1
                   [] OTHER                    -> n + m
  /\ \A k \in 1 .. Len(heap) :
       IF k <= n THEN heap[k] = [type |-> "COMMAND", command |-> k, deletes |-> Deletes(k)]
                 ELSE heap[k] = Object("INTEGER", NoCommand)

\* A word is bound when it has been put, to the object it belongs to.
LabelsBound ==
  pc # "ENDED" => \A l \in Labels(table) : Put(l) => ValueIn(entries, Word(table, l)) = l[1]
VariablesBound ==
  pc # "ENDED" => \A j \in 1 .. m : PutVar(j) => ValueIn(entries, Variables[j]) = n + j
NothingElseBound ==
  pc # "ENDED" =>
    \A w : ValueIn(entries, w) # 0 => \/ \E l \in Labels(table) : Put(l) /\ Word(table, l) = w
                                      \/ \E j \in 1 .. m : PutVar(j) /\ Variables[j] = w
EntriesOK == pc # "ENDED" => entries \in Seq(Bindings(Names)) /\ Distinct(entries)

Found == pc = "DELETE" => answer[1].value = i

Lookups == /\ Initialising \/ pc = "VARIABLES" => last = NoLookup
           /\ HelpAgrees

IInv == /\ Loops /\ Objects
        /\ EntriesOK /\ LabelsBound /\ VariablesBound /\ NothingElseBound
        /\ Found /\ Lookups

----------------------------------------------------------------------------
(* The table.                                                              *)

LEMMA TableFacts ==
  ASSUME Loops
  PROVE  /\ n \in Nat /\ m \in Nat
         /\ \A k \in 1 .. n : <<k, "name">> \in Labels(table)
         /\ \A l, k \in Labels(table) : Word(table, l) = Word(table, k) => l = k
         /\ \A l \in Labels(table) : \A j \in 1 .. m : Word(table, l) # Variables[j]
<1>1. table \in Tables /\ WellNamed(table) /\ n \in Nat /\ m \in Nat
  BY TablesAssumption, VariablesAssumption DEF Loops, n, m
<1>2. QED
  BY <1>1 DEF WellNamed, n, m

\* A label is the place of a command and the kind of the word.
LEMMA LabelFacts ==
  ASSUME Loops, NEW l \in Labels(table)
  PROVE  /\ l[1] \in 1 .. n /\ l[1] \in Nat \ {0}
         /\ l[2] \in {"name", "alias"}
         /\ l = <<l[1], l[2]>>
         /\ Word(table, l) \in Names
<1>1. /\ l \in (1 .. n) \X {"name", "alias"}
  BY DEF Labels, n
<1>2. /\ l[1] \in 1 .. n /\ l[2] \in {"name", "alias"} /\ l = <<l[1], l[2]>>
  BY <1>1
<1>3. l[1] \in Nat \ {0}
  BY <1>2, TableFacts
<1>4. Word(table, l) \in WordsOfTables
  BY DEF Loops, WordsOfTables
<1>5. QED
  BY <1>2, <1>3, <1>4 DEF Names

LEMMA WordKept ==
  ASSUME NEW k \in 1 .. n, NEW x \in {"name", "alias"}, table[k][x] \notin {NULL, ""}
  PROVE  <<k, x>> \in Labels(table)
<1>1. <<k, x>> \in (1 .. n) \X {"name", "alias"} /\ <<k, x>>[1] = k /\ <<k, x>>[2] = x
  OBVIOUS
<1>2. QED
  BY <1>1 DEF Labels, n

\* A step that puts nothing.
LEMMA SameEntries ==
  ASSUME IInv, pc # "ENDED", UNCHANGED <<entries, table>>,
         \A l \in Labels(table) : Put(l)' <=> Put(l),
         \A j \in 1 .. m : PutVar(j)' <=> PutVar(j)
  PROVE  EntriesOK' /\ LabelsBound' /\ VariablesBound' /\ NothingElseBound'
<1>1. EntriesOK'
  BY DEF IInv, EntriesOK
<1>2. LabelsBound'
  BY DEF IInv, LabelsBound
<1>3. VariablesBound'
  BY DEF IInv, VariablesBound, n, m
<1>4. NothingElseBound'
  BY DEF IInv, NothingElseBound, m
<1>5. QED
  BY <1>1, <1>2, <1>3, <1>4

\* The step that puts the word of one label.
LEMMA LabelPut ==
  ASSUME IInv, Initialising, NEW k \in Labels(table), ~Put(k),
         Environment!Put(Word(table, k), k[1]), UNCHANGED table,
         pc' \in {"NEW", "ALIAS"},
         \A l \in Labels(table) : Put(l)' <=> Put(l) \/ l = k
  PROVE  EntriesOK' /\ LabelsBound' /\ VariablesBound' /\ NothingElseBound'
<1>1. /\ entries \in Seq(Bindings(Names)) /\ Distinct(entries)
      /\ Word(table, k) \in Names /\ k[1] \in Nat \ {0}
  <2>1. Word(table, k) \in Names /\ k[1] \in 1 .. n /\ n \in Nat
    BY TableFacts, LabelFacts DEF IInv
  <2>2. QED
    BY <2>1 DEF IInv, EntriesOK, Initialising
<1>2. /\ entries' \in Seq(Bindings(Names)) /\ Distinct(entries')
      /\ ValueIn(entries', Word(table, k)) = k[1]
      /\ \A w : w # Word(table, k) => ValueIn(entries', w) = ValueIn(entries, w)
  BY <1>1, PutValue
<1>3. EntriesOK'
  BY <1>2 DEF EntriesOK
<1>4. LabelsBound'
  <2>1. \A l \in Labels(table) : Put(l)' => ValueIn(entries', Word(table, l)) = l[1]
    <3>1. \A l \in Labels(table) : Put(l) => ValueIn(entries, Word(table, l)) = l[1]
      BY DEF IInv, LabelsBound, Initialising
    <3>2. \A l \in Labels(table) : l # k => Word(table, l) # Word(table, k)
      BY TableFacts DEF IInv
    <3>3. QED
      BY <1>2, <3>1, <3>2
  <2>2. QED
    BY <2>1 DEF LabelsBound
<1>5. VariablesBound'
  BY DEF VariablesBound, PutVar, Initialising
<1>6. NothingElseBound'
  <2>1. \A w : ValueIn(entries', w) # 0 => \E l \in Labels(table) : Put(l)' /\ Word(table, l) = w
    BY <1>2 DEF IInv, NothingElseBound, Initialising, PutVar
  <2>2. QED
    BY <2>1 DEF NothingElseBound
<1>7. QED
  BY <1>3, <1>4, <1>5, <1>6

----------------------------------------------------------------------------

LEMMA InitInv == Init => IInv
<1> SUFFICES ASSUME Init PROVE IInv
  OBVIOUS
<1>1. Loops
  BY TablesAssumption DEF Init, Loops, n
<1>2. Objects
  BY DEF Init, Objects
<1>3. EntriesOK /\ NothingElseBound
  BY DEF Init, Environment!Init, EntriesOK, Distinct, NothingElseBound, ValueIn, Bindings
<1>4. LabelsBound /\ VariablesBound
  <2>1. \A l \in Labels(table) : l[1] \in Nat /\ l[1] >= 1
    BY <1>1, LabelFacts
  <2>2. QED
    BY <2>1 DEF Init, LabelsBound, VariablesBound, Put, PutVar, Initialising
<1>5. Found /\ Lookups
  BY DEF Init, Found, Lookups, HelpAgrees
<1>6. QED
  BY <1>1, <1>2, <1>3, <1>4, <1>5 DEF IInv

LEMMA ObjectNewInv == ASSUME IInv, ObjectNew PROVE IInv'
<1>1. n \in Nat /\ m \in Nat /\ n' = n /\ i \in Nat \ {0} /\ i' = i /\ table' = table
  BY TableFacts DEF IInv, Loops, ObjectNew, rest, n
<1>2. Loops'
  BY <1>1 DEF IInv, Loops, ObjectNew, n
<1>3. Objects'
  <2> DEFINE O == Object("COMMAND", i)
  <2> DEFINE S == [type : {"COMMAND", "INTEGER"}, command : Nat, deletes : Nat]
  <2>1. O \in S /\ O = [type |-> "COMMAND", command |-> i, deletes |-> 0]
    BY <1>1 DEF Object
  <2>2. heap \in Seq(S) /\ Len(heap) = i - 1 /\ heap' = Append(heap, O) /\ i <= n
    BY DEF IInv, Objects, ObjectNew, n
  <2> HIDE DEF O, S
  <2>3. /\ heap' \in Seq(S) /\ Len(heap') = i /\ heap'[i] = O
        /\ \A k \in 1 .. i - 1 : heap'[k] = heap[k]
    BY <1>1, <2>1, <2>2, AppendProperties
  <2>4. \A k \in 1 .. i - 1 : heap[k] = [type |-> "COMMAND", command |-> k, deletes |-> 0]
    BY <1>1, <2>2 DEF IInv, Objects, ObjectNew, Deletes, Deleting
  <2>5. \A k \in 1 .. i : heap'[k] = [type |-> "COMMAND", command |-> k, deletes |-> 0] /\ k <= n
    <3>1. \A k \in 1 .. i : k = i \/ k \in 1 .. i - 1
      BY <1>1
    <3>2. QED
      <4>1. ASSUME NEW k \in 1 .. i, k = i
            PROVE  heap'[k] = [type |-> "COMMAND", command |-> k, deletes |-> 0] /\ k <= n
        BY <2>1, <2>2, <2>3, <4>1
      <4>2. ASSUME NEW k \in 1 .. i, k \in 1 .. i - 1
            PROVE  heap'[k] = [type |-> "COMMAND", command |-> k, deletes |-> 0] /\ k <= n
        BY <1>1, <2>2, <2>3, <2>4, <4>2
      <4>3. QED
        BY <3>1, <4>1, <4>2
  <2>6. pc' = "NAME" /\ \A k \in 1 .. i : Deletes(k)' = 0
    BY DEF ObjectNew, Deletes, Deleting
  <2>7. QED
    BY <1>1, <2>3, <2>5, <2>6 DEF Objects, S
<1>4. EntriesOK' /\ LabelsBound' /\ VariablesBound' /\ NothingElseBound'
  <2>1. \A l \in Labels(table) : Put(l)' <=> Put(l)
    BY <1>1 DEF ObjectNew, Put, Initialising
  <2>2. \A j \in 1 .. m : PutVar(j)' <=> PutVar(j)
    BY DEF ObjectNew, PutVar, Initialising
  <2>3. QED
    BY <1>1, <2>1, <2>2, SameEntries DEF ObjectNew
<1>5. Found' /\ Lookups'
  BY DEF ObjectNew, rest, IInv, Found, Lookups, HelpAgrees, Initialising
<1>6. QED
  BY <1>2, <1>3, <1>4, <1>5 DEF IInv

LEMMA PutNameInv == ASSUME IInv, PutName PROVE IInv'
<1>1. /\ n \in Nat /\ m \in Nat /\ n' = n /\ i \in Nat \ {0} /\ i' = i /\ table' = table
      /\ i <= n /\ Len(heap) = i
  BY TableFacts DEF IInv, Loops, Objects, PutName, rest, n
<1>2. Loops'
  BY <1>1 DEF IInv, Loops, PutName, n
<1>3. Objects'
  BY <1>1 DEF IInv, Objects, PutName, Deletes, Deleting
<1>4. EntriesOK' /\ LabelsBound' /\ VariablesBound' /\ NothingElseBound'
  <2>1. <<i, "name">> \in Labels(table)
    BY <1>1, TableFacts DEF IInv
  <2>2. Environment!Put(Word(table, <<i, "name">>), i)
    BY <1>1 DEF PutName, Word
  <2>3. \A l \in Labels(table) : Put(l)' <=> Put(l) \/ l = <<i, "name">>
    <3>1. \A l \in Labels(table) : l[1] = i => (l[2] = "name" <=> l = <<i, "name">>)
      BY LabelFacts DEF IInv
    <3>2. pc = "NAME" /\ pc' = "ALIAS"
      BY DEF PutName
    <3>3. QED
      BY <1>1, <3>1, <3>2 DEF Put, Initialising
  <2>4. ~Put(<<i, "name">>) /\ Initialising
    BY <1>1 DEF PutName, Put, Initialising
  <2>5. pc' \in {"NEW", "ALIAS"}
    BY DEF PutName
  <2>6. QED
    BY <1>1, <2>1, <2>2, <2>3, <2>4, <2>5, LabelPut
<1>5. Found' /\ Lookups'
  BY DEF PutName, rest, IInv, Found, Lookups, HelpAgrees, Initialising
<1>6. QED
  BY <1>2, <1>3, <1>4, <1>5 DEF IInv

LEMMA PutAliasInv == ASSUME IInv, PutAlias PROVE IInv'
<1>1. /\ n \in Nat /\ m \in Nat /\ n' = n /\ i \in Nat \ {0} /\ i' = i + 1 /\ table' = table
      /\ i <= n /\ Len(heap) = i /\ heap' = heap /\ pc = "ALIAS" /\ pc' = "NEW"
  BY TableFacts DEF IInv, Loops, Objects, PutAlias, rest, n
<1>2. Loops'
  <2>1. i' \in Nat \ {0} /\ i' <= n' + 1 /\ table' \in Tables
    BY <1>1 DEF IInv, Loops
  <2>2. QED
    BY <1>1, <2>1 DEF Loops
<1>3. Objects'
  <2>1. Len(heap') = i' - 1
    BY <1>1
  <2>2. \A k \in 1 .. Len(heap) : Deletes(k)' = Deletes(k)
    BY <1>1 DEF Deletes, Deleting
  <2>3. QED
    BY <1>1, <2>1, <2>2 DEF IInv, Objects
<1>4. EntriesOK' /\ LabelsBound' /\ VariablesBound' /\ NothingElseBound'
  <2>1. \A l \in Labels(table) : Put(l)' <=> Put(l) \/ l = <<i, "alias">>
    <3>1. \A l \in Labels(table) : l[1] < i + 1 <=> l[1] < i \/ l[1] = i
      <4>1. \A l \in Labels(table) : l[1] \in Nat
        BY LabelFacts DEF IInv
      <4>2. QED
        BY <1>1, <4>1
    <3>2. \A l \in Labels(table) : l[1] = i => (l[2] # "name" <=> l = <<i, "alias">>)
      <4>1. ASSUME NEW l \in Labels(table), l[1] = i PROVE l[2] # "name" <=> l = <<i, "alias">>
        <5>1. l[2] \in {"name", "alias"} /\ l = <<l[1], l[2]>>
          BY <4>1, LabelFacts DEF IInv
        <5>2. <<i, "alias">>[2] = "alias"
          OBVIOUS
        <5>3. QED
          BY <4>1, <5>1, <5>2
      <4>2. QED
        BY <4>1
    <3>3. QED
      BY <1>1, <3>1, <3>2 DEF Put, Initialising
  <2>2. CASE table[i].alias \notin {NULL, ""}
    <3>1. <<i, "alias">> \in Labels(table) /\ Word(table, <<i, "alias">>) = table[i].alias
      <4>1. <<i, "alias">>[1] = i /\ <<i, "alias">>[2] = "alias" /\ i \in 1 .. n
        BY <1>1
      <4>2. table[i]["alias"] \notin {NULL, ""}
        BY <2>2
      <4>3. <<i, "alias">> \in Labels(table)
        BY <4>1, <4>2, WordKept
      <4>4. Word(table, <<i, "alias">>) = table[i].alias
        BY <4>1 DEF Word
      <4>5. QED
        BY <4>3, <4>4
    <3>2. Environment!Put(Word(table, <<i, "alias">>), i)
      BY <1>1, <2>2, <3>1 DEF PutAlias
    <3>3. ~Put(<<i, "alias">>) /\ Initialising /\ pc' \in {"NEW", "ALIAS"}
      BY <1>1 DEF Put, Initialising
    <3>4. QED
      BY <1>1, <2>1, <3>1, <3>2, <3>3, LabelPut
  <2>3. CASE table[i].alias \in {NULL, ""}
    <3>1. <<i, "alias">> \notin Labels(table)
      BY <2>3 DEF Labels
    <3>2. \A l \in Labels(table) : Put(l)' <=> Put(l)
      BY <2>1, <3>1
    <3>3. \A j \in 1 .. m : PutVar(j)' <=> PutVar(j)
      BY DEF PutAlias, PutVar, Initialising
    <3>4. QED
      BY <1>1, <2>3, <3>2, <3>3, SameEntries DEF PutAlias
  <2>4. QED
    BY <2>2, <2>3
<1>5. Found' /\ Lookups'
  BY DEF PutAlias, rest, IInv, Found, Lookups, HelpAgrees, Initialising
<1>6. QED
  BY <1>2, <1>3, <1>4, <1>5 DEF IInv

LEMMA CommandsInitEndInv == ASSUME IInv, CommandsInitEnd PROVE IInv'
<1>1. /\ n \in Nat /\ m \in Nat /\ n' = n /\ i = n + 1 /\ i' = 1 /\ table' = table
      /\ pc = "NEW" /\ pc' = "VARIABLES"
  <2>1. n \in Nat /\ m \in Nat
    BY TableFacts DEF IInv
  <2>2. QED
    BY <2>1 DEF IInv, Loops, CommandsInitEnd, rest, n
<1>2. Loops'
  BY <1>1 DEF IInv, Loops, CommandsInitEnd, n
<1>3. Objects'
  BY <1>1 DEF IInv, Objects, CommandsInitEnd, Deletes, Deleting
<1>4. EntriesOK' /\ LabelsBound' /\ VariablesBound' /\ NothingElseBound'
  <2>1. \A l \in Labels(table) : Put(l)' <=> Put(l)
    <3>1. \A l \in Labels(table) : l[1] \in Nat /\ l[1] < i
      <4>1. \A l \in Labels(table) : l[1] \in 1 .. n
        BY LabelFacts DEF IInv
      <4>2. QED
        BY <1>1, <4>1
    <3>2. QED
      BY <1>1, <3>1 DEF Put, Initialising
  <2>2. \A j \in 1 .. m : PutVar(j)' <=> PutVar(j)
    BY <1>1 DEF CommandsInitEnd, PutVar, Initialising
  <2>3. QED
    BY <1>1, <2>1, <2>2, SameEntries DEF CommandsInitEnd
<1>5. Found' /\ Lookups'
  BY DEF CommandsInitEnd, rest, IInv, Found, Lookups, HelpAgrees, Initialising
<1>6. QED
  BY <1>2, <1>3, <1>4, <1>5 DEF IInv

LEMMA PutVariableInv == ASSUME IInv, PutVariable PROVE IInv'
<1>1. /\ n \in Nat /\ m \in Nat /\ n' = n /\ i \in Nat \ {0} /\ i' = i + 1 /\ table' = table
      /\ i <= m /\ pc' = pc /\ Len(heap) = n + i - 1
  BY TableFacts DEF IInv, Loops, Objects, PutVariable, rest, n, m
<1>2. Loops'
  BY <1>1 DEF IInv, Loops, PutVariable, n
<1>3. Objects'
  <2> DEFINE O == Object("INTEGER", NoCommand)
  <2> DEFINE S == [type : {"COMMAND", "INTEGER"}, command : Nat, deletes : Nat]
  <2>1. O \in S
    BY DEF Object, NoCommand
  <2>2. heap \in Seq(S) /\ heap' = Append(heap, O)
    BY DEF IInv, Objects, PutVariable
  <2> HIDE DEF O, S
  <2>3. /\ heap' \in Seq(S) /\ Len(heap') = n + i /\ heap'[n + i] = O
        /\ \A k \in 1 .. n + i - 1 : heap'[k] = heap[k]
    BY <1>1, <2>1, <2>2, AppendProperties
  <2>4. \A k \in 1 .. n + i - 1 :
          IF k <= n THEN heap[k] = [type |-> "COMMAND", command |-> k, deletes |-> Deletes(k)]
                    ELSE heap[k] = O
    BY <1>1 DEF IInv, Objects, O
  <2>5. \A k \in 1 .. n + i :
          IF k <= n THEN heap'[k] = [type |-> "COMMAND", command |-> k, deletes |-> Deletes(k)]
                    ELSE heap'[k] = O
    <3>1. \A k \in 1 .. n + i : k = n + i \/ k \in 1 .. n + i - 1
      BY <1>1
    <3>2. ~(n + i <= n)
      BY <1>1
    <3>3. QED
      BY <2>3, <2>4, <3>1, <3>2
  <2>6. \A k \in 1 .. n + i : Deletes(k)' = Deletes(k)
    BY DEF PutVariable, Deletes, Deleting
  <2>7. pc' = "VARIABLES"
    BY <1>1 DEF PutVariable
  <2>8. QED
    BY <1>1, <2>3, <2>5, <2>6, <2>7 DEF Objects, O, S
<1>4. EntriesOK' /\ LabelsBound' /\ VariablesBound' /\ NothingElseBound'
  <2>1. /\ entries \in Seq(Bindings(Names)) /\ Distinct(entries)
        /\ Variables[i] \in Names /\ n + i \in Nat \ {0}
        /\ Environment!Put(Variables[i], n + i)
    <3>1. Environment!Put(Variables[i], n + i)
      <4>1. Len(heap) + 1 = n + i
        BY <1>1
      <4>2. QED
        BY <4>1 DEF PutVariable
    <3>2. Variables[i] \in Names
      <4>1. Variables[i] \in WordsOfVariables
        BY <1>1 DEF WordsOfVariables
      <4>2. QED
        BY <4>1 DEF Names
    <3>3. QED
      BY <1>1, <3>1, <3>2 DEF IInv, EntriesOK, PutVariable
  <2>2. /\ entries' \in Seq(Bindings(Names)) /\ Distinct(entries')
        /\ ValueIn(entries', Variables[i]) = n + i
        /\ \A w : w # Variables[i] => ValueIn(entries', w) = ValueIn(entries, w)
    BY <2>1, PutValue
  <2>3. /\ pc = "VARIABLES" /\ \A l \in Labels(table) : Put(l) /\ Put(l)'
        /\ \A j \in 1 .. m : (PutVar(j) <=> j < i) /\ (PutVar(j)' <=> j < i \/ j = i)
    BY <1>1 DEF PutVariable, Put, PutVar, Initialising
  <2>4. LabelsBound'
    <3>1. \A l \in Labels(table) : ValueIn(entries', Word(table, l)) = l[1]
      <4>1. \A l \in Labels(table) : Word(table, l) # Variables[i]
        BY <1>1, TableFacts DEF IInv
      <4>2. \A l \in Labels(table) : ValueIn(entries, Word(table, l)) = l[1]
        BY <2>3 DEF IInv, LabelsBound
      <4>3. QED
        BY <2>2, <4>1, <4>2
    <3>2. QED
      BY <1>1, <3>1 DEF LabelsBound
  <2>5. VariablesBound'
    <3>1. \A j \in 1 .. m : j # i => Variables[j] # Variables[i]
      BY <1>1, VariablesAssumption DEF m
    <3>2. \A j \in 1 .. m : j < i \/ j = i => ValueIn(entries', Variables[j]) = n + j
      BY <1>1, <2>2, <2>3, <3>1 DEF IInv, VariablesBound
    <3>3. QED
      BY <1>1, <2>3, <3>2 DEF VariablesBound
  <2>6. NothingElseBound'
    <3>1. \A w : ValueIn(entries', w) # 0 => \/ \E l \in Labels(table) : Word(table, l) = w
                                             \/ \E j \in 1 .. m : (j < i \/ j = i) /\ Variables[j] = w
      BY <1>1, <2>2, <2>3 DEF IInv, NothingElseBound
    <3>2. QED
      BY <1>1, <2>3, <3>1 DEF NothingElseBound
  <2>7. QED
    BY <2>2, <2>4, <2>5, <2>6 DEF EntriesOK
<1>5. Found' /\ Lookups'
  BY DEF PutVariable, rest, IInv, Found, Lookups, HelpAgrees, Initialising
<1>6. QED
  BY <1>2, <1>3, <1>4, <1>5 DEF IInv

----------------------------------------------------------------------------
(* While the shell runs.                                                   *)

\* A step that changes nothing but the history and the answer.
LEMMA SameTable ==
  ASSUME IInv, UNCHANGED <<table, heap, entries, i, pc>>
  PROVE  /\ Loops' /\ Objects'
         /\ EntriesOK' /\ LabelsBound' /\ VariablesBound' /\ NothingElseBound'
<1>1. n' = n /\ m' = m
  BY DEF n, m
<1>2. Loops'
  BY <1>1 DEF IInv, Loops
<1>3. Objects'
  BY <1>1 DEF IInv, Objects, Deletes, Deleting
<1>4. \A l \in Labels(table) : Put(l)' <=> Put(l)
  BY DEF Put, Initialising
<1>5. \A j \in 1 .. m : PutVar(j)' <=> PutVar(j)
  BY DEF PutVar, Initialising
<1>6. CASE pc # "ENDED"
  BY <1>2, <1>3, <1>4, <1>5, <1>6, SameEntries
<1>7. CASE pc = "ENDED"
  BY <1>2, <1>3, <1>7 DEF EntriesOK, LabelsBound, VariablesBound, NothingElseBound
<1>8. QED
  BY <1>6, <1>7

LEMMA SameBound ==
  ASSUME UNCHANGED <<heap, entries>>, NEW w
  PROVE  Bound(w)' = Bound(w)
BY DEF Bound, Environment!Place

\* What a lookup finds.
LEMMA BoundTo ==
  ASSUME IInv, pc = "READY", NEW w
  PROVE  /\ \A l \in Labels(table) : Word(table, l) = w => Bound(w) = l[1]
         /\ (\A l \in Labels(table) : Word(table, l) # w) => Bound(w) = NoCommand
<1>1. /\ entries \in Seq(Bindings(Names)) /\ Distinct(entries)
      /\ n \in Nat /\ m \in Nat /\ Len(heap) = n + m
      /\ ~Initialising /\ pc # "ENDED" /\ pc # "VARIABLES"
  BY TableFacts DEF IInv, EntriesOK, Objects, Initialising
<1>2. \A k \in 1 .. n + m : heap[k].type = (IF k <= n THEN "COMMAND" ELSE "INTEGER")
                           /\ (k <= n => heap[k].command = k)
  BY <1>1 DEF IInv, Objects, Object
<1>3. Bound(w) = IF /\ ValueIn(entries, w) # 0
                    /\ heap[ValueIn(entries, w)].type = "COMMAND"
                 THEN heap[ValueIn(entries, w)].command ELSE NoCommand
  <2>1. CASE Environment!Place(w) = 0
    BY <1>1, <2>1, PlaceValue DEF Bound
  <2>2. CASE Environment!Place(w) # 0
    <3>1. /\ entries[Environment!Place(w)].value = ValueIn(entries, w)
          /\ ValueIn(entries, w) # 0
      BY <1>1, <2>2, PlaceValue
    <3>2. QED
      BY <2>2, <3>1 DEF Bound
  <2>3. QED
    BY <2>1, <2>2
<1>4. ASSUME NEW l \in Labels(table), Word(table, l) = w PROVE Bound(w) = l[1]
  <2>1. ValueIn(entries, w) = l[1]
    BY <1>1, <1>4 DEF IInv, LabelsBound, Put
  <2>2. l[1] \in 1 .. n
    BY LabelFacts DEF IInv
  <2>3. l[1] # 0 /\ l[1] \in 1 .. n + m /\ l[1] <= n
    BY <1>1, <2>2
  <2>4. QED
    BY <1>2, <1>3, <2>1, <2>3
<1>5. ASSUME \A l \in Labels(table) : Word(table, l) # w PROVE Bound(w) = NoCommand
  <2>1. CASE ValueIn(entries, w) = 0
    BY <1>3, <2>1
  <2>2. CASE ValueIn(entries, w) # 0
    <3>1. PICK j \in 1 .. m : Variables[j] = w
      BY <1>1, <1>5, <2>2 DEF IInv, NothingElseBound
    <3>2. ValueIn(entries, w) = n + j
      BY <1>1, <3>1 DEF IInv, VariablesBound, PutVar
    <3>3. n + j \in 1 .. n + m /\ ~(n + j <= n)
      BY <1>1
    <3>4. QED
      BY <1>2, <1>3, <3>2, <3>3
  <2>3. QED
    BY <2>1, <2>2
<1>6. QED
  BY <1>4, <1>5

LEMMA ReadyInv == ASSUME IInv, Ready PROVE IInv'
<1>1. /\ n \in Nat /\ m \in Nat /\ n' = n /\ i = m + 1 /\ UNCHANGED <<table, heap, entries, i, last>>
      /\ pc = "VARIABLES" /\ pc' = "READY"
  <2>1. n \in Nat /\ m \in Nat
    BY TableFacts DEF IInv
  <2>2. QED
    BY <2>1 DEF IInv, Loops, Ready, rest, n, m
<1>2. Loops'
  BY <1>1 DEF IInv, Loops
<1>3. Objects'
  BY <1>1 DEF IInv, Objects, Deletes, Deleting
<1>4. EntriesOK' /\ LabelsBound' /\ VariablesBound' /\ NothingElseBound'
  <2>1. \A l \in Labels(table) : Put(l)' <=> Put(l)
    BY <1>1 DEF Put, Initialising
  <2>2. \A j \in 1 .. m : PutVar(j)' <=> PutVar(j)
    BY <1>1 DEF PutVar, Initialising
  <2>3. QED
    BY <1>1, <2>1, <2>2, SameEntries
<1>5. Found' /\ Lookups'
  BY <1>1 DEF IInv, Found, Lookups, HelpAgrees, Initialising, NoLookup
<1>6. QED
  BY <1>2, <1>3, <1>4, <1>5 DEF IInv

LEMMA RunInv == ASSUME IInv, NEW w, Run(w) PROVE IInv'
<1>1. UNCHANGED <<table, heap, entries, i, pc>> /\ pc = "READY" /\ last'.op = "run"
  BY DEF Run, Environment!Get
<1>2. Found' /\ Lookups'
  BY <1>1 DEF Found, Lookups, HelpAgrees, Initialising
<1>3. QED
  BY <1>1, <1>2, SameTable DEF IInv

\* The table is searched for names only; no two commands have the same.
LEMMA FindsName ==
  ASSUME IInv, NEW w, commands_find(w) # NoCommand
  PROVE  \E l \in Labels(table) : Word(table, l) = w /\ l[1] = commands_find(w)
<1>1. PICK k \in 1 .. n : table[k].name = w
  BY DEF commands_find, n
<1>2. ASSUME NEW j \in 1 .. n PROVE /\ <<j, "name">> \in Labels(table)
                                    /\ Word(table, <<j, "name">>) = table[j].name
                                    /\ <<j, "name">>[1] = j
  <2>1. <<j, "name">>[1] = j /\ <<j, "name">>[2] = "name"
    OBVIOUS
  <2>2. QED
    BY <2>1, TableFacts DEF IInv, Word
<1>3. \A j \in 1 .. n : table[j].name = w => j = k
  <2>1. ASSUME NEW j \in 1 .. n, table[j].name = w PROVE j = k
    <3>1. <<j, "name">> = <<k, "name">>
      <4>1. /\ <<j, "name">> \in Labels(table) /\ <<k, "name">> \in Labels(table)
            /\ Word(table, <<j, "name">>) = Word(table, <<k, "name">>)
        BY <1>1, <1>2, <2>1
      <4>2. QED
        BY <4>1, TableFacts DEF IInv
    <3>2. QED
      BY <3>1
  <2>2. QED
    BY <2>1
<1>4. \A j \in 1 .. k - 1 : table[j].name # w
  <2>1. \A j \in 1 .. k - 1 : j \in 1 .. n /\ j # k
    BY TableFacts DEF IInv
  <2>2. QED
    BY <1>3, <2>1
<1>5. commands_find(w) = k
  BY <1>1, <1>3, <1>4 DEF commands_find, n
<1>6. QED
  BY <1>1, <1>2, <1>5

LEMMA HelpInv == ASSUME IInv, NEW w, Help(w) PROVE IInv'
<1>1. UNCHANGED <<table, heap, entries, i, pc>> /\ pc = "READY"
  BY DEF Help, Environment!Get
<1>2. last' = [op |-> "help", word |-> w, found |-> Bound(w)]
  <2>1. CASE commands_find(w) = NoCommand
    BY <2>1 DEF Help
  <2>2. CASE commands_find(w) # NoCommand
    <3>1. Bound(w) = commands_find(w)
      BY <1>1, <2>2, FindsName, BoundTo
    <3>2. QED
      BY <2>2, <3>1 DEF Help
  <2>3. QED
    BY <2>1, <2>2
<1>3. Found' /\ Lookups'
  <2>1. last'.word = w /\ last'.found = Bound(w) /\ Bound(w)' = Bound(w)
    BY <1>1, <1>2, SameBound
  <2>2. HelpAgrees'
    BY <2>1 DEF HelpAgrees
  <2>3. QED
    BY <1>1, <2>2 DEF Found, Lookups, Initialising
<1>4. QED
  BY <1>1, <1>3, SameTable DEF IInv

LEMMA QuitInv == ASSUME IInv, Quit PROVE IInv'
<1>1. /\ n \in Nat /\ m \in Nat /\ n' = n /\ i' = 1 /\ UNCHANGED <<table, heap, entries>>
      /\ pc = "READY" /\ pc' = "DEINIT"
  BY TableFacts DEF IInv, Quit, rest, n
<1>2. Loops'
  BY <1>1 DEF IInv, Loops
<1>3. Objects'
  <2>1. \A k \in 1 .. Len(heap) : Deletes(k)' = 0 /\ Deletes(k) = 0
    BY <1>1 DEF Deletes, Deleting
  <2>2. QED
    BY <1>1, <2>1 DEF IInv, Objects
<1>4. EntriesOK' /\ LabelsBound' /\ VariablesBound' /\ NothingElseBound'
  <2>1. \A l \in Labels(table) : Put(l)' <=> Put(l)
    BY <1>1 DEF Put, Initialising
  <2>2. \A j \in 1 .. m : PutVar(j)' <=> PutVar(j)
    BY <1>1 DEF PutVar, Initialising
  <2>3. QED
    BY <1>1, <2>1, <2>2, SameEntries
<1>5. Found' /\ Lookups'
  BY <1>1 DEF Found, Lookups, HelpAgrees, Initialising
<1>6. QED
  BY <1>2, <1>3, <1>4, <1>5 DEF IInv

----------------------------------------------------------------------------
(* The end.                                                                *)

LEMMA DeinitGetInv == ASSUME IInv, DeinitGet PROVE IInv'
<1>1. /\ n \in Nat /\ m \in Nat /\ n' = n /\ i \in 1 .. n /\ UNCHANGED <<table, heap, entries, i>>
      /\ pc = "DEINIT" /\ pc' = "DELETE"
  <2>1. n \in Nat /\ m \in Nat
    BY TableFacts DEF IInv
  <2>2. QED
    BY <2>1 DEF IInv, Loops, DeinitGet, Environment!Get, rest, n
<1>2. Loops'
  BY <1>1 DEF IInv, Loops
<1>3. Objects'
  <2>1. \A k \in 1 .. Len(heap) : Deletes(k)' = Deletes(k)
    BY <1>1 DEF Deletes, Deleting
  <2>2. QED
    BY <1>1, <2>1 DEF IInv, Objects
<1>4. EntriesOK' /\ LabelsBound' /\ VariablesBound' /\ NothingElseBound'
  <2>1. \A l \in Labels(table) : Put(l)' <=> Put(l)
    BY <1>1 DEF Put, Initialising
  <2>2. \A j \in 1 .. m : PutVar(j)' <=> PutVar(j)
    BY <1>1 DEF PutVar, Initialising
  <2>3. QED
    BY <1>1, <2>1, <2>2, SameEntries
<1>5. Found'
  <2> DEFINE l == <<i, "name">>
  <2>1. l \in Labels(table) /\ l[1] = i /\ Word(table, l) = table[i].name
    BY <1>1, TableFacts DEF IInv, Word
  <2>2. ValueIn(entries, table[i].name) = i
    BY <1>1, <2>1 DEF IInv, LabelsBound, Put, Initialising
  <2>3. entries \in Seq(Bindings(Names)) /\ Distinct(entries)
    BY <1>1 DEF IInv, EntriesOK
  <2>4. /\ Environment!Place(table[i].name) # 0
        /\ entries[Environment!Place(table[i].name)].value = i
    BY <1>1, <2>2, <2>3, PlaceValue
  <2>5. answer' = <<entries[Environment!Place(table[i].name)]>>
    BY <2>4 DEF DeinitGet, Environment!Get
  <2>6. QED
    BY <1>1, <2>4, <2>5 DEF Found
<1>6. Lookups'
  BY <1>1 DEF Lookups, HelpAgrees, Initialising
<1>7. QED
  BY <1>2, <1>3, <1>4, <1>5, <1>6 DEF IInv

LEMMA DeinitDeleteInv == ASSUME IInv, DeinitDelete PROVE IInv'
<1>1. /\ n \in Nat /\ m \in Nat /\ n' = n /\ i \in 1 .. n /\ UNCHANGED <<table, entries>>
      /\ pc = "DELETE" /\ pc' = "DEINIT" /\ i' = i + 1
  <2>1. n \in Nat /\ m \in Nat
    BY TableFacts DEF IInv
  <2>2. QED
    BY <2>1 DEF IInv, Loops, DeinitDelete, rest, n
<1>2. Loops'
  BY <1>1 DEF IInv, Loops
<1>3. heap' = [heap EXCEPT ![i].deletes = @ + 1]
  <2>1. answer[1].value = i /\ i # NULL
    BY <1>1, NullAssumption DEF IInv, Found
  <2>2. heap' = Deleted(i)
    BY <2>1 DEF DeinitDelete
  <2>3. QED
    BY <2>2 DEF Deleted
<1>4. Objects'
  <2> DEFINE S == [type : {"COMMAND", "INTEGER"}, command : Nat, deletes : Nat]
  <2> DEFINE O == [type |-> "COMMAND", command |-> i, deletes |-> 1]
  <2>1. heap \in Seq(S) /\ Len(heap) = n + m /\ i \in 1 .. Len(heap)
    BY <1>1 DEF IInv, Objects
  <2>2. heap[i] = [type |-> "COMMAND", command |-> i, deletes |-> 0]
    BY <1>1, <2>1 DEF IInv, Objects, Deletes, Deleting
  <2>3. [heap[i] EXCEPT !.deletes = @ + 1] = O
    BY <2>2
  <2>4. heap' = [heap EXCEPT ![i] = O]
    BY <1>3, <2>3
  <2>5. O \in S
    BY <1>1
  <2> HIDE DEF S, O
  <2>6. /\ heap' \in Seq(S) /\ Len(heap') = n + m
        /\ \A k \in 1 .. n + m : heap'[k] = IF k = i THEN O ELSE heap[k]
    BY <2>1, <2>4, <2>5, ExceptSeq
  <2>7. \A k \in 1 .. n + m : k # i => Deletes(k)' = Deletes(k)
    BY <1>1 DEF Deletes, Deleting
  <2>8. \A k \in 1 .. n + m :
          IF k <= n THEN heap'[k] = [type |-> "COMMAND", command |-> k, deletes |-> Deletes(k)']
                    ELSE heap'[k] = Object("INTEGER", NoCommand)
    <3>1. ASSUME NEW k \in 1 .. n + m, k = i PROVE heap'[k] = [type |-> "COMMAND", command |-> k, deletes |-> 1]
      BY <2>6, <3>1 DEF O
    <3>2. \A k \in 1 .. n + m :
          IF k <= n THEN heap[k] = [type |-> "COMMAND", command |-> k, deletes |-> Deletes(k)]
                    ELSE heap[k] = Object("INTEGER", NoCommand)
      BY <2>1 DEF IInv, Objects
    <3>3. \A k \in 1 .. n + m : k = i => Deletes(k)' = 1 /\ k <= n
      BY <1>1 DEF Deletes, Deleting
    <3>4. QED
      BY <2>6, <2>7, <3>1, <3>2, <3>3
  <2>9. QED
    BY <1>1, <2>6, <2>8 DEF Objects, S
<1>5. EntriesOK' /\ LabelsBound' /\ VariablesBound' /\ NothingElseBound'
  <2>1. \A l \in Labels(table) : Put(l)' <=> Put(l)
    BY <1>1 DEF Put, Initialising
  <2>2. \A j \in 1 .. m : PutVar(j)' <=> PutVar(j)
    BY <1>1 DEF PutVar, Initialising
  <2>3. QED
    BY <1>1, <2>1, <2>2, SameEntries
<1>6. Found' /\ Lookups'
  BY <1>1 DEF Found, Lookups, HelpAgrees, Initialising
<1>7. QED
  BY <1>2, <1>4, <1>5, <1>6 DEF IInv

LEMMA EnvDeinitInv == ASSUME IInv, EnvDeinit PROVE IInv'
<1>1. /\ n \in Nat /\ m \in Nat /\ n' = n /\ i = n + 1 /\ UNCHANGED <<table, heap, i>>
      /\ pc = "DEINIT" /\ pc' = "ENDED"
  <2>1. n \in Nat /\ m \in Nat
    BY TableFacts DEF IInv
  <2>2. QED
    BY <2>1 DEF IInv, Loops, EnvDeinit, rest, n
<1>2. Loops'
  BY <1>1 DEF IInv, Loops
<1>3. Objects'
  <2>1. \A k \in 1 .. Len(heap) : k <= n => Deletes(k)' = 1 /\ Deletes(k) = 1
    BY <1>1 DEF Deletes, Deleting
  <2>2. QED
    BY <1>1, <2>1 DEF IInv, Objects
<1>4. EntriesOK' /\ LabelsBound' /\ VariablesBound' /\ NothingElseBound'
  BY <1>1 DEF EntriesOK, LabelsBound, VariablesBound, NothingElseBound
<1>5. Found' /\ Lookups'
  BY <1>1 DEF Found, Lookups, HelpAgrees, Initialising
<1>6. QED
  BY <1>2, <1>3, <1>4, <1>5 DEF IInv

LEMMA StutterInv == ASSUME IInv, UNCHANGED vars PROVE IInv'
<1>1. UNCHANGED <<table, heap, entries, i, pc, last, answer>>
  BY DEF vars
<1>2. Found'
  BY <1>1 DEF IInv, Found
<1>3. Lookups'
  <2>1. HelpAgrees'
    <3>1. Bound(last.word)' = Bound(last.word)
      BY <1>1 DEF Bound, Environment!Place
    <3>2. QED
      BY <1>1, <3>1 DEF IInv, Lookups, HelpAgrees
  <2>2. QED
    BY <1>1, <2>1 DEF IInv, Lookups, Initialising
<1>4. QED
  BY <1>1, <1>2, <1>3, SameTable DEF IInv

LEMMA StepInv == IInv /\ [Next]_vars => IInv'
<1> SUFFICES ASSUME IInv, [Next]_vars PROVE IInv'
  OBVIOUS
<1>1. CASE ObjectNew
  BY <1>1, ObjectNewInv
<1>2. CASE PutName
  BY <1>2, PutNameInv
<1>3. CASE PutAlias
  BY <1>3, PutAliasInv
<1>4. CASE CommandsInitEnd
  BY <1>4, CommandsInitEndInv
<1>5. CASE PutVariable
  BY <1>5, PutVariableInv
<1>6. CASE Ready
  BY <1>6, ReadyInv
<1>7. CASE \E w \in Words : Run(w) \/ Help(w)
  BY <1>7, RunInv, HelpInv
<1>8. CASE Quit
  BY <1>8, QuitInv
<1>9. CASE DeinitGet
  BY <1>9, DeinitGetInv
<1>10. CASE DeinitDelete
  BY <1>10, DeinitDeleteInv
<1>11. CASE EnvDeinit
  BY <1>11, EnvDeinitInv
<1>12. CASE UNCHANGED vars
  BY <1>12, StutterInv
<1>13. QED
  BY <1>1, <1>2, <1>3, <1>4, <1>5, <1>6, <1>7, <1>8, <1>9, <1>10, <1>11, <1>12 DEF Next

LEMMA Inductive == Spec => []IInv
BY InitInv, StepInv, PTL DEF Spec

----------------------------------------------------------------------------
(* The theorems.                                                           *)

\* Every command is reached by its name and by its alias and by no other word,
\* in whatever well-named table: commands_init and main() overwrite no entry.
THEOREM WordsFind == Spec => []WordsReachCommands
<1>1. IInv => WordsReachCommands
  <2> SUFFICES ASSUME IInv, pc = "READY", NEW w
               PROVE  Bound(w) = IF \E l \in Labels(table) : Word(table, l) = w
                                 THEN (CHOOSE l \in Labels(table) : Word(table, l) = w)[1]
                                 ELSE NoCommand
    BY DEF WordsReachCommands
  <2>1. CASE \E l \in Labels(table) : Word(table, l) = w
    <3> DEFINE c == CHOOSE l \in Labels(table) : Word(table, l) = w
    <3>1. c \in Labels(table) /\ Word(table, c) = w
      BY <2>1
    <3>2. QED
      BY <2>1, <3>1, BoundTo
  <2>2. CASE ~ \E l \in Labels(table) : Word(table, l) = w
    BY <2>2, BoundTo
  <2>3. QED
    BY <2>1, <2>2
<1>2. QED
  BY <1>1, Inductive, PTL

\* help and main() find the same command for the same word.
THEOREM SameCommand == Spec => []HelpAgrees
<1>1. IInv => HelpAgrees
  BY DEF IInv, Lookups
<1>2. QED
  BY <1>1, Inductive, PTL

\* commands_deinit deletes no object twice and only the objects of commands.
THEOREM NoDoubleDelete == Spec => []DeletedOnce
<1>1. IInv => DeletedOnce
  <2> SUFFICES ASSUME IInv PROVE DeletedOnce
    OBVIOUS
  <2>1. \A v \in 1 .. Len(heap) : heap[v].deletes <= 1
    <3> SUFFICES ASSUME NEW v \in 1 .. Len(heap) PROVE heap[v].deletes <= 1
      OBVIOUS
    <3>1. CASE v <= n
      <4>1. heap[v] = [type |-> "COMMAND", command |-> v, deletes |-> Deletes(v)]
        BY <3>1 DEF IInv, Objects
      <4>2. QED
        BY <4>1 DEF Deletes
    <3>2. CASE ~(v <= n)
      <4>1. heap[v] = [type |-> "INTEGER", command |-> NoCommand, deletes |-> 0]
        BY <3>2 DEF IInv, Objects, Object
      <4>2. QED
        BY <4>1
    <3>3. QED
      BY <3>1, <3>2
  <2>2. ASSUME pc = "DELETE" PROVE heap[answer[1].value].command = i
    <3>1. answer[1].value = i /\ i \in 1 .. n /\ n \in Nat /\ m \in Nat
      BY <2>2, TableFacts DEF IInv, Found, Loops
    <3>2. Len(heap) = n + m
      BY <2>2 DEF IInv, Objects
    <3>3. i \in 1 .. Len(heap) /\ i <= n
      BY <3>1, <3>2
    <3>4. heap[i] = [type |-> "COMMAND", command |-> i, deletes |-> Deletes(i)]
      BY <3>3 DEF IInv, Objects
    <3>5. QED
      BY <3>1, <3>4
  <2>3. QED
    BY <2>1, <2>2 DEF DeletedOnce
<1>2. QED
  BY <1>1, Inductive, PTL

\* At the end the objects of the variables are left, and those only.
THEOREM CommandsDeleted == Spec => []OnlyVariablesLeft
<1>1. IInv => OnlyVariablesLeft
  <2> SUFFICES ASSUME IInv, pc = "ENDED", NEW v \in 1 .. Len(heap)
               PROVE  heap[v].deletes = 0 <=> heap[v].type = "INTEGER"
    BY DEF OnlyVariablesLeft
  <2>1. CASE v <= n
    <3>1. heap[v] = [type |-> "COMMAND", command |-> v, deletes |-> 1]
      BY <2>1 DEF IInv, Objects, Deletes
    <3>2. QED
      BY <3>1
  <2>2. CASE ~(v <= n)
    <3>1. heap[v] = [type |-> "INTEGER", command |-> NoCommand, deletes |-> 0]
      BY <2>2 DEF IInv, Objects, Object
    <3>2. QED
      BY <3>1
  <2>3. QED
    BY <2>1, <2>2
<1>2. QED
  BY <1>1, Inductive, PTL
=============================================================================
