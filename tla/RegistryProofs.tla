--------------------------- MODULE RegistryProofs ---------------------------
(***************************************************************************)
(* The vector of PolicyRegistry is a map, for all names, policies and      *)
(* lengths of the vector; and the lock of GlobalRegistry keeps it one, for *)
(* any number of threads and any programs.                                 *)
(***************************************************************************)
EXTENDS GlobalRegistry, TLAPS


-----------------------------------------------------------------------------
\* The search, on a vector without duplicates.

LEMMA PositionFound ==
    ASSUME NEW s \in Seq(Entry), Unique(s), NEW i \in DOMAIN s
    PROVE  PositionIn(s, s[i].name) = i
<1>1. DOMAIN s = 1..Len(s) /\ Len(s) \in Nat
  OBVIOUS
<1>2. \A j \in 1..(i - 1) : s[j].name # s[i].name
  BY <1>1 DEF Unique
<1>3. \A k \in DOMAIN s : s[k].name = s[i].name => k = i
  BY DEF Unique
<1> QED
  BY <1>2, <1>3 DEF PositionIn

LEMMA PositionMissing ==
    ASSUME NEW s, NEW name, \A i \in DOMAIN s : s[i].name # name
    PROVE  PositionIn(s, name) = 0
BY DEF PositionIn

\* Either the name is nowhere, or its position is the one entry it has.
LEMMA PositionCases ==
    ASSUME NEW s \in Seq(Entry), Unique(s), NEW name
    PROVE  \/ /\ PositionIn(s, name) = 0
              /\ \A i \in DOMAIN s : s[i].name # name
           \/ /\ PositionIn(s, name) \in DOMAIN s
              /\ PositionIn(s, name) # 0
              /\ s[PositionIn(s, name)].name = name
<1>1. CASE \E i \in DOMAIN s : s[i].name = name
  <2>1. PICK i \in DOMAIN s : s[i].name = name
    BY <1>1
  <2>2. PositionIn(s, name) = i
    BY <2>1, PositionFound
  <2>3. i # 0
    OBVIOUS
  <2> QED
    BY <2>1, <2>2, <2>3
<1>2. CASE \A i \in DOMAIN s : s[i].name # name
  BY <1>2, PositionMissing
<1> QED
  BY <1>1, <1>2

\* How the table of a vector is read off: by the name's entry, or Absent.
LEMMA TableFound ==
    ASSUME NEW s \in Seq(Entry), Unique(s), NEW i \in DOMAIN s
    PROVE  s[i].name \in Names /\ TableOf(s)[s[i].name] = s[i].policy
<1>1. s[i] \in Entry /\ i # 0
  OBVIOUS
<1> QED
  BY <1>1, PositionFound DEF TableOf, PolicyIn, Entry

LEMMA TableMissing ==
    ASSUME NEW s \in Seq(Entry), NEW n \in Names,
           \A i \in DOMAIN s : s[i].name # n
    PROVE  TableOf(s)[n] = Absent
BY PositionMissing DEF TableOf, PolicyIn

-----------------------------------------------------------------------------
\* What each change of the vector does to the names and to the table.

LEMMA PushEntry ==
    ASSUME NEW s \in Seq(Entry), Unique(s), NEW n \in Names, NEW p \in Policies,
           \A i \in DOMAIN s : s[i].name # n,
           NEW t, t = Append(s, [name |-> n, policy |-> p])
    PROVE  /\ t \in Seq(Entry) /\ Unique(t)
           /\ TableOf(t) = [TableOf(s) EXCEPT ![n] = p]
<1> DEFINE e == [name |-> n, policy |-> p]
<1>1. /\ t \in Seq(Entry)
      /\ DOMAIN t = 1..(Len(s) + 1) /\ DOMAIN s = 1..Len(s)
      /\ \A i \in 1..Len(s) : t[i] = s[i]
      /\ t[Len(s) + 1] = e
      /\ Len(s) \in Nat
  <2>1. e \in Entry
    BY DEF Entry
  <2> HIDE DEF e
  <2>2. t = Append(s, e)
    BY DEF e
  <2> QED
    BY <2>1, <2>2
<1>2. Unique(t)
  BY <1>1 DEF Unique
<1>3. TableOf(t)[n] = p
  <2> DEFINE last == Len(s) + 1
  <2>1. last \in DOMAIN t /\ t[last].name = n /\ t[last].policy = p
    BY <1>1
  <2>2. TableOf(t)[t[last].name] = t[last].policy
    BY <1>1, <1>2, <2>1, TableFound
  <2> QED
    BY <2>1, <2>2
<1>4. ASSUME NEW m \in Names, m # n PROVE TableOf(t)[m] = TableOf(s)[m]
  <2>1. CASE \E i \in DOMAIN s : s[i].name = m
    <3>1. PICK i \in DOMAIN s : s[i].name = m
      BY <2>1
    <3>2. i \in DOMAIN t /\ t[i] = s[i]
      BY <1>1
    <3>3. TableOf(t)[t[i].name] = t[i].policy
      BY <1>1, <1>2, <3>2, TableFound
    <3>4. TableOf(s)[s[i].name] = s[i].policy
      BY TableFound
    <3> QED
      BY <3>1, <3>2, <3>3, <3>4
  <2>2. CASE \A i \in DOMAIN s : s[i].name # m
    <3>1. \A i \in DOMAIN t : t[i].name # m
      BY <1>1, <1>4, <2>2
    <3> QED
      BY <1>1, <2>2, <3>1, TableMissing
  <2> QED
    BY <2>1, <2>2
<1> QED
  BY <1>1, <1>2, <1>3, <1>4 DEF TableOf

LEMMA ReplaceEntry ==
    ASSUME NEW s \in Seq(Entry), Unique(s), NEW k \in DOMAIN s,
           NEW p \in Policies, NEW t,
           t = [s EXCEPT ![k] = [name |-> @.name, policy |-> p]]
    PROVE  /\ t \in Seq(Entry) /\ Unique(t)
           /\ TableOf(t) = [TableOf(s) EXCEPT ![s[k].name] = p]
<1> DEFINE e == [name |-> s[k].name, policy |-> p]
<1>0. t = [s EXCEPT ![k] = e]
  OBVIOUS
<1>1. /\ t \in Seq(Entry) /\ DOMAIN t = DOMAIN s
      /\ \A i \in DOMAIN s : t[i].name = s[i].name
      /\ \A i \in DOMAIN s : i # k => t[i] = s[i]
      /\ t[k].policy = p
  <2>1. e \in Entry /\ e.name = s[k].name /\ e.policy = p
    <3>1. s[k] \in Entry
      OBVIOUS
    <3> QED
      BY <3>1 DEF Entry
  <2> HIDE DEF e
  <2>2. /\ t \in Seq(Entry) /\ DOMAIN t = DOMAIN s /\ t[k] = e
        /\ \A i \in DOMAIN s : i # k => t[i] = s[i]
    BY <1>0, <2>1
  <2> QED
    BY <2>1, <2>2
<1>2. Unique(t)
  BY <1>1 DEF Unique
<1>3. TableOf(t)[s[k].name] = p
  BY <1>1, <1>2, TableFound
<1>4. ASSUME NEW m \in Names, m # s[k].name
      PROVE  TableOf(t)[m] = TableOf(s)[m]
  <2>1. CASE \E i \in DOMAIN s : s[i].name = m
    <3>1. PICK i \in DOMAIN s : s[i].name = m
      BY <2>1
    <3>2. t[i] = s[i]
      BY <1>1, <1>4, <3>1
    <3>3. TableOf(t)[t[i].name] = t[i].policy
      BY <1>1, <1>2, <3>2, TableFound
    <3>4. TableOf(s)[s[i].name] = s[i].policy
      BY TableFound
    <3> QED
      BY <3>1, <3>2, <3>3, <3>4
  <2>2. CASE \A i \in DOMAIN s : s[i].name # m
    BY <1>1, <2>2, TableMissing
  <2> QED
    BY <2>1, <2>2
<1> QED
  BY <1>1, <1>2, <1>3, <1>4 DEF TableOf

\* The moved entry keeps its name and policy: only its position changes.
LEMMA SwapRemoveEntry ==
    ASSUME NEW s \in Seq(Entry), Unique(s), NEW k \in DOMAIN s,
           NEW t, t = SwapRemove(s, k)
    PROVE  /\ t \in Seq(Entry) /\ Unique(t)
           /\ TableOf(t) = [TableOf(s) EXCEPT ![s[k].name] = Absent]
<1>1. /\ Len(s) \in Nat /\ DOMAIN s = 1..Len(s) /\ Len(s) - 1 \in Nat
      /\ \A i \in DOMAIN s : s[i] \in Entry
  OBVIOUS
<1>2. /\ t = [j \in 1..(Len(s) - 1) |-> IF j = k THEN s[Len(s)] ELSE s[j]]
      /\ DOMAIN t = 1..(Len(s) - 1)
  BY DEF SwapRemove
<1>3. t \in Seq(Entry)
  BY <1>1, <1>2
<1>4. \A i \in DOMAIN t : \E j \in DOMAIN s \ {k} : t[i] = s[j]
  BY <1>1, <1>2
<1>5. \A j \in DOMAIN s \ {k} : \E i \in DOMAIN t : t[i] = s[j]
  <2> SUFFICES ASSUME NEW j \in DOMAIN s \ {k}
               PROVE  \E i \in DOMAIN t : t[i] = s[j]
      OBVIOUS
  <2>1. CASE j = Len(s)
    BY <1>1, <1>2, <2>1
  <2>2. CASE j # Len(s)
    BY <1>1, <1>2, <2>2
  <2> QED
    BY <2>1, <2>2
<1>6. Unique(t)
  BY <1>1, <1>2 DEF Unique
<1>7. TableOf(t)[s[k].name] = Absent
  <2>1. \A i \in DOMAIN t : t[i].name # s[k].name
    BY <1>4 DEF Unique
  <2>2. s[k].name \in Names
    BY TableFound
  <2> QED
    BY <1>3, <2>1, <2>2, TableMissing
<1>8. ASSUME NEW m \in Names, m # s[k].name
      PROVE  TableOf(t)[m] = TableOf(s)[m]
  <2>1. CASE \E j \in DOMAIN s : s[j].name = m
    <3>1. PICK j \in DOMAIN s : s[j].name = m
      BY <2>1
    <3>2. PICK i \in DOMAIN t : t[i] = s[j]
      BY <1>5, <1>8, <3>1
    <3> QED
      <4>1. TableOf(t)[t[i].name] = t[i].policy
        BY <1>3, <1>6, TableFound
      <4>2. TableOf(s)[s[j].name] = s[j].policy
        BY TableFound
      <4> QED
        BY <3>1, <3>2, <4>1, <4>2
  <2>2. CASE \A j \in DOMAIN s : s[j].name # m
    <3>1. \A i \in DOMAIN t : t[i].name # m
      BY <1>4, <2>2
    <3> QED
      BY <1>3, <2>2, <3>1, TableMissing
  <2> QED
    BY <2>1, <2>2
<1> QED
  BY <1>3, <1>6, <1>7, <1>8 DEF TableOf

-----------------------------------------------------------------------------
\* The methods: each keeps the invariant and does to the table, and answers,
\* what the map's operation does.

LEMMA TableAt ==
    ASSUME RegistryInv, NEW n \in Names
    PROVE  TableOf(entries)[n] = PolicyAt(Position(n))
BY DEF TableOf, PolicyAt, Position

LEMMA PolicyTyped ==
    ASSUME RegistryInv, NEW n
    PROVE  PolicyAt(Position(n)) \in Policies \cup {Absent}
<1>1. entries \in Seq(Entry) /\ Unique(entries)
  BY DEF RegistryInv, RegistryTypeOK, UniqueNames
<1>2. CASE Position(n) = 0
  BY <1>2 DEF PolicyAt, PolicyIn
<1>3. CASE Position(n) \in DOMAIN entries
  <2>1. entries[Position(n)] \in Entry
    BY <1>1, <1>3
  <2> QED
    BY <2>1 DEF PolicyAt, PolicyIn, Entry
<1> QED
  BY <1>1, <1>2, <1>3, PositionCases DEF Position

\* An answer without a listing is typed, and is the map's answer.
LEMMA AnswerTyped ==
    ASSUME NEW op \in {"register", "get", "remove", "clear"},
           NEW p \in Policies \cup {Absent}, reply' = Answer(op, p),
           entries' \in Seq(Entry)
    PROVE  /\ RegistryTypeOK'
           /\ [op |-> reply'.op, policy |-> reply'.policy,
               listing |-> Pairs(reply'.listing)] = Map!Answer(op, p)
<1>1. <<>> \in Seq(Entry) /\ Pairs(<<>>) = {}
  BY DEF Pairs
<1> QED
  BY <1>1 DEF RegistryTypeOK, Replies, Answer, Map!Answer

\* An empty vector is an empty table.
LEMMA EmptyTable ==
    /\ <<>> \in Seq(Entry) /\ Unique(<<>>) /\ Pairs(<<>>) = {}
    /\ TableOf(<<>>) = [n \in Names |-> Absent]
<1>1. /\ <<>> \in Seq(Entry) /\ Unique(<<>>) /\ Pairs(<<>>) = {}
      /\ \A i \in DOMAIN <<>> : FALSE
  BY DEF Unique, Pairs
<1>2. \A n \in Names : PositionIn(<<>>, n) = 0
  BY DEF PositionIn
<1> QED
  BY <1>1, <1>2 DEF TableOf, PolicyIn

LEMMA RegisterStep ==
    ASSUME RegistryInv, NEW n \in Names, NEW p \in Policies, Register(n, p)
    PROVE  RegistryInv' /\ Map!Register(n, p)
<1>1. entries \in Seq(Entry) /\ Unique(entries)
  BY DEF RegistryInv, RegistryTypeOK, UniqueNames
<1>2. /\ entries' \in Seq(Entry) /\ Unique(entries')
      /\ TableOf(entries') = [TableOf(entries) EXCEPT ![n] = p]
  <2>1. CASE Position(n) = 0
    <3>1. \A i \in DOMAIN entries : entries[i].name # n
      BY <1>1, <2>1, PositionCases DEF Position
    <3>2. entries' = Append(entries, [name |-> n, policy |-> p])
      BY <2>1 DEF Register, RegisterAt
    <3> QED
      BY <1>1, <3>1, <3>2, PushEntry
  <2>2. CASE Position(n) # 0
    <3>1. Position(n) \in DOMAIN entries /\ entries[Position(n)].name = n
      BY <1>1, <2>2, PositionCases DEF Position
    <3>2. entries' = [entries EXCEPT ![Position(n)] = [name |-> @.name,
                                                       policy |-> p]]
      BY <2>2 DEF Register, RegisterAt
    <3> DEFINE name == entries[Position(n)].name
    <3>3. /\ entries' \in Seq(Entry) /\ Unique(entries')
          /\ TableOf(entries') = [TableOf(entries) EXCEPT ![name] = p]
      BY <1>1, <3>1, <3>2, ReplaceEntry
    <3> QED
      BY <3>1, <3>3
  <2> QED
    BY <2>1, <2>2
<1>3. reply' = Answer("register", PolicyAt(Position(n)))
  BY DEF Register, RegisterAt
<1> QED
  BY <1>2, <1>3, AnswerTyped, PolicyTyped, TableAt
     DEF RegistryInv, UniqueNames, Map!Register

LEMMA GetStep ==
    ASSUME RegistryInv, NEW n \in Names, Get(n)
    PROVE  RegistryInv' /\ Map!Get(n)
<1>1. UNCHANGED entries /\ reply' = Answer("get", PolicyAt(Position(n)))
  BY DEF Get, GetAt
<1>2. entries' \in Seq(Entry) /\ Unique(entries')
  BY <1>1 DEF RegistryInv, RegistryTypeOK, UniqueNames
<1> QED
  BY <1>1, <1>2, AnswerTyped, PolicyTyped, TableAt
     DEF RegistryInv, UniqueNames, Map!Get

LEMMA RemoveStep ==
    ASSUME RegistryInv, NEW n \in Names, Remove(n)
    PROVE  RegistryInv' /\ Map!Remove(n)
<1>1. entries \in Seq(Entry) /\ Unique(entries)
  BY DEF RegistryInv, RegistryTypeOK, UniqueNames
<1>2. /\ entries' \in Seq(Entry) /\ Unique(entries')
      /\ TableOf(entries') = [TableOf(entries) EXCEPT ![n] = Absent]
  <2>1. CASE Position(n) = 0
    <3>1. entries' = entries
      BY <2>1 DEF Remove, RemoveAt
    <3>2. TableOf(entries)[n] = Absent
      BY <2>1, TableAt DEF PolicyAt, PolicyIn
    <3> QED
      BY <1>1, <3>1, <3>2 DEF TableOf
  <2>2. CASE Position(n) # 0
    <3>1. Position(n) \in DOMAIN entries /\ entries[Position(n)].name = n
      BY <1>1, <2>2, PositionCases DEF Position
    <3>2. entries' = SwapRemove(entries, Position(n))
      BY <2>2 DEF Remove, RemoveAt
    <3> QED
      BY <1>1, <3>1, <3>2, SwapRemoveEntry
  <2> QED
    BY <2>1, <2>2
<1>3. reply' = Answer("remove", PolicyAt(Position(n)))
  BY DEF Remove, RemoveAt
<1> QED
  BY <1>2, <1>3, AnswerTyped, PolicyTyped, TableAt
     DEF RegistryInv, UniqueNames, Map!Remove

\* The listing holds exactly the pairs of the table.
LEMMA AllStep ==
    ASSUME RegistryInv, All
    PROVE  RegistryInv' /\ Map!All
<1>1. entries \in Seq(Entry) /\ Unique(entries)
  BY DEF RegistryInv, RegistryTypeOK, UniqueNames
<1> DEFINE present == {m \in Names : TableOf(entries)[m] # Absent}
<1>2. Pairs(entries) = {<<n, TableOf(entries)[n]>> : n \in present}
  <2>1. \A i \in DOMAIN entries :
            /\ entries[i].name \in present
            /\ TableOf(entries)[entries[i].name] = entries[i].policy
    <3> SUFFICES ASSUME NEW i \in DOMAIN entries
                 PROVE  /\ entries[i].name \in present
                        /\ TableOf(entries)[entries[i].name]
                                = entries[i].policy
        OBVIOUS
    <3>1. entries[i] \in Entry
      BY <1>1
    <3> QED
      BY <1>1, <3>1, TableFound, AbsentAssumption DEF Entry
  <2>2. \A n \in present : \E i \in DOMAIN entries :
            entries[i].name = n /\ entries[i].policy = TableOf(entries)[n]
    BY <1>1, <2>1, TableMissing
  <2> HIDE DEF present
  <2> QED
    BY <2>1, <2>2 DEF Pairs
<1>3. RegistryInv'
  BY <1>1 DEF All, RegistryInv, RegistryTypeOK, UniqueNames, Replies
<1> QED
  BY <1>2, <1>3 DEF All, Map!All

LEMMA ClearStep ==
    ASSUME RegistryInv, Clear
    PROVE  RegistryInv' /\ Map!Clear
<1>1. entries' = <<>> /\ reply' = Answer("clear", Absent)
  BY DEF Clear
<1> QED
  BY <1>1, EmptyTable, AnswerTyped DEF RegistryInv, UniqueNames, Map!Clear

LEMMA RegistryInitInv == RegistryInit => RegistryInv /\ Map!Init
<1> SUFFICES ASSUME RegistryInit PROVE RegistryInv /\ Map!Init
    OBVIOUS
<1> QED
  BY EmptyTable DEF RegistryInit, RegistryInv, RegistryTypeOK, UniqueNames,
                    Replies, Answer, Map!Init, Map!Answer

LEMMA RegistryStep ==
    ASSUME RegistryInv, [RegistryNext]_registry
    PROVE  RegistryInv' /\ [Map!Next]_Map!vars
<1>1. CASE \E n \in Names, p \in Policies : Register(n, p)
  BY <1>1, RegisterStep DEF Map!Next
<1>2. CASE \E n \in Names : Get(n) \/ Remove(n)
  BY <1>2, GetStep, RemoveStep DEF Map!Next
<1>3. CASE All \/ Clear
  BY <1>3, AllStep, ClearStep DEF Map!Next
<1>4. CASE UNCHANGED registry
  BY <1>4 DEF registry, RegistryInv, RegistryTypeOK, UniqueNames, Map!vars
<1> QED
  BY <1>1, <1>2, <1>3, <1>4 DEF RegistryNext

\* The entries and the replies are well typed, and no name is ever
\* registered twice, however many calls are made.
THEOREM RegistryInvariance == RegistrySpec => []RegistryInv
<1> QED
  BY RegistryInitInv, RegistryStep, PTL DEF RegistrySpec

\* No name is ever registered twice.
THEOREM NamesStayUnique == RegistrySpec => []UniqueNames
<1>1. RegistryInv => UniqueNames
  BY DEF RegistryInv
<1> QED
  BY <1>1, RegistryInvariance, PTL

\* The vector implements the map: swap_remove is not observable through the
\* methods, except for the order of a listing.
THEOREM RegistryImplementsMap == RegistrySpec => ImplementsMap
<1> QED
  BY RegistryInitInv, RegistryStep, PTL
     DEF RegistrySpec, ImplementsMap, Map!Spec

-----------------------------------------------------------------------------
\* The registry behind the lock.

LEMMA CurrentTyped ==
    ASSUME TypeOK, NEW t \in Threads, todo[t] # <<>>
    PROVE  Current(t) \in Operation /\ Tail(todo[t]) \in Seq(Operation)
<1>1. todo[t] \in Seq(Operation)
  BY DEF TypeOK
<1> QED
  BY <1>1 DEF Current

LEMMA InitGlobalInv == Init => GlobalInv
<1> SUFFICES ASSUME Init PROVE GlobalInv
    OBVIOUS
<1>1. RegistryInv
  BY RegistryInitInv DEF Init
<1>2. TypeOK
  <2>1. todo \in [Threads -> Seq(Operation)]
    BY GlobalAssumption DEF Init
  <2>2. answers \in [Threads -> Seq(Replies)]
    <3>1. <<>> \in Seq(Replies)
      OBVIOUS
    <3> QED
      BY <3>1 DEF Init
  <2> QED
    BY <1>1, <2>1, <2>2 DEF Init, TypeOK, RegistryInv
<1>3. LockInv /\ SearchesStayRight
  BY DEF Init, LockInv, SearchesStayRight, Holds
<1> QED
  BY <1>1, <1>2, <1>3 DEF GlobalInv, RegistryInv

\* A thread that holds the lock to write holds it alone.
LEMMA Exclusion ==
    ASSUME GlobalInv, NEW t \in Threads, Holds(t),
           NEW u \in Threads, Holds(u), u # t
    PROVE  ~Writes(t) /\ ~Writes(u) /\ writer = Nobody
BY GlobalAssumption DEF GlobalInv, LockInv

LEMMA AcquireInv ==
    ASSUME GlobalInv, NEW t \in Threads, Acquire(t)
    PROVE  GlobalInv'
<1>1. TypeOK'
  BY DEF GlobalInv, TypeOK, RegistryTypeOK, Acquire, registry
<1>2. UniqueNames'
  BY DEF GlobalInv, UniqueNames, Acquire, registry
<1>3. LockInv'
  BY GlobalAssumption
     DEF GlobalInv, TypeOK, LockInv, Acquire, Granted, Holds, Writes, Current
<1>4. SearchesStayRight'
  BY DEF GlobalInv, TypeOK, SearchesStayRight, Acquire, registry, Position,
         Current
<1> QED
  BY <1>1, <1>2, <1>3, <1>4 DEF GlobalInv

LEMMA RefuseInv ==
    ASSUME GlobalInv, NEW t \in Threads, Refuse(t)
    PROVE  GlobalInv'
<1>1. TypeOK'
  BY DEF GlobalInv, TypeOK, RegistryTypeOK, Refuse, registry, lock
<1>2. UniqueNames'
  BY DEF GlobalInv, UniqueNames, Refuse, registry
<1>3. LockInv'
  BY GlobalAssumption
     DEF GlobalInv, TypeOK, LockInv, Refuse, lock, Holds, Writes, Current
<1>4. SearchesStayRight'
  BY DEF GlobalInv, TypeOK, SearchesStayRight, Refuse, registry, Position,
         Current
<1> QED
  BY <1>1, <1>2, <1>3, <1>4 DEF GlobalInv

LEMMA PanicInv ==
    ASSUME GlobalInv, NEW t \in Threads, Panic(t)
    PROVE  GlobalInv'
<1>1. TypeOK'
  BY DEF GlobalInv, TypeOK, RegistryTypeOK, Panic, Release, registry
<1>2. UniqueNames'
  BY DEF GlobalInv, UniqueNames, Panic, registry
<1>3. LockInv'
  <2>1. Writes(t) /\ Holds(t)
    BY DEF Panic, Writes, Holds
  <2>2. \A u \in Threads \ {t} : ~Holds(u)
    BY <2>1, Exclusion
  <2>3. writer = t /\ readers = {}
    BY <2>1, GlobalAssumption DEF GlobalInv, LockInv
  <2> QED
    BY <2>2, <2>3, GlobalAssumption
       DEF GlobalInv, TypeOK, LockInv, Panic, Release, Holds, Writes, Current
<1>4. SearchesStayRight'
  BY DEF GlobalInv, TypeOK, SearchesStayRight, Panic, registry, Position,
         Current
<1> QED
  BY <1>1, <1>2, <1>3, <1>4 DEF GlobalInv

LEMMA SearchInv ==
    ASSUME GlobalInv, NEW t \in Threads, Search(t)
    PROVE  GlobalInv'
<1>1. TypeOK'
  <2>1. Position(Current(t).name) \in Nat
    <3>1. entries \in Seq(Entry) /\ Unique(entries)
      BY DEF GlobalInv, TypeOK, RegistryTypeOK, UniqueNames
    <3>2. DOMAIN entries \subseteq Nat
      BY <3>1
    <3> QED
      BY <3>1, <3>2, PositionCases DEF Position
  <2> QED
    BY <2>1 DEF GlobalInv, TypeOK, RegistryTypeOK, Search, registry, lock
<1>2. UniqueNames'
  BY DEF GlobalInv, UniqueNames, Search, registry
<1>3. LockInv'
  BY DEF GlobalInv, TypeOK, LockInv, Search, lock, Holds, Writes, Current
<1>4. SearchesStayRight'
  BY DEF GlobalInv, TypeOK, SearchesStayRight, Search, registry, Position,
         Current
<1> QED
  BY <1>1, <1>2, <1>3, <1>4 DEF GlobalInv

\* The two steps in which a method acts are steps of the registry: the search
\* of ActOnEntry was made earlier, but its answer is still right.
LEMMA ActIsRegistryStep ==
    ASSUME GlobalInv, NEW t \in Threads, ActOnEntry(t) \/ ActOnAll(t)
    PROVE  RegistryNext
<1>1. todo[t] # <<>>
  BY DEF GlobalInv, LockInv, Holds, ActOnEntry, ActOnAll
<1>2. Current(t) \in Operation
  BY <1>1, CurrentTyped DEF GlobalInv
<1>3. CASE ActOnEntry(t)
  <2>1. position[t] = Position(Current(t).name)
    BY <1>3 DEF GlobalInv, SearchesStayRight, ActOnEntry
  <2> QED
    BY <1>2, <1>3, <2>1
       DEF ActOnEntry, Operation, RegistryNext, Register, Get, Remove
<1>4. CASE ActOnAll(t)
  BY <1>4 DEF ActOnAll, RegistryNext
<1> QED
  BY <1>3, <1>4

\* Only a thread that writes changes the entries.
LEMMA ActKeepsEntries ==
    ASSUME NEW t \in Threads, ActOnEntry(t) \/ ActOnAll(t), ~Writes(t)
    PROVE  UNCHANGED entries
BY DEF ActOnEntry, ActOnAll, Writes, GetAt, All

LEMMA ActInv ==
    ASSUME GlobalInv, NEW t \in Threads, ActOnEntry(t) \/ ActOnAll(t)
    PROVE  GlobalInv'
<1>1. Return(t) /\ Holds(t)
  BY DEF ActOnEntry, ActOnAll, Holds
<1>2. todo[t] # <<>>
  BY <1>1 DEF GlobalInv, LockInv
<1>3. RegistryInv'
  BY ActIsRegistryStep, RegistryStep
     DEF GlobalInv, TypeOK, RegistryInv
<1>4. TypeOK'
  <2>1. Tail(todo[t]) \in Seq(Operation)
    BY <1>2, CurrentTyped DEF GlobalInv
  <2>2. todo' \in [Threads -> Seq(Operation)]
    BY <1>1, <2>1 DEF Return, GlobalInv, TypeOK
  <2>3. reply' \in Replies
    BY <1>3 DEF RegistryInv, RegistryTypeOK
  <2>4. answers' \in [Threads -> Seq(Replies)]
    BY <1>1, <2>3 DEF Return, GlobalInv, TypeOK
  <2>5. RegistryTypeOK'
    BY <1>3 DEF RegistryInv
  <2> QED
    BY <1>1, <2>2, <2>4, <2>5 DEF Return, Release, GlobalInv, TypeOK
<1>5. LockInv'
  <2>1. /\ \A u \in Threads \ {t} : /\ Holds(u)' = Holds(u)
                                    /\ Writes(u)' = Writes(u)
                                    /\ todo'[u] = todo[u]
        /\ ~Holds(t)'
    BY <1>1 DEF Return, GlobalInv, TypeOK, Holds, Writes, Current
  <2> QED
    BY <1>1, <2>1, GlobalAssumption
       DEF Return, Release, GlobalInv, TypeOK, LockInv
<1>6. SearchesStayRight'
  <2> SUFFICES ASSUME NEW u \in Threads, stage'[u] = "found"
               PROVE  position'[u] = Position(Current(u).name)'
      BY DEF SearchesStayRight
  <2>1. u # t /\ stage[u] = "found" /\ UNCHANGED position /\ todo'[u] = todo[u]
    BY <1>1 DEF Return, GlobalInv, TypeOK
  <2>2. ~Writes(t)
    BY <1>1, <2>1, Exclusion DEF Holds
  <2>3. UNCHANGED entries
    BY <2>2, ActKeepsEntries
  <2> QED
    BY <2>1, <2>3 DEF GlobalInv, SearchesStayRight, Position, Current
<1> QED
  BY <1>3, <1>4, <1>5, <1>6 DEF GlobalInv, RegistryInv

LEMMA NextGlobalInv == GlobalInv /\ [Next]_vars => GlobalInv'
<1> SUFFICES ASSUME GlobalInv, [Next]_vars PROVE GlobalInv'
    OBVIOUS
<1>1. CASE \E t \in Threads : Step(t)
  BY <1>1, AcquireInv, RefuseInv, PanicInv, SearchInv, ActInv DEF Step
<1>2. CASE Done \/ UNCHANGED vars
  <2> USE <1>2 DEF Done, vars, registry, lock, GlobalInv
  <2>1. TypeOK' /\ UniqueNames'
    BY DEF TypeOK, RegistryTypeOK, UniqueNames
  <2>2. LockInv'
    BY DEF LockInv, Holds, Writes, Current
  <2>3. SearchesStayRight'
    BY DEF SearchesStayRight, Position, Current
  <2> QED
    BY <2>1, <2>2, <2>3
<1> QED
  BY <1>1, <1>2 DEF Next

\* Types, unique names, the lock's discipline, and searches that stay right.
THEOREM GlobalInvariance == Spec => []GlobalInv
<1> QED
  BY InitGlobalInv, NextGlobalInv, PTL DEF Spec

\* What a search answered is still right when the method acts on it.
THEOREM SearchesRight == Spec => []SearchesStayRight
<1>1. GlobalInv => SearchesStayRight
  BY DEF GlobalInv
<1> QED
  BY <1>1, GlobalInvariance, PTL

\* Used by any number of threads, the registry is one map whose operations
\* take effect one at a time, between the call and the return of each.
THEOREM GlobalImplementsMap == Spec => ImplementsMap
<1>1. Init => Map!Init
  BY RegistryInitInv DEF Init
<1>2. GlobalInv /\ [Next]_vars => [Map!Next]_Map!vars
  <2> SUFFICES ASSUME GlobalInv, [Next]_vars PROVE [Map!Next]_Map!vars
      OBVIOUS
  <2>1. [RegistryNext]_registry
    BY ActIsRegistryStep
       DEF Next, Step, Acquire, Refuse, Panic, Search, Done, vars, registry
  <2> QED
    BY <2>1, RegistryStep DEF GlobalInv, TypeOK, RegistryInv
<1> QED
  BY <1>1, <1>2, GlobalInvariance, PTL DEF Spec, ImplementsMap, Map!Spec

\* With a poisoned lock no thread holds it, and none takes it again.
LEMMA PoisonStops ==
    ASSUME GlobalInv, poisoned, NEW t \in Threads, Step(t)
    PROVE  UNCHANGED <<entries, answers>>
<1>1. ~Holds(t)
  BY DEF GlobalInv, LockInv
<1> QED
  BY <1>1 DEF Step, Acquire, Refuse, Panic, Search, ActOnEntry, ActOnAll,
              Holds, registry

\* After a panic under the lock no call returns and no policy changes.
THEOREM PoisonFreezes == Spec => PoisonedFrozen
<1>1. GlobalInv /\ [Next]_vars
          => [poisoned => UNCHANGED <<entries, answers>>]_vars
  BY PoisonStops DEF Next, Done, vars, registry
<1> QED
  BY <1>1, GlobalInvariance, PTL DEF Spec, PoisonedFrozen
=============================================================================
