--------------------------- MODULE VarStoreProofs ---------------------------
(***************************************************************************)
(* The variable store keeps its table sound and implements a bounded map,  *)
(* for every size of the table and all the commands that can be typed.     *)
(***************************************************************************)
EXTENDS VarStore, FiniteSetTheorems, FunctionTheorems, WellFoundedInduction, TLAPS

Table == [Index -> [var : Token, value : Value] \cup {FreeEntry}]

(* TableSound, of any table. *)
SoundTable(table) ==
  \A i, j \in Index :
    /\ table[i].var = table[j].var /\ i # j => table[i].var = NULL
    /\ i < j /\ table[i].var = NULL => table[j].var = NULL

(* The loops of variable_store.c stop at the lowest index that will do.    *)
LEMMA LeastIsLowest ==
  ASSUME NEW S \in SUBSET Nat, S # {}
  PROVE  Least(S) \in S /\ \A i \in S : Least(S) <= i
<1>1. OpToRel(<, Nat) = {s \in Nat \X Nat : s[1] < s[2]}
  BY Zenon DEF OpToRel
<1> DEFINE R == OpToRel(<, Nat)
<1>2. IsWellFoundedOn(R, Nat)
  BY NatLessThanWellFounded
<1>3. R = {s \in Nat \X Nat : s[1] < s[2]}
  BY <1>1
<1> HIDE DEF R
<1>4. PICK n \in S : \A m \in S : <<m, n>> \notin R
  BY <1>2, WFMin
<1>5. ASSUME NEW m \in S PROVE n <= m
  <2>1. n \in Nat /\ m \in Nat
    OBVIOUS
  <2>2. <<m, n>> \in Nat \X Nat /\ <<m, n>>[1] = m /\ <<m, n>>[2] = n
    BY <2>1
  <2>3. ~ (m < n)
    BY <1>3, <1>4, <2>2, Zenon
  <2> QED BY <2>1, <2>3
<1> QED BY <1>5 DEF Least

LEMMA EntryVar ==
  ASSUME NEW table \in Table, NEW i \in Index
  PROVE  /\ table[i].var \in Token \cup {NULL}
         /\ table[i].var = NULL <=> table[i] = FreeEntry
         /\ table[i].var # NULL => table[i] = Entry(table[i].var, table[i].value)
                                   /\ table[i].value \in Value
<1>1. table[i] \in [var : Token, value : Value] \cup {FreeEntry}
  BY DEF Table
<1> QED BY <1>1, VarStoreAssumption DEF FreeEntry, Entry

(* vstore_get returns the value beside the variable, NULL when it is not   *)
(* in the table.                                                           *)
LEMMA GetFinds ==
  ASSUME NEW table \in Table, SoundTable(table), NEW var \in Token
  PROVE  /\ \A i \in Index : table[i].var = var => Get(table, var) = table[i].value
         /\ (\A i \in Index : table[i].var # var) => Get(table, var) = NULL
<1>1. ASSUME NEW i \in Index, table[i].var = var
      PROVE  Get(table, var) = table[i].value
  <2>1. var # NULL
    BY VarStoreAssumption
  <2>2. Holding(table, var) = {i}
    BY <1>1, <2>1 DEF Holding, SoundTable
  <2>3. Least({i}) = i
    BY <1>1, VarStoreAssumption DEF Least, Index
  <2> QED BY <1>1, <2>2, <2>3 DEF Get
<1> QED BY <1>1 DEF Get, Holding

LEMMA GetIsNull ==
  ASSUME NEW table \in Table, SoundTable(table), NEW var \in Token
  PROVE  /\ Get(table, var) \in Value \cup {NULL}
         /\ Get(table, var) = NULL <=> \A i \in Index : table[i].var # var
<1>1. NULL \notin Value /\ NULL # var
  BY VarStoreAssumption
<1>2. ASSUME NEW i \in Index, table[i].var = var
      PROVE  Get(table, var) \in Value
  BY <1>1, <1>2, GetFinds, EntryVar
<1> QED BY <1>1, <1>2, GetFinds

(* vstore_set writes the entry of the variable, or the first free one, or  *)
(* none when every entry is another variable's.                            *)
LEMMA PutWrites ==
  ASSUME NEW table \in Table, SoundTable(table), NEW var \in Token, NEW value \in Value
  PROVE  \/ /\ \A i \in Index : table[i].var \notin {var, NULL}
            /\ Put(table, var, value) = table
         \/ \E at \in Index :
              /\ Put(table, var, value) = [table EXCEPT ![at] = Entry(var, value)]
              /\ \/ table[at].var = var
                 \/ /\ table[at].var = NULL
                    /\ \A i \in Index : table[i].var # var
                    /\ \A i \in Index : i < at => table[i].var # NULL
<1> DEFINE S == IF Holding(table, var) # {} THEN Holding(table, var)
                ELSE Holding(table, NULL)
           at == Least(S)
<1>0. Put(table, var, value) = IF S = {} THEN table
                               ELSE [table EXCEPT ![at] = Entry(var, value)]
  BY DEF Put
<1>1. S \in SUBSET Index /\ Index \subseteq Nat
  BY VarStoreAssumption DEF Holding, Index
<1>2. CASE S = {}
  BY <1>0, <1>2 DEF Holding
<1>3. CASE S # {}
  <2>1. at \in S /\ \A i \in S : at <= i
    BY <1>1, <1>3, LeastIsLowest
  <2>2. at \in Index
    BY <1>1, <2>1
  <2>3. CASE Holding(table, var) # {}
    BY <1>0, <1>3, <2>1, <2>2, <2>3 DEF Holding
  <2>4. CASE Holding(table, var) = {}
    <3>1. table[at].var = NULL /\ \A i \in Index : table[i].var # var
      BY <2>1, <2>4 DEF Holding
    <3>2. ASSUME NEW i \in Index, i < at PROVE table[i].var # NULL
      <4>1. i \notin S
        <5>1. i \in S => at <= i
          BY <2>1
        <5>2. at \in Nat /\ i \in Nat
          BY <1>1, <2>2
        <5> HIDE DEF at, S
        <5> QED BY <3>2, <5>1, <5>2
      <4>2. S = {j \in Index : table[j].var = NULL}
        BY <2>4 DEF Holding
      <4> QED BY <4>1, <4>2
    <3> QED BY <1>0, <1>3, <2>2, <3>1, <3>2
  <2> QED BY <2>3, <2>4
<1> QED BY <1>2, <1>3

(* vstore_set keeps the table sound. *)
LEMMA PutSound ==
  ASSUME NEW table \in Table, SoundTable(table), NEW var \in Token, NEW value \in Value
  PROVE  Put(table, var, value) \in Table /\ SoundTable(Put(table, var, value))
<1> DEFINE new == Put(table, var, value)
<1>1. CASE new = table
  BY <1>1
<1>2. ASSUME NEW at \in Index, new = [table EXCEPT ![at] = Entry(var, value)],
             \/ table[at].var = var
             \/ /\ table[at].var = NULL
                /\ \A i \in Index : table[i].var # var
                /\ \A i \in Index : i < at => table[i].var # NULL
      PROVE  new \in Table /\ SoundTable(new)
  <2> HIDE DEF new
  <2>0. Index \subseteq Nat /\ var # NULL
    BY VarStoreAssumption DEF Index
  <2>1. Entry(var, value) \in [var : Token, value : Value] /\ Entry(var, value).var = var
    BY DEF Entry
  <2>2. new \in Table
    BY <1>2, <2>1 DEF Table
  <2>3. new[at].var = var /\ \A i \in Index : i # at => new[i] = table[i]
    BY <1>2, <2>1 DEF Table
  <2>4. ASSUME NEW i \in Index, NEW j \in Index, new[i].var = new[j].var, i # j
        PROVE  new[i].var = NULL
    BY <1>2, <2>0, <2>3, <2>4 DEF SoundTable
  <2>5. ASSUME NEW i \in Index, NEW j \in Index, i < j, new[i].var = NULL
        PROVE  new[j].var = NULL
    <3>1. i # at /\ table[i].var = NULL
      BY <2>0, <2>3, <2>5
    <3>2. table[j].var = NULL
      BY <2>5, <3>1 DEF SoundTable
    <3>3. j # at
      BY <1>2, <2>0, <2>5, <3>1, <3>2
    <3> QED BY <2>3, <3>2, <3>3
  <2> QED BY <2>2, <2>4, <2>5 DEF SoundTable
<1> QED BY <1>1, <1>2, PutWrites

-----------------------------------------------------------------------------
(* The table and the map. *)

MapOf(table) == [v \in Token |-> Get(table, v)]

(* Setting a variable changes its value and no other's. *)
LEMMA PutAssigns ==
  ASSUME NEW table \in Table, SoundTable(table), NEW var \in Token, NEW value \in Value
  PROVE  MapOf(Put(table, var, value)) =
           IF MapOf(table)[var] # NULL \/ \E i \in Index : table[i].var = NULL
           THEN [MapOf(table) EXCEPT ![var] = value] ELSE MapOf(table)
<1> DEFINE new == Put(table, var, value)
<1>0. new \in Table /\ SoundTable(new) /\ var # NULL
  BY PutSound, VarStoreAssumption
<1>1. CASE (\A i \in Index : table[i].var \notin {var, NULL}) /\ new = table
  <2>1. MapOf(table)[var] = NULL
    BY <1>1, GetIsNull DEF MapOf
  <2> QED BY <1>1, <2>1
<1>2. ASSUME NEW at \in Index, new = [table EXCEPT ![at] = Entry(var, value)],
             \/ table[at].var = var
             \/ /\ table[at].var = NULL
                /\ \A i \in Index : table[i].var # var
      PROVE  /\ MapOf(new) = [MapOf(table) EXCEPT ![var] = value]
             /\ MapOf(table)[var] # NULL \/ \E i \in Index : table[i].var = NULL
  <2> HIDE DEF new
  <2>1. /\ new[at].var = var /\ new[at].value = value
        /\ \A i \in Index : i # at => new[i] = table[i]
    BY <1>2 DEF Entry, Table
  <2>2. Get(new, var) = value
    BY <1>0, <2>1, GetFinds
  <2>3. ASSUME NEW v \in Token, v # var PROVE Get(new, v) = Get(table, v)
    <3>1. CASE \A i \in Index : table[i].var # v
      <4>1. \A i \in Index : new[i].var # v
        BY <2>1, <2>3, <3>1
      <4> QED BY <1>0, <3>1, <4>1, GetFinds
    <3>2. ASSUME NEW i \in Index, table[i].var = v
          PROVE  Get(new, v) = Get(table, v)
      <4>1. v # NULL
        BY VarStoreAssumption
      <4>2. i # at
        BY <1>2, <2>3, <3>2, <4>1
      <4>3. new[i] = table[i]
        BY <2>1, <4>2
      <4> QED BY <1>0, <3>2, <4>3, GetFinds
    <3> QED BY <3>1, <3>2
  <2>4. MapOf(new) = [MapOf(table) EXCEPT ![var] = value]
    BY <2>2, <2>3 DEF MapOf
  <2>5. MapOf(table)[var] # NULL \/ \E i \in Index : table[i].var = NULL
    BY <1>2, GetIsNull DEF MapOf
  <2> QED BY <2>4, <2>5
<1> QED BY <1>1, <1>2, PutWrites

(* There is a free entry when and only when fewer variables than entries   *)
(* have a value: in a sound table the used entries are those variables.    *)
LEMMA FreeEntries ==
  ASSUME NEW table \in Table, SoundTable(table)
  PROVE  LET assigned == {v \in Token : MapOf(table)[v] # NULL}
         IN  Cardinality(assigned) < VAR_STORE_SIZE
               <=> \E i \in Index : table[i].var = NULL
<1> DEFINE used == {i \in Index : table[i].var # NULL}
           assigned == {v \in Token : MapOf(table)[v] # NULL}
           f == [i \in used |-> table[i].var]
<1>1. IsFiniteSet(Index) /\ Cardinality(Index) = VAR_STORE_SIZE
  <2>1. VAR_STORE_SIZE \in Nat /\ 0 \in Int /\ VAR_STORE_SIZE - 1 \in Int
    BY VarStoreAssumption
  <2> QED BY <2>1, FS_Interval DEF Index
<1>2. IsFiniteSet(used) /\ Cardinality(used) <= VAR_STORE_SIZE
      /\ (Cardinality(used) = VAR_STORE_SIZE => used = Index)
  BY <1>1, FS_Subset
<1>3. assigned = {v \in Token : \E i \in Index : table[i].var = v}
  BY GetIsNull DEF MapOf
<1>4. f \in Bijection(used, assigned)
  <2>1. f \in [used -> assigned]
    BY <1>3, EntryVar
  <2>2. ASSUME NEW i \in used, NEW j \in used, f[i] = f[j] PROVE i = j
    BY <2>2 DEF SoundTable
  <2>3. ASSUME NEW v \in assigned PROVE \E i \in used : f[i] = v
    <3>1. v \in Token /\ v # NULL
      BY VarStoreAssumption
    <3>2. PICK i \in Index : table[i].var = v
      BY <1>3
    <3> QED BY <3>1, <3>2
  <2> QED BY <2>1, <2>2, <2>3, Fun_IsBij
<1>5. Cardinality(assigned) = Cardinality(used)
  BY <1>2, <1>4, FS_Bijection DEF ExistsBijection
<1>6. Cardinality(used) \in Nat
  BY <1>2, FS_CardinalityType
<1> HIDE DEF used
<1>7. Cardinality(used) < VAR_STORE_SIZE <=> used # Index
  <2>1. Cardinality(used) = VAR_STORE_SIZE <=> used = Index
    BY <1>1, <1>2
  <2> QED BY <1>2, <1>6, <2>1, VarStoreAssumption
<1> USE DEF used
<1> QED BY <1>5, <1>7

-----------------------------------------------------------------------------
(* The commands: each leaves the table sound and is a step of the map.     *)

Step == TypeOK' /\ TableSound' /\ Map!Next

LEMMA TableFacts ==
  TypeOK /\ TableSound <=>
    /\ var_table \in Table /\ SoundTable(var_table)
    /\ reply \in [op : {"set", "ask", "other"}, var : Token \cup {NULL},
                  message : Message, text : Value]
BY DEF TypeOK, TableSound, Table, SoundTable

(* A message, a word echoed, or a path that was typed. *)
LEMMA OtherReply ==
  ASSUME TypeOK, TableSound, NEW message \in Message, NEW text \in Value,
         reply' = Reply("other", NULL, message, text), UNCHANGED var_table
  PROVE  Step
<1>1. TypeOK' /\ TableSound'
  BY DEF TypeOK, TableSound, Reply
<1>2. Last' = [op |-> "other", var |-> NULL, value |-> NULL]
  BY DEF Last, Reply
<1>3. [v \in Token |-> Get(var_table, v)]' = [v \in Token |-> Get(var_table, v)]
  OBVIOUS
<1> QED BY <1>1, <1>2, <1>3 DEF Step, Map!Next, Map!Other, Map!Command

LEMMA SaysStep ==
  ASSUME TypeOK, TableSound, NEW message \in Message, Says(message)
  PROVE  Step
BY OtherReply, VarStoreAssumption DEF Says

LEMMA ShowStep ==
  ASSUME TypeOK, TableSound, NEW var \in Token, Show(var)
  PROVE  Step
<1> DEFINE value == Get(var_table, var)
           map == [v \in Token |-> Get(var_table, v)]
<1>1. value \in Value \cup {NULL} /\ NULL \notin Value /\ <<>> \in Value
  BY TableFacts, GetIsNull, VarStoreAssumption
<1>2. var_table' = var_table /\ map' = map /\ map[var] = value
  BY DEF Show
<1> HIDE DEF value
<1>3. reply' = IF value = NULL
               THEN Reply("ask", var, "badcommandVariableDoesNotExist", <<>>)
               ELSE Reply("ask", var, "done", value)
  BY DEF Show, value
<1>4. TypeOK' /\ TableSound'
  BY <1>1, <1>2, <1>3 DEF TypeOK, TableSound, Reply, Message
<1>5. Last' = [op |-> "ask", var |-> var, value |-> value]
  BY <1>1, <1>3 DEF Last, Reply
<1>6. Map!Show(var)
  BY <1>2, <1>5 DEF Map!Show, Map!Command
<1> QED BY <1>4, <1>6 DEF Step, Map!Next

(* The instance brings its own copy of the definition in FiniteSets. *)
LEMMA SameCardinality == \A S : Map!Cardinality(S) = Cardinality(S)
BY Zenon DEF Map!Cardinality, Cardinality

LEMMA StoreStep ==
  ASSUME TypeOK, TableSound, NEW var \in Token, NEW value \in Value,
         var_table' = Put(var_table, var, value),
         reply' = Reply("set", var, "done", value)
  PROVE  Step
<1>1. var_table \in Table /\ SoundTable(var_table)
  BY TableFacts
<1>2. var_table' \in Table /\ SoundTable(var_table')
  BY <1>1, PutSound
<1>3. TypeOK' /\ TableSound'
  BY <1>2 DEF TypeOK, TableSound, Table, SoundTable, Reply, Message
<1>4. Last' = [op |-> "assign", var |-> var, value |-> value]
  BY DEF Last, Reply
<1> DEFINE map == [v \in Token |-> Get(var_table, v)]
<1>5. map = MapOf(var_table) /\ map' = MapOf(var_table')
  BY DEF MapOf
<1>6. Cardinality(Map!Assigned) < VAR_STORE_SIZE
        <=> \E i \in Index : var_table[i].var = NULL
  BY <1>1, <1>5, FreeEntries DEF Map!Assigned
<1>7. map' = IF map[var] # NULL \/ Cardinality(Map!Assigned) < VAR_STORE_SIZE
             THEN [map EXCEPT ![var] = value] ELSE map
  BY <1>1, <1>5, <1>6, PutAssigns
<1>8. Map!Assign(var, value)
  BY <1>4, <1>7, SameCardinality, Zenon DEF Map!Assign, Map!Command
<1> QED BY <1>3, <1>8 DEF Step, Map!Next

LEMMA NoPathStep ==
  ASSUME TypeOK, TableSound, NEW var \in Token, NoPath(var),
         reply' = Reply("ask", var, "badcommandNotAlphanum", <<>>), UNCHANGED var_table
  PROVE  Step
<1> DEFINE map == [v \in Token |-> Get(var_table, v)]
<1>1. TypeOK' /\ TableSound'
  BY VarStoreAssumption DEF TypeOK, TableSound, Reply, Message
<1>2. Last' = [op |-> "ask", var |-> var, value |-> UNFIT]
  BY DEF Last, Reply
<1>3. map' = map /\ map[var] = Get(var_table, var)
  OBVIOUS
<1>4. map[var] \notin {v \in Value : ValidPath(v)} \cup {NULL}
  BY <1>3 DEF NoPath
<1>5. Map!ShowPath(var)
  BY <1>2, <1>3, <1>4 DEF Map!ShowPath, Map!Command
<1> QED BY <1>1, <1>5 DEF Step, Map!Next

(* The words behind a command. *)
LEMMA Words ==
  ASSUME NEW args \in Arguments
  PROVE  /\ Len(args) = 1 => /\ args \in Value /\ args[1] \in Token
                             /\ Head(args) \in Token
                             /\ args[1].dollars > 0 => Undollared(args[1]) \in Token
         /\ ~ TooMany(args) /\ Len(args) >= 2 => Head(args) \in Token
                                                 /\ Tail(args) \in Value
<1>1. args \in Seq(Token) /\ Len(args) \in Nat /\ MAX_ARGS_SIZE \in Nat
  BY VarStoreAssumption
<1>2. Len(args) >= 1 => args[1] \in Token /\ Head(args) = args[1]
  BY <1>1
<1>3. ~ TooMany(args) => Len(args) <= MAX_ARGS_SIZE - 1
  BY <1>1 DEF TooMany
<1> QED BY <1>1, <1>2, <1>3, VarStoreAssumption DEF Undollared

LEMMA OneWordStep ==
  ASSUME TypeOK, TableSound, NEW args \in Arguments, NotOneWord(args)
  PROVE  Step
BY SaysStep DEF NotOneWord, Message

LEMMA PathArgumentStep ==
  ASSUME TypeOK, TableSound, NEW args \in Arguments, PathArgument(args)
  PROVE  Step
<1>1. CASE NotOneWord(args)
  BY <1>1, OneWordStep
<1>2. CASE /\ OneWord(args) /\ args[1].dollars > 0
           /\ TakeVariable(Undollared(args[1]))
  <2>1. Undollared(args[1]) \in Token
    BY <1>2, Words DEF OneWord
  <2> QED BY <1>2, <2>1, ShowStep, NoPathStep DEF TakeVariable
<1>3. CASE OneWord(args) /\ args[1].dollars = 0 /\ TakePath(args)
  <2>1. args \in Value
    BY <1>3, Words DEF OneWord
  <2> QED BY <1>3, <2>1, OtherReply, SaysStep DEF TakePath, Message
<1> QED BY <1>1, <1>2, <1>3 DEF PathArgument

LEMMA NextStep ==
  ASSUME TypeOK, TableSound, Next
  PROVE  Step
<1>0. PICK args \in Arguments :
        Set(args) \/ PrintVariable(args) \/ Echo(args) \/ Mkdir(args) \/ Rmdir(args)
  BY DEF Next
<1>1. CASE Set(args)
  BY <1>1, SaysStep, StoreStep, Words DEF Set, Message
<1>2. CASE PrintVariable(args)
  BY <1>2, SaysStep, ShowStep, Words DEF PrintVariable, Message
<1>3. CASE Echo(args)
  <2>1. CASE NotOneWord(args)
    BY <2>1, OneWordStep
  <2>2. CASE OneWord(args) /\ args[1].dollars > 0 /\ Show(Undollared(args[1]))
    BY <2>2, ShowStep, Words DEF OneWord
  <2>3. CASE OneWord(args) /\ reply' = Reply("other", NULL, "done", args)
             /\ UNCHANGED var_table
    BY <2>3, OtherReply, Words DEF OneWord, Message
  <2> QED BY <1>3, <2>1, <2>2, <2>3 DEF Echo
<1>4. CASE Mkdir(args) \/ Rmdir(args)
  BY <1>4, PathArgumentStep DEF Mkdir, Rmdir
<1> QED BY <1>0, <1>1, <1>2, <1>3, <1>4

LEMMA InitSound == Init => TypeOK /\ TableSound /\ Map!Init
<1> SUFFICES ASSUME Init PROVE TypeOK /\ TableSound /\ Map!Init
  OBVIOUS
<1>1. \A i \in Index : var_table[i] = FreeEntry /\ var_table[i].var = NULL
  BY DEF Init, FreeEntry
<1>2. TypeOK /\ TableSound
  BY <1>1, VarStoreAssumption DEF Init, TypeOK, TableSound, Reply, Message
<1>3. [v \in Token |-> Get(var_table, v)] = [v \in Token |-> NULL]
  <2>1. var_table \in Table /\ SoundTable(var_table) /\ NULL \notin Token
    BY <1>2, TableFacts, VarStoreAssumption
  <2>2. ASSUME NEW v \in Token PROVE Get(var_table, v) = NULL
    BY <1>1, <2>1, GetIsNull
  <2> QED BY <2>2
<1>4. Last = [op |-> "other", var |-> NULL, value |-> NULL]
  BY DEF Init, Last, Reply
<1> QED BY <1>2, <1>3, <1>4 DEF Map!Init, Map!Other, Map!Command

LEMMA Idle ==
  ASSUME TypeOK, TableSound, UNCHANGED vars
  PROVE  TypeOK' /\ TableSound' /\ UNCHANGED Map!vars
<1>1. var_table' = var_table /\ reply' = reply
  BY DEF vars
<1>2. TypeOK' /\ TableSound'
  BY <1>1 DEF TypeOK, TableSound
<1>3. Last' = Last /\ [v \in Token |-> Get(var_table, v)]' = [v \in Token |-> Get(var_table, v)]
  BY <1>1 DEF Last
<1> QED BY <1>2, <1>3 DEF Map!vars

(* No command leaves a variable in two entries, or a free entry before one *)
(* in use, so that the loops of vstore_get and vstore_set stop at the      *)
(* right one.                                                              *)
THEOREM TableStaysSound == Spec => [](TypeOK /\ TableSound)
<1>1. Init => TypeOK /\ TableSound
  BY InitSound
<1>2. (TypeOK /\ TableSound) /\ [Next]_vars => (TypeOK /\ TableSound)'
  BY NextStep, Idle DEF Step
<1> QED BY <1>1, <1>2, PTL DEF Spec

(* The entries of the table and the history of the last command have their *)
(* types: an entry is free or has both a variable and a value.             *)
THEOREM TypeCorrect == Spec => []TypeOK
<1>1. (TypeOK /\ TableSound) => TypeOK
  OBVIOUS
<1> QED BY <1>1, TableStaysSound, PTL

(* Whatever is typed, the commands see a map with room for VAR_STORE_SIZE  *)
(* variables.                                                              *)
THEOREM StoreIsAMap == Spec => ImplementsVarMap
<1>1. Init => Map!Init
  BY InitSound
<1>2. (TypeOK /\ TableSound) /\ [Next]_vars => [Map!Next]_(Map!vars)
  BY NextStep, Idle DEF Step
<1> QED BY <1>1, <1>2, TableStaysSound, PTL DEF Spec, ImplementsVarMap, Map!Spec

=============================================================================
