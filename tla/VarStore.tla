------------------------------ MODULE VarStore ------------------------------
(***************************************************************************)
(* variable_store.c, and the commands that write and read variables: set,  *)
(* print, echo, and the argument of mkdir and rmdir, with the tests of     *)
(* their arguments in interpreter.c.                                       *)
(*                                                                         *)
(* A token is a word with the dollar signs in front of it; the word may be *)
(* empty, since parseInput makes an empty word of a second space.  set     *)
(* joins the tokens of a value with spaces, which no token contains: a     *)
(* value is the sequence of its tokens.                                    *)
(***************************************************************************)
EXTENDS Naturals, Sequences, FiniteSets

CONSTANTS
  VAR_STORE_SIZE,   \* entries of the table (memory.h)
  MAX_ARGS_SIZE,    \* words of a command, its name included (interpreter.h)
  Word,             \* what is left of a token without its dollar signs
  PathWord,         \* the words that is_valid_path accepts
  Token,            \* the tokens that are typed, or left when a "$" is dropped
  Value,            \* the sequences of tokens that are typed
  Arguments,        \* the lists of tokens that are typed behind a command
  NULL, UNFIT

ASSUME VarStoreAssumption ==
  /\ VAR_STORE_SIZE \in Nat /\ MAX_ARGS_SIZE \in Nat
  /\ PathWord \subseteq Word
  /\ Token \subseteq [dollars : Nat, word : Word]
  /\ \A t \in Token : t.dollars > 0 => [t EXCEPT !.dollars = @ - 1] \in Token
  /\ Value \subseteq Seq(Token) /\ <<>> \in Value
  /\ \A args \in Arguments : /\ args \in Seq(Token)
                             /\ Len(args) = 1 => args \in Value
                             /\ Len(args) \in 2 .. (MAX_ARGS_SIZE - 1) => Tail(args) \in Value
  /\ NULL \notin Token \cup Value /\ UNFIT \notin Value

VARIABLES
  var_table,  \* the entries, each a variable and its value, or two NULLs
  reply       \* the last command: the variable it set or looked up, how it
              \* ended, and what it stored, printed or took for a path

vars == <<var_table, reply>>

Index == 0 .. (VAR_STORE_SIZE - 1)
FreeEntry == [var |-> NULL, value |-> NULL]

Message == {"done", "badcommand", "badcommandMissingArguments",
            "badcommandTooManyTokens", "badcommandVariableDoesNotExist",
            "badcommandNotAlphanum"}

Reply(op, var, message, text) ==
  [op |-> op, var |-> var, message |-> message, text |-> text]

(* vstore_init *)
Init ==
  /\ var_table = [i \in Index |-> FreeEntry]
  /\ reply = Reply("other", NULL, "done", <<>>)

-----------------------------------------------------------------------------
(* variable_store.c: both loops stop at the first entry that will do. *)

Least(indices) == CHOOSE i \in indices : \A j \in indices : i <= j
Holding(table, var) == {i \in Index : table[i].var = var}
Entry(var, value) == [var |-> var, value |-> value]

(* Takes the first entry that is free or holds the variable's word. *)
BrokenPut(table, var, value) ==
  LET at == {i \in Index : \/ table[i].var = NULL
                           \/ table[i].var # NULL /\ table[i].var.word = var.word}
  IN  IF at = {} THEN table ELSE [table EXCEPT ![Least(at)] = Entry(var, value)]

(* Does not look whether the variable is there already. *)
BrokenAppend(table, var, value) ==
  IF Holding(table, NULL) = {} THEN table
  ELSE [table EXCEPT ![Least(Holding(table, NULL))] = Entry(var, value)]

(* Writes the value only. *)
BrokenUpdate(table, var, value) ==
  LET at == Holding(table, var) \cup Holding(table, NULL)
  IN  IF at = {} THEN table ELSE [table EXCEPT ![Least(at)].value = value]

(* The table after vstore_set: as it was when there is no entry to take. *)
Put(table, var, value) ==
  LET at == IF Holding(table, var) # {} THEN Holding(table, var)
            ELSE Holding(table, NULL)
  IN  IF at = {} THEN table ELSE [table EXCEPT ![Least(at)] = Entry(var, value)]

(* vstore_get *)
Get(table, var) ==
  IF Holding(table, var) = {} THEN NULL ELSE table[Least(Holding(table, var))].value

-----------------------------------------------------------------------------
(* The commands, with the tests of interpreter.c.                          *)

TooMany(args) == Len(args) + 1 > MAX_ARGS_SIZE

Says(message) == reply' = Reply("other", NULL, message, <<>>) /\ UNCHANGED var_table

Set(args) ==
  \/ TooMany(args) /\ Says("badcommandTooManyTokens")
  \/ ~ TooMany(args) /\ Len(args) < 2 /\ Says("badcommandMissingArguments")
  \/ /\ ~ TooMany(args) /\ Len(args) >= 2
     /\ var_table' = Put(var_table, Head(args), Tail(args))
     /\ reply' = Reply("set", Head(args), "done", Tail(args))

(* print: the table is asked for the word as it was typed, dollars and all. *)
Show(var) ==
  /\ reply' = IF Get(var_table, var) = NULL
              THEN Reply("ask", var, "badcommandVariableDoesNotExist", <<>>)
              ELSE Reply("ask", var, "done", Get(var_table, var))
  /\ UNCHANGED var_table

PrintVariable(args) ==
  \/ TooMany(args) /\ Says("badcommandTooManyTokens")
  \/ ~ TooMany(args) /\ Len(args) # 1 /\ Says("badcommand")
  \/ ~ TooMany(args) /\ Len(args) = 1 /\ Show(Head(args))

(* var++ where the first character is a dollar sign *)
Undollared(token) == [token EXCEPT !.dollars = @ - 1]

(* echo, mkdir and rmdir take one word. *)
OneWord(args) == ~ TooMany(args) /\ Len(args) = 1

NotOneWord(args) ==
  \/ (TooMany(args) \/ Len(args) > 1) /\ Says("badcommandTooManyTokens")
  \/ ~ TooMany(args) /\ args = <<>> /\ Says("badcommandMissingArguments")

Echo(args) ==
  \/ NotOneWord(args)
  \/ OneWord(args) /\ args[1].dollars > 0 /\ Show(Undollared(args[1]))
  \/ /\ OneWord(args) /\ args[1].dollars = 0
     /\ reply' = Reply("other", NULL, "done", args)
     /\ UNCHANGED var_table

(* is_valid_path: a space or a dollar sign is no character of a path. *)
ValidPath(value) ==
  Len(value) = 1 /\ value[1].dollars = 0 /\ value[1].word \in PathWord

(* The path that mkdir and rmdir hand to fs_create and fs_delete. *)
TakePath(path) ==
  \/ ValidPath(path) /\ reply' = Reply("other", NULL, "done", path)
       /\ UNCHANGED var_table
  \/ ~ ValidPath(path) /\ Says("badcommandNotAlphanum")

NoPath(var) == Get(var_table, var) # NULL /\ ~ ValidPath(Get(var_table, var))

TakeVariable(var) ==
  \/ /\ NoPath(var)
     /\ reply' = Reply("ask", var, "badcommandNotAlphanum", <<>>)
     /\ UNCHANGED var_table
  \/ ~ NoPath(var) /\ Show(var)

PathArgument(args) ==
  \/ NotOneWord(args)
  \/ OneWord(args) /\ args[1].dollars > 0 /\ TakeVariable(Undollared(args[1]))
  \/ OneWord(args) /\ args[1].dollars = 0 /\ TakePath(args)

Mkdir(args) == PathArgument(args)
Rmdir(args) == PathArgument(args)

Next == \E args \in Arguments :
          Set(args) \/ PrintVariable(args) \/ Echo(args) \/ Mkdir(args) \/ Rmdir(args)

Spec == Init /\ [][Next]_vars

-----------------------------------------------------------------------------
(* The table holds variables with values, or free entries. *)
TypeOK ==
  /\ var_table \in [Index -> [var : Token, value : Value] \cup {FreeEntry}]
  /\ reply \in [op : {"set", "ask", "other"}, var : Token \cup {NULL},
               message : Message, text : Value]

(* vstore_get and vstore_set stop at the first entry of a variable, and    *)
(* vstore_set fills the first free one: no variable may have two entries,  *)
(* and the entries in use come before the free ones.                       *)
TableSound ==
  \A i, j \in Index :
    /\ var_table[i].var = var_table[j].var /\ i # j => var_table[i].var = NULL
    /\ i < j /\ var_table[i].var = NULL => var_table[j].var = NULL

(* The last command as the map sees it. *)
Last ==
  CASE reply.op = "set" ->
         [op |-> "assign", var |-> reply.var, value |-> reply.text]
    [] reply.op = "ask" ->
         [op |-> "ask", var |-> reply.var,
          value |-> CASE reply.message = "done" -> reply.text
                      [] reply.message = "badcommandNotAlphanum" -> UNFIT
                      [] OTHER -> NULL]
    [] OTHER -> [op |-> "other", var |-> NULL, value |-> NULL]

Map == INSTANCE VarMap WITH
  Var <- Token, Capacity <- VAR_STORE_SIZE, Path <- {v \in Value : ValidPath(v)},
  NONE <- NULL, UNFIT <- UNFIT,
  map <- [v \in Token |-> Get(var_table, v)], last <- Last

(* Every variable a set found room for answers print, echo, mkdir and      *)
(* rmdir with the value it was last given, however the table is filled and *)
(* overwritten; a full table drops a new variable and disturbs no other.   *)
ImplementsVarMap == Map!Spec

=============================================================================
