------------------------------- MODULE Labgob -------------------------------
(***************************************************************************)
(* src/labgob: the wrapper around encoding/gob that every RPC argument,    *)
(* every RPC reply and every persisted state goes through.                 *)
(*                                                                         *)
(* checkType walks the type of what is coded and counts the fields whose   *)
(* name is not capitalised; a global table of the types already seen makes *)
(* it complain once per type and stop on recursive types.  It runs in the  *)
(* caller's goroutine, and the lock mu is only held around the table and   *)
(* around the counter, so walks of two goroutines interleave.              *)
(* checkDefault1 counts the non-default scalars of the variable decoded    *)
(* into.  gob itself is external: it does not send a field that has the    *)
(* zero value, so Decode leaves such a field of the variable as it was.    *)
(*                                                                         *)
(* A Go type is described by TypeOf[t]:                                    *)
(*   [kind |-> "struct", fields |-> sequence of [name, upper, type]],      *)
(*   [kind |-> "slice" | "ptr", elem |-> type],                            *)
(*   [kind |-> "array", elem |-> type, len |-> length],                    *)
(*   [kind |-> "map", key |-> type, elem |-> type],                        *)
(*   [kind |-> "scalar", zero |-> the zero value].                         *)
(* A value is a record (struct), a function (map, array), a sequence       *)
(* (slice), or a scalar; a pointer stands for the value it points to.      *)
(***************************************************************************)
EXTENDS Integers, Sequences, FiniteSets, TLC

CONSTANTS
    TypeOf,      \* the Go types of the program, by name
    Goroutine    \* the goroutines that encode and decode

VARIABLES
    checked,     \* the types checkType has seen
    errorCount,  \* the complaints so far
    todo         \* per goroutine, what its running checkType still has to do

labgobVars == <<checked, errorCount, todo>>

LabgobInit ==
    /\ checked = {}
    /\ errorCount = 0
    /\ todo = [g \in Goroutine |-> <<>>]

Fields(t) == TypeOf[t].fields
FieldNames(t) == {Fields(t)[f].name : f \in DOMAIN Fields(t)}
FieldType(t, n) ==
    Fields(t)[CHOOSE f \in DOMAIN Fields(t) : Fields(t)[f].name = n].type

(***************************************************************************)
(* What the switch of checkType does after it marked t: a complaint for    *)
(* each lower-case field, and the recursive calls, in the order of the     *)
(* code.                                                                   *)
(***************************************************************************)
Visit(t) == [visit |-> t]
Complain(t, f) == [complain |-> <<t, f>>]
IsVisit(w) == "visit" \in DOMAIN w

FieldWork(t, f) ==
    (IF Fields(t)[f].upper THEN <<>> ELSE <<Complain(t, f)>>)
        \o <<Visit(Fields(t)[f].type)>>

RECURSIVE FieldsWork(_, _)
FieldsWork(t, f) ==
    IF f > Len(Fields(t)) THEN <<>> ELSE FieldWork(t, f) \o FieldsWork(t, f + 1)

Switch(t) ==
    CASE TypeOf[t].kind = "struct" -> FieldsWork(t, 1)
      [] TypeOf[t].kind \in {"slice", "array", "ptr"} -> <<Visit(TypeOf[t].elem)>>
      [] TypeOf[t].kind = "map" -> <<Visit(TypeOf[t].elem), Visit(TypeOf[t].key)>>
      [] OTHER -> <<>>

(***************************************************************************)
(* One step of checkType in goroutine g: a critical section on checked     *)
(* with the switch that follows, or one on errorCount.                     *)
(***************************************************************************)
\* Mutant: the mark is set in the branches of the switch, and not for structs.
checkTypeUnmarked(g) ==
    LET t == Head(todo[g]).visit IN
    /\ todo[g] # <<>> /\ IsVisit(Head(todo[g]))
    /\ checked' = IF TypeOf[t].kind = "struct" THEN checked ELSE checked \cup {t}
    /\ todo' = [todo EXCEPT ![g] =
                   (IF t \in checked THEN <<>> ELSE Switch(t)) \o Tail(@)]
    /\ UNCHANGED errorCount

checkType(g) ==
    LET t == Head(todo[g]).visit IN
    /\ todo[g] # <<>> /\ IsVisit(Head(todo[g]))
    /\ checked' = checked \cup {t}
    /\ todo' = [todo EXCEPT ![g] =
                   (IF t \in checked THEN <<>> ELSE Switch(t)) \o Tail(@)]
    /\ UNCHANGED errorCount

lowerCase(g) ==
    /\ todo[g] # <<>> /\ ~IsVisit(Head(todo[g]))
    /\ errorCount' = errorCount + 1
    /\ todo' = [todo EXCEPT ![g] = Tail(@)]
    /\ UNCHANGED checked

checkStep(g) == checkType(g) \/ lowerCase(g)

\* checkValue(value) begins the walk of the value's type.
checkValue(g, t) == todo' = [todo EXCEPT ![g] = <<Visit(t)>>]

(***************************************************************************)
(* checkDefault1(value, depth): the number of complaints.                  *)
(***************************************************************************)
RECURSIVE checkDefault1(_, _, _), defaultFields(_, _, _, _)
checkDefault1(t, v, depth) ==
    CASE depth > 3 -> 0
      [] depth <= 3 /\ TypeOf[t].kind = "struct" -> defaultFields(t, v, depth, 1)
      [] depth <= 3 /\ TypeOf[t].kind = "ptr" -> checkDefault1(TypeOf[t].elem, v, depth + 1)
      [] depth <= 3 /\ TypeOf[t].kind = "scalar" -> IF v = TypeOf[t].zero THEN 0 ELSE 1
      [] OTHER -> 0
defaultFields(t, v, depth, f) ==
    IF f > Len(Fields(t)) THEN 0
    ELSE checkDefault1(Fields(t)[f].type, v[Fields(t)[f].name], depth + 1)
             + defaultFields(t, v, depth, f + 1)

checkDefault(t, v) == checkDefault1(t, v, 1)

(***************************************************************************)
(* encoding/gob (external): the zero value of a type, and the variable old *)
(* after a value was sent and decoded into it.                             *)
(***************************************************************************)
RECURSIVE Zero(_)
Zero(t) ==
    CASE TypeOf[t].kind = "struct" ->
            [n \in FieldNames(t) |-> Zero(FieldType(t, n))]
      [] TypeOf[t].kind = "array" -> [i \in 0..(TypeOf[t].len - 1) |-> Zero(TypeOf[t].elem)]
      [] TypeOf[t].kind = "ptr" -> Zero(TypeOf[t].elem)
      [] TypeOf[t].kind = "scalar" -> TypeOf[t].zero
      [] OTHER -> <<>>

RECURSIVE Decoded(_, _, _)
Decoded(t, old, sent) ==
    CASE TypeOf[t].kind = "struct" ->
            [n \in FieldNames(t) |-> Decoded(FieldType(t, n), old[n], sent[n])]
      [] TypeOf[t].kind = "ptr" -> Decoded(TypeOf[t].elem, old, sent)
      [] TypeOf[t].kind = "map" -> sent @@ old
      [] TypeOf[t].kind = "array" -> sent
      [] OTHER -> IF sent = Zero(t) THEN old ELSE sent

-----------------------------------------------------------------------------
\* The lower-case fields of the types in T.
LowerCase(T) ==
    UNION {{<<t, f>> : f \in {h \in DOMAIN Fields(t) : ~Fields(t)[h].upper}} :
           t \in {u \in T : TypeOf[u].kind = "struct"}}

\* The complaints goroutine g is still to make.
Pending(g) == {todo[g][i].complain : i \in {j \in DOMAIN todo[g] : ~IsVisit(todo[g][j])}}

=============================================================================
