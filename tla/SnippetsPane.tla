----------------------------- MODULE SnippetsPane -----------------------------
(***************************************************************************)
(* The snippet library: the pane that lists, edits, expands and runs        *)
(* snippets, the sidebar that adds and selects them, and snippets.json.     *)
(* A snippet's id comes from its label, so that several labels share one.   *)
(* A template is told apart by what it asks for: "Plain" has no             *)
(* placeholder, "Asks" has one that is declared, "Undeclared" has one that  *)
(* is not.  The texts of the form are chosen when it is saved; the messages *)
(* about refused forms and failed expansions are left out.                 *)
(***************************************************************************)
EXTENDS Naturals, FiniteSets

CONSTANTS
  Labels,      \* labels
  IdOf,        \* the number of the id of each label
  MaxFailed    \* how many writes of the file may fail

Templates == {"Plain", "Asks", "Undeclared"}
Snippets == [label : Labels, template : Templates]
SnippetIds == {IdOf[l] : l \in Labels}
None == 0
NoText == [of |-> None, values |-> None]

VARIABLES
  library, file,    \* the snippets in memory and on disk
  chosen,           \* the id of the snippet whose detail is shown
  fields,           \* the inputs shown: "None", "Empty", or the id the value in it was typed for
  expanded,         \* the expansion shown: the id it was made of, the id its values were typed for
  form, editing,    \* whether the form is open; the id that is edited
  history,          \* whether the shell history is shown
  failed

vars == <<library, file, chosen, fields, expanded, form, editing, history, failed>>

Blank == [shown |-> FALSE, typed |-> None]
Fresh == [shown |-> TRUE, typed |-> None]

ById(lib, id) == {s \in lib : IdOf[s.label] = id}
Without(lib, id) == lib \ ById(lib, id)

\* rebuild_variable_inputs: an empty input for each declared variable and each
\* placeholder of the snippet.
InputsOf(lib, id) ==
  IF \E s \in ById(lib, id) : s.template # "Plain" THEN Fresh ELSE Blank

\* The first snippet in the order of the labels is selected.
Init ==
  /\ \E lib \in SUBSET Snippets :
       /\ \A s, t \in lib : IdOf[s.label] = IdOf[t.label] => s = t
       /\ library = lib /\ file = lib
  /\ chosen \in IF library = {} THEN {None} ELSE {IdOf[s.label] : s \in library}
  /\ fields = InputsOf(library, chosen)
  /\ expanded = NoText
  /\ form = FALSE /\ editing = None /\ history = FALSE /\ failed = 0

\* save(): the whole file, through a temporary one, or not at all.
Written(lib, IfWritten, IfNot) ==
  \/ file' = lib /\ UNCHANGED failed /\ IfWritten
  \/ failed < MaxFailed /\ failed' = failed + 1 /\ UNCHANGED file /\ IfNot

-----------------------------------------------------------------------------
(* Selecting and expanding.                                                *)

Listed == ~form /\ ~history

\* A row of the pane, or of the sidebar, which lists whatever the pane shows.
Select(id) ==
  /\ ById(library, id) # {}
  /\ chosen' = id
  /\ fields' = InputsOf(library, id)
  /\ expanded' = NoText
  /\ UNCHANGED <<library, file, form, editing, history, failed>>

TypeValue ==
  /\ Listed /\ fields.shown
  /\ ById(library, chosen) # {}
  /\ fields' = [fields EXCEPT !.typed = chosen]
  /\ UNCHANGED <<library, file, chosen, expanded, form, editing, history, failed>>

\* A placeholder that is not declared, or has no value, is an error.
Expand ==
  /\ Listed /\ ById(library, chosen) # {}
  /\ \E s \in ById(library, chosen) :
       expanded' =
         CASE s.template = "Plain" -> [of |-> chosen, values |-> None]
           [] s.template = "Asks" /\ fields.shown /\ fields.typed # None ->
                [of |-> chosen, values |-> fields.typed]
           [] OTHER -> NoText
  /\ UNCHANGED <<library, file, chosen, fields, form, editing, history, failed>>

-----------------------------------------------------------------------------
(* The form.                                                               *)

OpenNew ==
  /\ form' = TRUE /\ editing' = None
  /\ UNCHANGED <<library, file, chosen, fields, expanded, history, failed>>

OpenEdit(id) ==
  /\ Listed /\ ById(library, id) # {}
  /\ form' = TRUE /\ editing' = id
  /\ UNCHANGED <<library, file, chosen, fields, expanded, history, failed>>

CloseForm ==
  /\ form
  /\ form' = FALSE /\ editing' = None
  /\ UNCHANGED <<library, file, chosen, fields, expanded, history, failed>>

AddedBeside(lib, s) == lib \cup {s}
Added(lib, s) == Without(lib, IdOf[s.label]) \cup {s}

\* A form whose template asks for an undeclared variable is refused.  The
\* snippet takes the place of the edited one and of the one whose id it has;
\* a failed write leaves it in memory and the form open.
SaveForm(s) ==
  /\ form /\ s.template # "Undeclared"
  /\ LET lib == Added(Without(library, editing), s)
         id == IdOf[s.label]
     IN /\ library' = lib
        /\ Written(lib,
             /\ form' = FALSE /\ editing' = None /\ chosen' = id
             /\ fields' = InputsOf(lib, id),
             UNCHANGED <<form, editing, chosen, fields>>)
  /\ UNCHANGED <<expanded, history>>

\* The sidebar's form of a past command: its template declares nothing.
AddQuickSnippet(s) ==
  /\ s.template # "Asks"
  /\ LET lib == Added(library, s)
     IN /\ library' = lib
        /\ Written(lib, chosen' = IdOf[s.label], UNCHANGED chosen)
  /\ UNCHANGED <<fields, expanded, form, editing, history>>

\* What is shown of a deleted snippet goes with it.
Forget(id) ==
  IF chosen = id
  THEN chosen' = None /\ fields' = Blank /\ expanded' = NoText
  ELSE UNCHANGED <<chosen, fields, expanded>>

Delete(id) ==
  /\ Listed /\ ById(library, id) # {}
  /\ library' = Without(library, id)
  /\ Forget(id)
  /\ IF editing = id THEN form' = FALSE /\ editing' = None
                     ELSE UNCHANGED <<form, editing>>
  /\ Written(library', TRUE, TRUE)
  /\ UNCHANGED history

-----------------------------------------------------------------------------
(* The shell history, which closes the form without forgetting what it      *)
(* edits, and whose entries become new snippets.                           *)

ToggleHistory ==
  /\ history' = ~history
  /\ form' = (form /\ history)
  /\ UNCHANGED <<library, file, chosen, fields, expanded, editing, failed>>

SaveFromHistory ==
  /\ ~form /\ history
  /\ form' = TRUE /\ editing' = None /\ history' = FALSE
  /\ UNCHANGED <<library, file, chosen, fields, expanded, failed>>

-----------------------------------------------------------------------------
Next ==
  \/ TypeValue \/ Expand \/ OpenNew \/ CloseForm \/ ToggleHistory \/ SaveFromHistory
  \/ \E id \in SnippetIds : Select(id) \/ OpenEdit(id) \/ Delete(id)
  \/ \E s \in Snippets : SaveForm(s) \/ AddQuickSnippet(s)

Spec == Init /\ [][Next]_vars

-----------------------------------------------------------------------------
\* No two snippets share an id, whatever their labels, which get() would hide.
OneSnippetPerId ==
  \A s, t \in library : IdOf[s.label] = IdOf[t.label] => s = t

\* While every write succeeds the file is the library, and the pane shows and
\* edits only snippets it has.
LibraryIsKept ==
  failed = 0 =>
    /\ file = library
    /\ \A id \in {chosen, editing} : id # None => ById(library, id) # {}

\* While every write succeeds a value typed for one snippet never fills the
\* placeholder of another: not after a quick snippet, which leaves the inputs of
\* the one before, either.
ValuesStayWithTheirSnippet ==
  failed = 0 /\ expanded.values # None => expanded.values = expanded.of
=============================================================================
