------------------------------ MODULE RecordForm ------------------------------
(***************************************************************************)
(* What the pages of users, salary codes and employees share: the dialog   *)
(* that creates or edits a record, and the one that confirms a deletion    *)
(* (users.tsx, user-form-dialog.tsx, salary-codes.tsx,                     *)
(* salary-code-form-dialog.tsx, employees.tsx, employee-form-dialog.tsx,   *)
(* confirm-dialog.tsx).                                                    *)
(*                                                                         *)
(* The form holds the values of its fields, those it does not show         *)
(* included; it is filled anew whenever it opens, so that what a closed    *)
(* form holds does not matter.  It is closed by Cancel, or by the success  *)
(* of a save, whichever record it shows by then: only the submit button    *)
(* waits for the answer.                                                   *)
(***************************************************************************)
CONSTANTS
    Fields, Values, Blank,      \* the schema's fields, and what is typed
    NotOnEdit,                  \* fields that are typed for a new record only
    Unread,                     \* fields that the server does not give back
    Ids, None

VARIABLES
    form,       \* formOpen, editing, and the state of useForm
    saving,     \* createMut or updateMut is pending: what it sent
    deleting,   \* the record that the confirm dialog names
    removing    \* deleteMut is pending: the id it sent

formVars == <<form, saving, deleting, removing>>

Filled == [Fields -> Values \cup {Blank}]
Records == [id : Ids, values : Filled]

NewRecord == [f \in Fields |-> Blank]

Closed == [open |-> FALSE, editing |-> None, values |-> NewRecord, errors |-> {}]

TypeOK ==
    /\ form \in [open : BOOLEAN, editing : Ids \cup {None}, values : Filled,
                 errors : SUBSET Fields]
    /\ saving \in [id : Ids \cup {None}, values : Filled] \cup {None}
    /\ deleting \in Ids \cup {None}
    /\ removing \in Ids \cup {None}

Init == form = Closed /\ saving = None /\ deleting = None /\ removing = None

\* Dialogs are modal: the page behind them takes no clicks.
Modal == form.open \/ deleting # None

-----------------------------------------------------------------------------
(***************************************************************************)
(* The form.                                                               *)
(***************************************************************************)
Shows(id, values) ==
    form' = [open |-> TRUE, editing |-> id, values |-> values, errors |-> {}]

OpenCreate ==
    /\ ~Modal
    /\ Shows(None, NewRecord)
    /\ UNCHANGED <<saving, deleting, removing>>

OpenEdit(r) ==
    /\ ~Modal
    /\ Shows(r.id, [f \in Fields |-> IF f \in Unread THEN Blank ELSE r.values[f]])
    /\ UNCHANGED <<saving, deleting, removing>>

Typed(f) == ~(form.editing # None /\ f \in NotOnEdit)

Type(f, v) ==
    /\ form.open /\ Typed(f) /\ form.values[f] # v
    /\ form' = [form EXCEPT !.values[f] = v, !.errors = @ \ {f}]
    /\ UNCHANGED <<saving, deleting, removing>>

Cancel ==
    /\ form.open
    /\ form' = Closed
    /\ UNCHANGED <<saving, deleting, removing>>

\* Only some fields of an employee may be left empty, and they are not kept
\* here.  The schema is checked against every field, shown or not.
Missing == {f \in Fields : form.values[f] = Blank}

Sends == saving' = [id |-> form.editing, values |-> form.values]

SubmitCloses ==                 \* mutant: mutate() is not waited for
    /\ form.open /\ saving = None /\ Missing = {}
    /\ Sends
    /\ form' = Closed
    /\ UNCHANGED <<deleting, removing>>

Submit ==
    /\ form.open /\ saving = None /\ Missing = {}
    /\ Sends
    /\ form' = [form EXCEPT !.errors = {}]
    /\ UNCHANGED <<deleting, removing>>

SubmitRefused ==
    /\ form.open /\ saving = None /\ Missing # {}
    /\ form' = [form EXCEPT !.errors = Missing]
    /\ UNCHANGED <<saving, deleting, removing>>

\* mutateAsync() throws: the form stays as it is.
SaveFails ==
    /\ saving # None
    /\ saving' = None
    /\ UNCHANGED <<form, deleting, removing>>

SaveSucceeds ==
    /\ saving # None
    /\ saving' = None
    /\ form' = Closed
    /\ UNCHANGED <<deleting, removing>>

-----------------------------------------------------------------------------
(***************************************************************************)
(* The deletion.  Its buttons are disabled while it is pending, but Escape *)
(* closes the dialog, and another record may be asked about.               *)
(***************************************************************************)
AskDelete(id) ==
    /\ ~Modal
    /\ deleting' = id
    /\ UNCHANGED <<form, saving, removing>>

DismissDelete ==
    /\ deleting # None
    /\ deleting' = None
    /\ UNCHANGED <<form, saving, removing>>

ConfirmDelete ==
    /\ deleting # None /\ removing = None
    /\ removing' = deleting
    /\ UNCHANGED <<form, saving, deleting>>

DeleteFails ==
    /\ removing # None
    /\ removing' = None
    /\ UNCHANGED <<form, saving, deleting>>

DeleteSucceeds ==
    /\ removing # None
    /\ removing' = None /\ deleting' = None
    /\ UNCHANGED <<form, saving>>

\* Another page, and back again: the state is new.
Remount == form' = Closed /\ saving' = None /\ deleting' = None /\ removing' = None

OnForm ==
    \/ OpenCreate \/ Cancel \/ SubmitRefused \/ DismissDelete
    \/ \E f \in Fields, v \in Values \cup {Blank} : Type(f, v)

Next ==
    \/ OnForm \/ Submit \/ SaveFails \/ SaveSucceeds \/ Remount
    \/ \E r \in Records : OpenEdit(r)
    \/ \E id \in Ids : AskDelete(id)
    \/ ConfirmDelete \/ DeleteFails \/ DeleteSucceeds

Spec == Init /\ [][Next]_formVars

-----------------------------------------------------------------------------
(***************************************************************************)
(* A click on the button of an edit, with every field it shows filled in,  *)
(* saves the record: "when present the dialog edits this user"             *)
(* (user-form-dialog.tsx).                                                 *)
(***************************************************************************)
Complete == \A f \in Fields : Typed(f) => form.values[f] # Blank

EditIsSaved ==
    [][(Submit \/ SubmitRefused) /\ form.editing # None /\ Complete
         => saving' # None]_formVars

=============================================================================
